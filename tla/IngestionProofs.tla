--------------------------- MODULE IngestionProofs ---------------------------
(***************************************************************************)
(* Theorems about Ingestion, for every file, chunk size and minimum: the   *)
(* types, the token budget, the order of the sentences, the headers of     *)
(* split tables, what is lost on the way, and the section a chunk names.   *)
(* The invariants build on each other: IInv (types and budget), InOrder    *)
(* (positions rise through the sections), PackInOrder (the text pieces of  *)
(* a section follow each other), BlocksInOrder (a table piece is cut from  *)
(* one block) and NothingLost (what is not in a chunk is small or still at *)
(* hand); then PagesInOrder (the pages are the file's, none twice or       *)
(* missing, and tables behind them), LinesInPlace (so are the lines),      *)
(* SectionsInPlace (the paths are the outline of the lines) and            *)
(* TextsSourced (a text chunk is made of sentences of its section).        *)
(***************************************************************************)
EXTENDS Ingestion, TLAPS

(* What a piece of body text being filled satisfies.  The running count    *)
(* is never ahead of the count of the joined text and at most nine tenths  *)
(* of a token per sentence behind it, and exceeds the budget only by the   *)
(* one sentence that was put behind the overlap.                           *)
PieceFits ==
    /\ cur.body = <<>> => cur = EmptyPiece
    /\ 13 * cur.words <= 10 * cur.tokens + 9 * Len(cur.body)
    /\ 10 * cur.tokens <= 13 * cur.words
    /\ cur.tokens <= ChunkSize \/ (Len(cur.body) = 2 /\ cur.tokens <= 2 * ChunkSize - 2)
    /\ \A k \in DOMAIN cur.body : ~Oversized(cur.body[k])

(* What is packed fits the budget; a chunk has its title in front of that. *)
PackFits(piece) ==
    \/ Len(piece.body) = 1
    \/ ApproxTokens(piece.words) < ChunkSize + Len(piece.body)
    \/ Len(piece.body) = 2 /\ ApproxTokens(piece.words) < 2 * ChunkSize

RowsFit(piece) ==
    \/ ApproxTokens(piece.words) <= MaxTableTokens
    \/ Len(piece.body) <= piece.header + 1

(* Which variables are in use in which loop. *)
Extracting == pc \in {"fitz", "plumber", "tables", "read"}
Walking == pc \in {"blocks", "split", "pack"}

Places ==
    /\ Extracting => lines = <<>>
    /\ Extracting \/ pc = "merge" =>
          nodes = <<>> /\ stack = <<>> /\ rows = <<>> /\ cur = EmptyPiece /\ chunks = <<>>
    /\ pc \in {"tables", "merge"} => pages # <<>>
    /\ pc = "merge" /\ at > 0 => lines # <<>>
    /\ pc = "read" => file.kind = "text" /\ at = 0
    /\ pc = "parse" => stack # <<>> /\ cur = EmptyPiece /\ nodes # <<>>
    /\ Walking => node \in 1..Len(nodes) /\ at > 0
    /\ pc = "blocks" /\ cur.body = <<>> => cur = EmptyPiece
    /\ pc = "split" => Len(rows) > 1 /\ RowsFit(cur)
    /\ pc = "pack" => PieceFits

IInv == file \in Files /\ CodeTypes /\ Places /\ ChunksFitBudget

-----------------------------------------------------------------------------
(* Lemmas about the operators                                              *)

(* approx_tokens rounds down by less than one token. *)
LEMMA Rounding ==
    ASSUME NEW w \in Nat
    PROVE  /\ ApproxTokens(w) \in Nat
           /\ 10 * ApproxTokens(w) <= 13 * w
           /\ 13 * w <= 10 * ApproxTokens(w) + 9
BY DEF ApproxTokens

LEMMA Constants ==
    /\ MaxTableTokens \in Nat
    /\ ChunkSize \in Nat
    /\ ChunkSize >= 2
BY IngestionAssumption DEF MaxTableTokens

(* The element behind position i of a sequence, and a sequence with one    *)
(* more element.                                                           *)
LEMMA NextElement ==
    ASSUME NEW S, NEW s \in Seq(S), NEW i \in Nat, i < Len(s)
    PROVE  s[i + 1] \in S /\ i + 1 \in Nat /\ i + 1 \in 1..Len(s)
OBVIOUS

LEMMA Appended ==
    ASSUME NEW S, NEW s \in Seq(S), NEW e \in S
    PROVE  /\ Append(s, e) \in Seq(S)
           /\ Append(s, e) # <<>>
           /\ Len(Append(s, e)) = Len(s) + 1
<1>1. Append(s, e) \in Seq(S) /\ Len(Append(s, e)) = Len(s) + 1 /\ Len(s) \in Nat
  OBVIOUS
<1>2. Len(Append(s, e)) # 0
  BY <1>1
<1>. QED  BY <1>1, <1>2

LEMMA AppendedElements ==
    ASSUME NEW S, NEW s \in Seq(S), NEW e \in S
    PROVE  \A k \in DOMAIN Append(s, e) :
              \/ k \in DOMAIN s /\ Append(s, e)[k] = s[k]
              \/ Append(s, e)[k] = e
OBVIOUS

LEMMA AppendedEnd ==
    ASSUME NEW S, NEW s \in Seq(S), NEW e \in S
    PROVE  /\ \A k \in 1..Len(s) : Append(s, e)[k] = s[k]
           /\ Append(s, e)[Len(s) + 1] = e
OBVIOUS

LEMMA PairOf ==
    ASSUME NEW S, NEW a \in S, NEW b \in S, NEW s, s = Append(<<a>>, b)
    PROVE  s \in Seq(S) /\ Len(s) = 2 /\ s[1] = a /\ s[2] = b
<1>. DEFINE one == <<a>>
<1>1. one \in Seq(S) /\ Len(one) = 1 /\ one[1] = a
  OBVIOUS
<1>2. s = Append(one, b)
  OBVIOUS
<1>. HIDE DEF one
<1>3. s \in Seq(S) /\ Len(s) = Len(one) + 1
  BY <1>1, <1>2, Appended
<1>4. s[1] = one[1] /\ s[Len(one) + 1] = b
  BY <1>1, <1>2, AppendedEnd
<1>. QED  BY <1>1, <1>3, <1>4

LEMMA Joined ==
    ASSUME NEW S, NEW s \in Seq(S), NEW t \in Seq(S)
    PROVE  s \o t \in Seq(S) /\ Len(s \o t) = Len(s) + Len(t)
OBVIOUS

LEMMA Shortened ==
    ASSUME NEW S, NEW s \in Seq(S), Len(s) > 1
    PROVE  SubSeq(s, 1, Len(s) - 1) \in Seq(S) /\ SubSeq(s, 1, Len(s) - 1) # <<>>
<1>. DEFINE t == SubSeq(s, 1, Len(s) - 1)
<1>1. t \in Seq(S) /\ Len(t) = Len(s) - 1 /\ Len(s) \in Nat
  OBVIOUS
<1>. HIDE DEF t
<1>2. t # <<>>
  BY <1>1
<1>. QED  BY <1>1, <1>2 DEF t

LEMMA Singleton ==
    ASSUME NEW S, NEW e \in S
    PROVE  <<e>> \in Seq(S) /\ <<e>> # <<>>
OBVIOUS

LEMMA EmptySequence ==
    ASSUME NEW S
    PROVE  <<>> \in Seq(S)
OBVIOUS

LEMMA WordsType ==
    ASSUME lines \in Seq(LineRecord), NEW p \in Positions
    PROVE  Words(p) \in Nat
<1>1. lines[p] \in LineRecord
  BY DEF Positions
<1>2. lines[p].line \in LineType
  BY <1>1, IngestionAssumption DEF LineRecord
<1>. QED  BY <1>2 DEF Words, LineType

(* A sequence of positions is a sequence of numbers. *)
LEMMA PositionsAreNumbers ==
    ASSUME NEW s \in Seq(Positions)
    PROVE  s \in Seq(Nat)
<1>1. \A i \in DOMAIN s : s[i] \in Nat
  BY DEF Positions
<1>. QED  BY <1>1

(* A piece with one more sentence. *)
LEMMA AddType ==
    ASSUME lines \in Seq(LineRecord), NEW p \in Positions,
           NEW piece \in PieceType, piece.body \in Seq(Positions)
    PROVE  /\ Add(piece, p) \in PieceType
           /\ Add(piece, p).body \in Seq(Positions)
           /\ Add(piece, p).body = Append(piece.body, p)
           /\ Add(piece, p).tokens = piece.tokens + ApproxTokens(Words(p))
           /\ Add(piece, p).words = piece.words + Words(p)
<1>1. Words(p) \in Nat /\ ApproxTokens(Words(p)) \in Nat
  BY WordsType, Rounding
<1>2. Add(piece, p) = [body |-> Append(piece.body, p),
                       tokens |-> piece.tokens + ApproxTokens(Words(p)),
                       words |-> piece.words + Words(p), header |-> piece.header]
  BY DEF Add
<1>3. Append(piece.body, p) \in Seq(Positions)
  OBVIOUS
<1>4. Append(piece.body, p) \in Seq(Nat)
  BY <1>3, PositionsAreNumbers
<1>. QED  BY <1>1, <1>2, <1>3, <1>4 DEF PieceType

(* A piece with one more row. *)
LEMMA AddRowType ==
    ASSUME lines \in Seq(LineRecord), NEW p \in Positions,
           NEW piece \in PieceType, piece.body \in Seq(Positions)
    PROVE  /\ AddRow(piece, p) \in PieceType
           /\ AddRow(piece, p).body \in Seq(Positions)
           /\ AddRow(piece, p).body = Append(piece.body, p)
           /\ AddRow(piece, p).words = piece.words + Words(p)
           /\ AddRow(piece, p).header = piece.header
<1>1. Words(p) \in Nat
  BY WordsType
<1>2. AddRow(piece, p) = [body |-> Append(piece.body, p), tokens |-> piece.tokens,
                          words |-> piece.words + Words(p), header |-> piece.header]
  BY DEF AddRow
<1>3. Append(piece.body, p) \in Seq(Positions)
  OBVIOUS
<1>4. Append(piece.body, p) \in Seq(Nat)
  BY <1>3, PositionsAreNumbers
<1>. QED  BY <1>1, <1>2, <1>3, <1>4 DEF PieceType

LEMMA EmptyPieceType ==
    /\ EmptyPiece \in PieceType
    /\ EmptyPiece.body = <<>>
    /\ EmptyPiece.body \in Seq(Positions)
    /\ EmptyPiece.tokens = 0
    /\ EmptyPiece.words = 0
BY DEF EmptyPiece, PieceType

(* The chunks of a list fit the budget. *)
Budgeted(cs) ==
    \A i \in DOMAIN cs : IF IsText(cs[i]) THEN TextFits(cs[i]) ELSE TableFits(cs[i])

LEMMA Concat ==
    ASSUME NEW s \in Seq(ChunkRecord), NEW t \in Seq(ChunkRecord), Budgeted(s), Budgeted(t)
    PROVE  s \o t \in Seq(ChunkRecord) /\ Budgeted(s \o t)
<1>1. s \o t \in Seq(ChunkRecord)
  OBVIOUS
<1>2. ASSUME NEW i \in DOMAIN (s \o t)
      PROVE  (i \in DOMAIN s /\ (s \o t)[i] = s[i])
             \/ \E j \in DOMAIN t : (s \o t)[i] = t[j]
  <2>1. CASE i <= Len(s)
    BY <2>1
  <2>2. CASE i > Len(s)
    <3>1. i - Len(s) \in DOMAIN t /\ (s \o t)[i] = t[i - Len(s)]
      BY <2>2
    <3>. QED  BY <3>1
  <2>. QED  BY <2>1, <2>2
<1>. QED  BY <1>1, <1>2 DEF Budgeted

(* The title of a section: a heading with a marker has a word besides it. *)
LEMMA TitleWordsType ==
    ASSUME lines \in Seq(LineRecord), nodes \in Seq(NodeRecord), NEW n \in DOMAIN nodes
    PROVE  TitleWords(n) \in Nat
<1>. DEFINE head == nodes[n].head
<1>1. nodes[n] \in NodeRecord
  OBVIOUS
<1>2. CASE head = 0
  BY <1>2 DEF TitleWords
<1>3. CASE head # 0
  <2>1. head \in Positions
    BY <1>1, <1>3 DEF NodeRecord
  <2>2. lines[head].line \in Lines
    <3>1. lines[head] \in LineRecord
      BY <2>1 DEF Positions
    <3>. QED  BY <3>1 DEF LineRecord
  <2>3. Words(head) \in Nat
    BY <2>1, WordsType
  <2>4. lines[head].line.shape \in Marked => Words(head) >= 2
    BY <2>2, IngestionAssumption DEF Words
  <2>5. TitleWords(n) = IF lines[head].line.shape \in Marked THEN Words(head) - 1 ELSE Words(head)
    BY <1>3 DEF TitleWords
  <2>. QED  BY <2>3, <2>4, <2>5
<1>. QED  BY <1>2, <1>3

(* What a chunk takes from its section and its piece. *)
LEMMA ChunkType ==
    ASSUME lines \in Seq(LineRecord), nodes \in Seq(NodeRecord), node \in 1..Len(nodes),
           NEW type \in {"text", "heading_intro", "table"}, NEW piece \in PieceType
    PROVE  /\ Chunk(type, piece) \in ChunkRecord
           /\ Chunk(type, piece).type = type
           /\ Chunk(type, piece).node = node
           /\ Chunk(type, piece).body = piece.body
           /\ Chunk(type, piece).header = piece.header
           /\ Chunk(type, piece).path = nodes[node].path
           /\ Chunk(type, piece).title = TitleWords(node)
           /\ Chunk(type, piece).words \in piece.words..piece.words + TitleWords(node)
<1>1. nodes[node] \in NodeRecord
  OBVIOUS
<1>2. nodes[node].path \in Seq(Nat) /\ nodes[node].page \in Nat /\ node \in Nat
  BY <1>1, PositionsAreNumbers DEF NodeRecord
<1>3. TitleWords(node) \in Nat /\ piece.words \in Nat
  BY TitleWordsType DEF PieceType
<1>4. PrefixedWords(node, piece.body, piece.words) \in piece.words..piece.words + TitleWords(node)
  BY <1>3 DEF PrefixedWords
<1>5. PrefixedWords(node, piece.body, piece.words) \in Nat
  BY <1>3, <1>4
<1>6. Chunk(type, piece) =
         [type |-> type, node |-> node, page |-> nodes[node].page, path |-> nodes[node].path,
          title |-> TitleWords(node), body |-> piece.body,
          words |-> PrefixedWords(node, piece.body, piece.words), header |-> piece.header]
  BY DEF Chunk
<1>7. piece.body \in Seq(Nat) /\ piece.header \in Nat
  BY DEF PieceType
<1>8. Chunk(type, piece) \in ChunkRecord
  BY <1>2, <1>3, <1>5, <1>6, <1>7 DEF ChunkRecord
<1>. QED  BY <1>4, <1>6, <1>8

(* The title in front adds at most its own tokens and one for the rounding. *)
LEMMA TitleInFront ==
    ASSUME NEW w \in Nat, NEW t \in Nat, NEW v \in w..w + t
    PROVE  ApproxTokens(v) <= ApproxTokens(w) + (IF t = 0 THEN 0 ELSE ApproxTokens(t) + 1)
<1>1. CASE t = 0
  <2>1. v = w
    BY <1>1
  <2>. QED  BY <1>1, <2>1, Rounding
<1>2. CASE t # 0
  <2>. DEFINE a == ApproxTokens(v)
              b == ApproxTokens(w)
              c == ApproxTokens(t)
  <2>1. /\ a \in Nat /\ 10 * a <= 13 * v
        /\ b \in Nat /\ 13 * w <= 10 * b + 9
        /\ c \in Nat /\ 13 * t <= 10 * c + 9
    BY Rounding
  <2>2. v <= w + t /\ v \in Nat
    OBVIOUS
  <2>. HIDE DEF a, b, c
  <2>3. a <= b + (c + 1)
    BY <2>1, <2>2
  <2>. QED  BY <1>2, <2>3 DEF a, b, c
<1>. QED  BY <1>1, <1>2

(* A chunk fits if its piece does. *)
LEMMA PrefixedFits ==
    ASSUME lines \in Seq(LineRecord), nodes \in Seq(NodeRecord), node \in 1..Len(nodes),
           NEW type \in {"text", "heading_intro", "table"}, NEW piece \in PieceType
    PROVE  /\ PackFits(piece) => TextFits(Chunk(type, piece))
           /\ RowsFit(piece) => TableFits(Chunk(type, piece))
<1>. DEFINE c == Chunk(type, piece)
            extra == TitleTokens(c)
            a == ApproxTokens(c.words)
            b == ApproxTokens(piece.words)
            n == Len(piece.body)
<1>1. /\ c.body = piece.body /\ c.header = piece.header /\ c.title = TitleWords(node)
      /\ c.words \in piece.words..piece.words + TitleWords(node)
  BY ChunkType
<1>2. TitleWords(node) \in Nat /\ piece.words \in Nat /\ n \in Nat
  BY TitleWordsType DEF PieceType
<1>3. extra = IF TitleWords(node) = 0 THEN 0 ELSE ApproxTokens(TitleWords(node)) + 1
  BY <1>1 DEF TitleTokens
<1>4. a <= b + extra
  <2>. DEFINE w == piece.words
              t == TitleWords(node)
              v == c.words
  <2>1. w \in Nat /\ t \in Nat /\ v \in w..w + t
    BY <1>1, <1>2
  <2>2. a = ApproxTokens(v) /\ b = ApproxTokens(w)
    OBVIOUS
  <2>3. extra = IF t = 0 THEN 0 ELSE ApproxTokens(t) + 1
    BY <1>3
  <2>. HIDE DEF w, t, v, extra, a, b
  <2>. QED  BY <2>1, <2>2, <2>3, TitleInFront
<1>5. extra \in Nat
  <2>1. ApproxTokens(TitleWords(node)) \in Nat
    BY <1>2, Rounding
  <2>. HIDE DEF extra
  <2>2. ApproxTokens(TitleWords(node)) + 1 \in Nat
    BY <2>1
  <2>. QED  BY <1>3, <2>2
<1>6. c.words \in Nat
  BY <1>1, <1>2
<1>7. a \in Nat /\ b \in Nat
  BY <1>2, <1>6, Rounding
<1>8. ChunkSize \in Nat /\ MaxTableTokens \in Nat
  BY Constants
<1>. HIDE DEF c, extra, a, b, n
<1>9. ASSUME PackFits(piece) PROVE TextFits(c)
  <2>1. n = 1 \/ b < ChunkSize + n \/ (n = 2 /\ b < 2 * ChunkSize)
    BY <1>9 DEF PackFits, n, b
  <2>2. n = 1 \/ a < ChunkSize + n + extra \/ (n = 2 /\ a < 2 * ChunkSize + extra)
    BY <1>2, <1>4, <1>5, <1>7, <1>8, <2>1
  <2>. QED  BY <1>1, <2>2 DEF TextFits, n, a, extra
<1>10. ASSUME RowsFit(piece) PROVE TableFits(c)
  <2>1. b <= MaxTableTokens \/ Len(piece.body) <= piece.header + 1
    BY <1>10 DEF RowsFit, b
  <2>2. a <= MaxTableTokens + extra \/ Len(piece.body) <= piece.header + 1
    BY <1>4, <1>5, <1>7, <1>8, <2>1
  <2>. QED  BY <1>1, <2>2 DEF TableFits, a, extra
<1>. QED  BY <1>9, <1>10 DEF c

(* What one piece of body text adds to the chunks. *)
LEMMA TextChunksFit ==
    ASSUME lines \in Seq(LineRecord), nodes \in Seq(NodeRecord), node \in 1..Len(nodes), NEW i,
           NEW piece \in PieceType, PackFits(piece)
    PROVE  TextChunks(i, piece) \in Seq(ChunkRecord) /\ Budgeted(TextChunks(i, piece))
<1>1. ASSUME NEW type \in {"text", "heading_intro"}
      PROVE  /\ Chunk(type, piece) \in ChunkRecord
             /\ IsText(Chunk(type, piece))
             /\ TextFits(Chunk(type, piece))
  BY ChunkType, PrefixedFits DEF IsText
<1>. QED  BY <1>1 DEF TextChunks, Budgeted

(* What one table piece adds to the chunks. *)
LEMMA TableChunksFit ==
    ASSUME lines \in Seq(LineRecord), nodes \in Seq(NodeRecord), node \in 1..Len(nodes),
           NEW piece \in PieceType, RowsFit(piece)
    PROVE  TableChunks(piece) \in Seq(ChunkRecord) /\ Budgeted(TableChunks(piece))
<1>1. /\ Chunk("table", piece) \in ChunkRecord
      /\ ~IsText(Chunk("table", piece))
      /\ TableFits(Chunk("table", piece))
  BY ChunkType, PrefixedFits DEF IsText
<1>. QED  BY <1>1 DEF TableChunks, Budgeted

-----------------------------------------------------------------------------
(* The initial states and the steps                                        *)

LEMMA Start == Init => IInv
<1>. SUFFICES ASSUME Init PROVE IInv
  OBVIOUS
<1>1. file \in Files /\ file.kind \in {"pdf", "text"}
  BY FilesAssumption DEF Init
<1>2. /\ pc \in {"fitz", "plumber", "tables", "read"}
      /\ at = 0 /\ node = 0 /\ packed = 0 /\ trouble = FALSE
      /\ pages = <<>> /\ lines = <<>> /\ nodes = <<>> /\ stack = <<>> /\ rows = <<>>
      /\ chunks = <<>> /\ cur = EmptyPiece
      /\ pc = "read" => file.kind = "text"
      /\ pc # "tables"
  BY <1>1 DEF Init
<1>3. CodeTypes
  <2>1. cur \in PieceType /\ cur.body \in Seq(Positions)
    BY <1>2, EmptyPieceType
  <2>2. /\ pages \in Seq(PageRecord) /\ lines \in Seq(LineRecord)
        /\ nodes \in Seq(NodeRecord) /\ stack \in Seq(1..Len(nodes))
        /\ rows \in Seq(Positions) /\ chunks \in Seq(ChunkRecord)
    BY <1>2, EmptySequence
  <2>. QED  BY <1>2, <2>1, <2>2 DEF CodeTypes
<1>4. Places
  BY <1>2 DEF Places, Extracting, Walking
<1>5. ChunksFitBudget
  BY <1>2 DEF ChunksFitBudget
<1>. QED  BY <1>1, <1>3, <1>4, <1>5 DEF IInv

LEMMA PageType ==
    ASSUME NEW n \in Nat, NEW ls \in Seq(Lines), NEW b \in BOOLEAN
    PROVE  Page(n, ls, b) \in PageRecord
BY DEF Page, PageRecord

LEMMA StepExtract == IInv /\ Extract => IInv'
<1>. SUFFICES ASSUME IInv, Extract PROVE IInv'
  OBVIOUS
<1>0. pc \in {"fitz", "plumber", "tables", "read"}
  BY DEF Extract, ReadPage, FitzEnds, FitzFails, PlumberEnds, InjectTable, TablesEnd, ReadText
<1>1. /\ lines = <<>> /\ nodes = <<>> /\ stack = <<>> /\ rows = <<>> /\ chunks = <<>>
      /\ cur = EmptyPiece
      /\ pc = "tables" => pages # <<>>
      /\ pc = "read" => file.kind = "text"
  BY <1>0 DEF IInv, Places, Extracting
<1>2. /\ node \in Nat /\ packed \in Nat /\ at \in Nat /\ trouble \in BOOLEAN
      /\ pages \in Seq(PageRecord)
  BY DEF IInv, CodeTypes
<1>3. /\ file \in Files
      /\ file.pages \in Seq(Seq(Lines))
      /\ file.kind = "text" => file.pages # <<>>
      /\ file.tables \in Seq([page: Nat, rows: Seq(Lines)])
  BY FilesAssumption DEF IInv
<1>4. UNCHANGED <<file, lines, nodes, stack, node, cur, rows, packed, chunks>>
  BY DEF Extract, ReadPage, FitzEnds, FitzFails, PlumberEnds, InjectTable, TablesEnd, ReadText,
         reading, walk
<1>5. /\ pages' \in Seq(PageRecord)
      /\ at' \in Nat
      /\ trouble' \in BOOLEAN
      /\ pc' \in {"fitz", "plumber", "tables", "merge", "done"}
      /\ pc' \in {"tables", "merge"} => pages' # <<>>
      /\ pc' = "merge" => at' = 0
  <2>1. CASE ReadPage
    <3>1. /\ pc' = pc /\ at < Len(file.pages) /\ at' = at + 1 /\ trouble' = trouble
          /\ pages' = pages \/ pages' = Append(pages, Page(at + 1, file.pages[at + 1], FALSE))
          /\ pc \in {"fitz", "plumber"}
      BY <2>1 DEF ReadPage
    <3>2. file.pages[at + 1] \in Seq(Lines) /\ at + 1 \in Nat
      BY <1>2, <1>3, <3>1, NextElement
    <3>3. Page(at + 1, file.pages[at + 1], FALSE) \in PageRecord
      BY <3>2, PageType
    <3>4. pages' \in Seq(PageRecord)
      BY <1>2, <3>1, <3>3, Appended
    <3>. QED  BY <1>2, <3>1, <3>2, <3>4
  <2>2. CASE InjectTable
    <3>. DEFINE t == file.tables[at + 1]
    <3>1. /\ pc' = pc /\ at < Len(file.tables) /\ at' = at + 1 /\ trouble' = trouble
          /\ pages' = pages \/ pages' = Append(pages, Page(t.page, t.rows, TRUE))
          /\ pc = "tables"
      BY <2>2 DEF InjectTable
    <3>2. t \in [page: Nat, rows: Seq(Lines)] /\ at + 1 \in Nat
      BY <1>2, <1>3, <3>1, NextElement
    <3>3. Page(t.page, t.rows, TRUE) \in PageRecord
      BY <3>2, PageType
    <3>4. pages' \in Seq(PageRecord) /\ pages' # <<>>
      BY <1>1, <1>2, <3>1, <3>3, Appended
    <3>. QED  BY <1>2, <3>1, <3>2, <3>4
  <2>3. CASE ReadText
    <3>1. file.pages[1] \in Seq(Lines)
      BY <1>1, <1>3, <2>3 DEF ReadText
    <3>2. Page(0, file.pages[1], FALSE) \in PageRecord
      BY <3>1, PageType
    <3>3. \/ pages' = <<Page(0, file.pages[1], FALSE)>> /\ pc' = "merge"
          \/ pages' = <<>> /\ pc' = "done"
      BY <2>3 DEF ReadText
    <3>4. at' = at /\ trouble' = trouble
      BY <2>3 DEF ReadText
    <3>5. at = 0
      BY <1>0, <2>3 DEF IInv, Places, ReadText
    <3>. DEFINE one == <<Page(0, file.pages[1], FALSE)>>
    <3>6. one \in Seq(PageRecord) /\ one # <<>> /\ <<>> \in Seq(PageRecord)
      BY <3>2, Singleton, EmptySequence
    <3>8. pages' = one \/ (pages' = <<>> /\ pc' = "done")
      BY <3>3
    <3>. HIDE DEF one
    <3>7. pages' \in Seq(PageRecord) /\ (pc' = "merge" => pages' # <<>>)
      BY <3>6, <3>8
    <3>9. pc' \in {"merge", "done"}
      BY <3>3
    <3>. QED  BY <1>2, <3>4, <3>5, <3>7, <3>9
  <2>4. CASE FitzEnds
    BY <1>2, <2>4 DEF FitzEnds, reading
  <2>5. CASE FitzFails
    BY <1>2, <2>5 DEF FitzFails
  <2>6. CASE PlumberEnds
    BY <1>2, <2>6 DEF PlumberEnds, reading
  <2>7. CASE TablesEnd
    BY <1>1, <1>2, <2>7 DEF TablesEnd, reading
  <2>. QED  BY <2>1, <2>2, <2>3, <2>4, <2>5, <2>6, <2>7 DEF Extract
<1>6. /\ lines' = <<>> /\ nodes' = <<>> /\ stack' = <<>> /\ rows' = <<>> /\ chunks' = <<>>
      /\ cur' = EmptyPiece /\ node' \in Nat /\ packed' \in Nat /\ file' \in Files
  BY <1>1, <1>2, <1>3, <1>4
<1>7. CodeTypes'
  <2>1. /\ cur' \in PieceType /\ cur'.body = <<>>
    BY <1>6, EmptyPieceType
  <2>. QED  BY <1>5, <1>6, <2>1 DEF CodeTypes
<1>8. Places'
  BY <1>5, <1>6 DEF Places, Extracting, Walking, EmptyPiece
<1>9. ChunksFitBudget'
  BY <1>6 DEF ChunksFitBudget
<1>. QED  BY <1>6, <1>7, <1>8, <1>9 DEF IInv

(* A heading has one of four levels. *)
LEMMA HeadingLevel ==
    ASSUME NEW l \in LineType
    PROVE  DetectHeading(l) \in 0..4
<1>1. l.shape \in Shapes
  BY DEF LineType
<1>2. PatternLevel(l.shape) \in 0..4
  BY <1>1 DEF PatternLevel, Shapes
<1>. QED  BY <1>2 DEF DetectHeading

(* While the lines stay, what a step leaves alone keeps its type. *)
LEMMA LinesStay ==
    ASSUME lines' = lines
    PROVE  /\ Positions' = Positions
           /\ NodeRecord' = NodeRecord
BY DEF Positions, NodeRecord

LEMMA StepMerge == IInv /\ (MergePage \/ MergeEnds) => IInv'
<1>. SUFFICES ASSUME IInv, MergePage \/ MergeEnds PROVE IInv'
  OBVIOUS
<1>0. pc = "merge"
  BY DEF MergePage, MergeEnds
<1>1. /\ nodes = <<>> /\ stack = <<>> /\ rows = <<>> /\ chunks = <<>>
      /\ cur = EmptyPiece
      /\ pages # <<>>
      /\ at > 0 => lines # <<>>
  BY <1>0 DEF IInv, Places
<1>2. /\ node \in Nat /\ packed \in Nat /\ at \in Nat /\ trouble \in BOOLEAN
      /\ pages \in Seq(PageRecord) /\ lines \in Seq(LineRecord) /\ file \in Files
  BY DEF IInv, CodeTypes
<1>3. UNCHANGED <<file, pages, trouble, node, cur, rows, packed, chunks>>
  BY DEF MergePage, MergeEnds, reading, walk
<1>4. CASE MergePage
  <2>. DEFINE pg == pages[at + 1]
              annotated == [i \in 1..Len(pg.lines) + 1 |->
                               [line |-> IF i <= Len(pg.lines) THEN pg.lines[i] ELSE Blank,
                                page |-> pg.number,
                                from |-> IF pg.injected THEN 0 ELSE i]]
  <2>1. /\ at < Len(pages) /\ at' = at + 1 /\ pc' = "merge" /\ nodes' = nodes /\ stack' = stack
        /\ lines' = lines \o annotated
    BY <1>0, <1>4 DEF MergePage
  <2>2. pg \in PageRecord /\ at + 1 \in Nat
    BY <1>2, <2>1, NextElement
  <2>3. pg.lines \in Seq(Lines) /\ pg.number \in Nat
    BY <2>2 DEF PageRecord
  <2>. HIDE DEF pg
  <2>4. ASSUME NEW i \in 1..Len(pg.lines) + 1
        PROVE  [line |-> IF i <= Len(pg.lines) THEN pg.lines[i] ELSE Blank,
                page |-> pg.number,
                from |-> IF pg.injected THEN 0 ELSE i] \in LineRecord
    BY <2>3, IngestionAssumption DEF LineRecord
  <2>5. annotated \in Seq(LineRecord) /\ Len(annotated) = Len(pg.lines) + 1
    BY <2>3, <2>4
  <2>. HIDE DEF annotated
  <2>6. lines' \in Seq(LineRecord) /\ Len(lines') = Len(lines) + Len(annotated)
    BY <1>2, <2>1, <2>5, Joined
  <2>7. lines' # <<>>
    BY <1>2, <2>3, <2>5, <2>6
  <2>8. /\ nodes' = <<>> /\ stack' = <<>> /\ rows' = <<>> /\ chunks' = <<>> /\ cur' = EmptyPiece
        /\ pages' # <<>> /\ pages' \in Seq(PageRecord)
    BY <1>1, <1>2, <1>3, <2>1
  <2>9. CodeTypes'
    <3>1. cur' \in PieceType /\ cur'.body \in Seq(Positions')
      BY <2>8, EmptyPieceType, EmptySequence
    <3>2. /\ nodes' \in Seq(NodeRecord') /\ stack' \in Seq(1..Len(nodes'))
          /\ rows' \in Seq(Positions') /\ chunks' \in Seq(ChunkRecord)
      BY <2>8, EmptySequence
    <3>3. at' \in Nat /\ node' \in Nat /\ packed' \in Nat /\ trouble' \in BOOLEAN
      BY <1>2, <1>3, <2>1, <2>2
    <3>. QED  BY <2>1, <2>6, <2>8, <3>1, <3>2, <3>3 DEF CodeTypes
  <2>10. Places'
    BY <2>1, <2>7, <2>8 DEF Places, Extracting, Walking
  <2>11. ChunksFitBudget'
    BY <2>8 DEF ChunksFitBudget
  <2>. QED  BY <1>2, <1>3, <2>9, <2>10, <2>11 DEF IInv
<1>5. CASE MergeEnds
  <2>. DEFINE root == [level |-> 0, head |-> 0, page |-> lines[1].page,
                       path |-> <<>>, lines |-> <<>>]
  <2>1. /\ at = Len(pages) /\ at' = 0 /\ pc' = "parse" /\ lines' = lines
        /\ nodes' = <<root>> /\ stack' = <<1>>
    BY <1>5 DEF MergeEnds, reading
  <2>2. Len(pages) \in Nat /\ Len(pages) # 0
    BY <1>1, <1>2
  <2>3. lines # <<>>
    BY <1>1, <1>2, <2>1, <2>2
  <2>4. lines[1] \in LineRecord
    BY <1>2, <2>3
  <2>5. root \in NodeRecord
    BY <2>4, EmptySequence DEF NodeRecord, LineRecord
  <2>. HIDE DEF root
  <2>6. nodes' \in Seq(NodeRecord) /\ nodes' # <<>> /\ Len(nodes') = 1
    BY <2>1, <2>5, Singleton
  <2>7. stack' \in Seq(1..Len(nodes')) /\ stack' # <<>>
    BY <2>1, <2>6, Singleton
  <2>8. rows' = <<>> /\ chunks' = <<>> /\ cur' = EmptyPiece /\ pages' \in Seq(PageRecord)
    BY <1>1, <1>2, <1>3
  <2>9. CodeTypes'
    <3>1. cur' \in PieceType /\ cur'.body \in Seq(Positions')
      BY <2>8, EmptyPieceType, EmptySequence
    <3>2. rows' \in Seq(Positions') /\ chunks' \in Seq(ChunkRecord)
      BY <2>8, EmptySequence
    <3>3. nodes' \in Seq(NodeRecord')
      BY <2>1, <2>6, LinesStay
    <3>4. /\ at' \in Nat /\ node' \in Nat /\ packed' \in Nat /\ trouble' \in BOOLEAN
          /\ lines' \in Seq(LineRecord)
      BY <1>2, <1>3, <2>1
    <3>. QED  BY <2>1, <2>7, <2>8, <3>1, <3>2, <3>3, <3>4 DEF CodeTypes
  <2>10. Places'
    BY <2>1, <2>6, <2>7, <2>8 DEF Places, Extracting, Walking
  <2>11. ChunksFitBudget'
    BY <2>8 DEF ChunksFitBudget
  <2>. QED  BY <1>2, <1>3, <2>9, <2>10, <2>11 DEF IInv
<1>. QED  BY <1>4, <1>5

(* The index of the innermost open section. *)
LEMMA TopType ==
    ASSUME nodes \in Seq(NodeRecord), stack \in Seq(1..Len(nodes)), stack # <<>>
    PROVE  Top \in 1..Len(nodes) /\ nodes[Top] \in NodeRecord
<1>1. Len(stack) \in 1..Len(stack)
  OBVIOUS
<1>2. Top \in 1..Len(nodes)
  BY <1>1 DEF Top
<1>. QED  BY <1>2

LEMMA StepParse == IInv /\ (PopSection \/ ParseHeading \/ ParseBody \/ ParseEnds) => IInv'
<1>. SUFFICES ASSUME IInv, PopSection \/ ParseHeading \/ ParseBody \/ ParseEnds PROVE IInv'
  OBVIOUS
<1>0. pc = "parse"
  BY DEF PopSection, ParseHeading, ParseBody, ParseEnds
<1>1. stack # <<>> /\ cur = EmptyPiece /\ nodes # <<>>
  BY <1>0 DEF IInv, Places
<1>2. /\ node \in Nat /\ packed \in Nat /\ at \in Nat /\ trouble \in BOOLEAN
      /\ pages \in Seq(PageRecord) /\ lines \in Seq(LineRecord) /\ file \in Files
      /\ nodes \in Seq(NodeRecord) /\ stack \in Seq(1..Len(nodes))
      /\ rows \in Seq(Positions) /\ chunks \in Seq(ChunkRecord)
  BY DEF IInv, CodeTypes
<1>3. UNCHANGED <<file, pages, trouble, lines, cur, rows, packed, chunks>>
  BY DEF PopSection, ParseHeading, ParseBody, ParseEnds, reading, walk
<1>4. Top \in 1..Len(nodes) /\ nodes[Top] \in NodeRecord
  BY <1>1, <1>2, TopType
<1>5. /\ nodes' \in Seq(NodeRecord) /\ nodes' # <<>>
      /\ stack' \in Seq(1..Len(nodes')) /\ stack' # <<>>
      /\ at' \in Nat
      /\ \/ pc' = "parse" /\ node' = node
         \/ pc' = "blocks" /\ node' = 1 /\ at' = 1
  <2>1. CASE PopSection
    <3>1. /\ Len(stack) > 1 /\ stack' = SubSeq(stack, 1, Len(stack) - 1)
          /\ nodes' = nodes /\ at' = at /\ pc' = pc /\ node' = node
      BY <2>1 DEF PopSection, Closes, walk
    <3>2. /\ SubSeq(stack, 1, Len(stack) - 1) \in Seq(1..Len(nodes))
          /\ SubSeq(stack, 1, Len(stack) - 1) # <<>>
      BY <1>2, <3>1, Shortened
    <3>. QED  BY <1>0, <1>1, <1>2, <3>1, <3>2
  <2>2. CASE ParseHeading
    <3>. DEFINE sec == [level |-> Heading, head |-> at + 1, page |-> lines[at + 1].page,
                        path |-> Append(nodes[Top].path, at + 1), lines |-> <<>>]
    <3>1. /\ at < Len(lines) /\ at' = at + 1 /\ pc' = pc /\ node' = node
          /\ nodes' = Append(nodes, sec) /\ stack' = Append(stack, Len(nodes) + 1)
      BY <2>2 DEF ParseHeading, walk
    <3>2. /\ lines[at + 1] \in LineRecord /\ at + 1 \in Nat /\ at + 1 \in Positions
      BY <1>2, <3>1, NextElement DEF Positions
    <3>3. Heading \in 0..4
      <4>1. lines[at + 1].line \in LineType
        BY <3>2, IngestionAssumption DEF LineRecord
      <4>. QED  BY <4>1, HeadingLevel DEF Heading
    <3>4. Append(nodes[Top].path, at + 1) \in Seq(Positions)
      <4>1. nodes[Top].path \in Seq(Positions)
        BY <1>4 DEF NodeRecord
      <4>. QED  BY <3>2, <4>1, Appended
    <3>5. sec \in NodeRecord
      BY <3>2, <3>3, <3>4, EmptySequence DEF NodeRecord, LineRecord
    <3>. HIDE DEF sec
    <3>6. nodes' \in Seq(NodeRecord) /\ nodes' # <<>> /\ Len(nodes') = Len(nodes) + 1
      BY <1>2, <3>1, <3>5, Appended
    <3>7. stack' \in Seq(1..Len(nodes')) /\ stack' # <<>>
      <4>1. 1..Len(nodes) \subseteq 1..Len(nodes') /\ Len(nodes) + 1 \in 1..Len(nodes')
        BY <1>2, <3>6
      <4>2. stack \in Seq(1..Len(nodes'))
        BY <1>2, <4>1
      <4>. QED  BY <3>1, <4>1, <4>2, Appended
    <3>. QED  BY <1>0, <3>1, <3>2, <3>6, <3>7
  <2>3. CASE ParseBody
    <3>1. /\ at < Len(lines) /\ at' = at + 1 /\ pc' = pc /\ node' = node /\ stack' = stack
          /\ nodes' = [nodes EXCEPT ![Top].lines = Append(@, at + 1)]
      BY <2>3 DEF ParseBody, walk
    <3>2. at + 1 \in Nat /\ at + 1 \in Positions
      BY <1>2, <3>1, NextElement DEF Positions
    <3>3. Append(nodes[Top].lines, at + 1) \in Seq(Positions)
      <4>1. nodes[Top].lines \in Seq(Positions)
        BY <1>4 DEF NodeRecord
      <4>. QED  BY <3>2, <4>1, Appended
    <3>. DEFINE sec == [nodes[Top] EXCEPT !.lines = Append(@, at + 1)]
    <3>4. sec \in NodeRecord
      BY <1>4, <3>3 DEF NodeRecord
    <3>5. nodes' = [nodes EXCEPT ![Top] = sec]
      BY <3>1
    <3>. HIDE DEF sec
    <3>6. nodes' \in Seq(NodeRecord) /\ Len(nodes') = Len(nodes)
      BY <1>2, <1>4, <3>4, <3>5
    <3>7. nodes' # <<>>
      BY <1>1, <1>2, <3>6
    <3>. QED  BY <1>0, <1>1, <1>2, <3>1, <3>2, <3>6, <3>7
  <2>4. CASE ParseEnds
    <3>1. nodes' = nodes /\ stack' = stack /\ pc' = "blocks" /\ at' = 1 /\ node' = 1
      BY <2>4 DEF ParseEnds
    <3>. QED  BY <1>1, <1>2, <3>1
  <2>. QED  BY <2>1, <2>2, <2>3, <2>4
<1>6. Positions' = Positions /\ NodeRecord' = NodeRecord
  BY <1>3, LinesStay
<1>7. CodeTypes'
  <2>1. cur' \in PieceType /\ cur'.body \in Seq(Positions')
    BY <1>1, <1>3, EmptyPieceType, EmptySequence
  <2>. QED  BY <1>2, <1>3, <1>5, <1>6, <2>1 DEF CodeTypes
<1>8. Places'
  <2>1. 1 \in 1..Len(nodes')
    BY <1>5
  <2>. QED  BY <1>1, <1>3, <1>5, <2>1 DEF Places, Extracting, Walking
<1>9. ChunksFitBudget'
  BY <1>3 DEF IInv, ChunksFitBudget
<1>. QED  BY <1>2, <1>3, <1>7, <1>8, <1>9 DEF IInv

-----------------------------------------------------------------------------
(* The walk                                                                *)

(* The body of the section the walk is at, and its next line. *)
LEMMA BodyType ==
    ASSUME nodes \in Seq(NodeRecord), node \in 1..Len(nodes)
    PROVE  Body \in Seq(Positions)
<1>1. nodes[node] \in NodeRecord
  OBVIOUS
<1>. QED  BY <1>1 DEF Body, NodeRecord

LEMMA BodyLine ==
    ASSUME nodes \in Seq(NodeRecord), node \in 1..Len(nodes),
           at \in Nat, at > 0, at <= Len(Body)
    PROVE  Body[at] \in Positions
<1>1. Body \in Seq(Positions)
  BY BodyType
<1>. QED  BY <1>1

(* The header piece of a block. *)
LEMMA HeaderPieceType ==
    ASSUME lines \in Seq(LineRecord), NEW block \in Seq(Positions), Len(block) > 1
    PROVE  /\ HeaderPiece(block) \in PieceType
           /\ HeaderPiece(block).body \in Seq(Positions)
           /\ Len(HeaderPiece(block).body) = HeaderPiece(block).header
           /\ HeaderRows(block) \in {1, 2}
<1>. DEFINE first == [body |-> <<block[1]>>, tokens |-> 0, words |-> Words(block[1]),
                      header |-> HeaderRows(block)]
<1>1. block[1] \in Positions /\ block[2] \in Positions
  OBVIOUS
<1>2. HeaderRows(block) \in {1, 2}
  BY DEF HeaderRows
<1>3. /\ first \in PieceType
      /\ first.body \in Seq(Positions)
      /\ Len(first.body) = 1
      /\ first.header = HeaderRows(block)
  <2>1. Words(block[1]) \in Nat
    BY <1>1, WordsType
  <2>2. <<block[1]>> \in Seq(Positions) /\ <<block[1]>> \in Seq(Nat)
    BY <1>1, Singleton, PositionsAreNumbers
  <2>. QED  BY <1>2, <2>1, <2>2 DEF PieceType
<1>4. HeaderPiece(block) = IF HeaderRows(block) = 1 THEN first ELSE AddRow(first, block[2])
  BY DEF HeaderPiece
<1>. HIDE DEF first
<1>5. CASE HeaderRows(block) = 1
  BY <1>3, <1>4, <1>5
<1>6. CASE HeaderRows(block) = 2
  <2>1. /\ AddRow(first, block[2]) \in PieceType
        /\ AddRow(first, block[2]).body \in Seq(Positions)
        /\ AddRow(first, block[2]).body = Append(first.body, block[2])
        /\ AddRow(first, block[2]).header = first.header
    BY <1>1, <1>3, AddRowType
  <2>2. Len(Append(first.body, block[2])) = 2
    <3>. DEFINE b == first.body
                e == block[2]
    <3>1. b \in Seq(Positions) /\ e \in Positions /\ Len(b) = 1
      BY <1>1, <1>3
    <3>. HIDE DEF b, e
    <3>2. Len(Append(b, e)) = Len(b) + 1
      BY <3>1, Appended
    <3>. QED  BY <3>1, <3>2 DEF b, e
  <2>. QED  BY <1>3, <1>4, <1>6, <2>1, <2>2
<1>. QED  BY <1>2, <1>5, <1>6

(* What every step of the walk needs to know, and what it must show.  The  *)
(* extraction and the sections are left alone.                             *)
Settled ==
    /\ packed \in Nat /\ at \in Nat /\ trouble \in BOOLEAN
    /\ pages \in Seq(PageRecord) /\ lines \in Seq(LineRecord) /\ file \in Files
    /\ nodes \in Seq(NodeRecord) /\ stack \in Seq(1..Len(nodes))
    /\ rows \in Seq(Positions)
    /\ chunks \in Seq(ChunkRecord) /\ Budgeted(chunks)
    /\ cur \in PieceType /\ cur.body \in Seq(Positions)
    /\ node \in 1..Len(nodes) /\ at > 0

LEMMA IsSettled ==
    ASSUME IInv, Walking
    PROVE  Settled
<1>1. node \in 1..Len(nodes) /\ at > 0
  BY DEF IInv, Places
<1>. QED  BY <1>1 DEF IInv, CodeTypes, Settled, ChunksFitBudget, Budgeted

LEMMA WalkKeepsInvariant ==
    ASSUME Settled, UNCHANGED <<reading, lines, nodes, stack>>,
           packed' \in Nat, at' \in Nat, at' > 0,
           rows' \in Seq(Positions), node' \in 1..Len(nodes),
           cur' \in PieceType, cur'.body \in Seq(Positions),
           chunks' \in Seq(ChunkRecord), Budgeted(chunks'),
           \/ pc' = "blocks" /\ (cur'.body = <<>> => cur' = EmptyPiece)
           \/ pc' = "split" /\ Len(rows') > 1 /\ RowsFit(cur')
           \/ pc' = "pack" /\ PieceFits'
           \/ pc' = "done"
    PROVE  IInv'
<1>1. /\ file' = file /\ pages' = pages /\ trouble' = trouble /\ lines' = lines
      /\ nodes' = nodes /\ stack' = stack
  BY DEF reading
<1>2. Positions' = Positions /\ NodeRecord' = NodeRecord
  BY <1>1, LinesStay
<1>3. node' \in Nat
  BY DEF Settled
<1>4. CodeTypes'
  BY <1>1, <1>2, <1>3 DEF Settled, CodeTypes
<1>5. Places'
  BY <1>1 DEF Places, Extracting, Walking
<1>6. ChunksFitBudget'
  BY DEF ChunksFitBudget, Budgeted
<1>. QED  BY <1>1, <1>4, <1>5, <1>6 DEF Settled, IInv

LEMMA StepTables == IInv /\ Tables => IInv'
<1>. SUFFICES ASSUME IInv, Tables PROVE IInv'
  OBVIOUS
<1>0. pc \in {"blocks", "split"}
  BY DEF Tables, ScanRow, ScanOther, SingleRow, TakeTable, StartSplit, SplitRow, SplitEnds,
         BlocksEnd, RunEnds
<1>1. Settled
  BY <1>0, IsSettled DEF Walking
<1>2. /\ pc = "blocks" => (cur.body = <<>> => cur = EmptyPiece)
      /\ pc = "split" => Len(rows) > 1 /\ RowsFit(cur)
  BY DEF IInv, Places
<1>3. /\ packed \in Nat /\ at \in Nat /\ at > 0 /\ at + 1 \in Nat /\ at + 1 > 0
      /\ lines \in Seq(LineRecord) /\ nodes \in Seq(NodeRecord) /\ node \in 1..Len(nodes)
      /\ rows \in Seq(Positions) /\ chunks \in Seq(ChunkRecord) /\ Budgeted(chunks)
      /\ cur \in PieceType /\ cur.body \in Seq(Positions)
  BY <1>1 DEF Settled
<1>4. /\ EmptyPiece \in PieceType /\ EmptyPiece.body \in Seq(Positions)
      /\ EmptyPiece.body = <<>> /\ <<>> \in Seq(Positions)
  BY EmptyPieceType, EmptySequence
<1>5. CASE ScanRow
  <2>1. /\ UNCHANGED <<reading, lines, nodes, stack>> /\ UNCHANGED <<node, rows, packed, chunks>>
        /\ pc' = "blocks" /\ at' = at + 1 /\ at <= Len(Body) /\ cur' = AddRow(cur, Body[at])
    BY <1>5 DEF ScanRow, AtTableLine
  <2>2. Body[at] \in Positions
    BY <1>3, <2>1, BodyLine
  <2>3. cur' \in PieceType /\ cur'.body \in Seq(Positions) /\ cur'.body = Append(cur.body, Body[at])
    BY <1>3, <2>1, <2>2, AddRowType
  <2>4. cur'.body # <<>>
    BY <1>3, <2>2, <2>3, Appended
  <2>. QED  BY <1>1, <1>3, <2>1, <2>3, <2>4, WalkKeepsInvariant
<1>6. CASE ScanOther
  <2>1. /\ UNCHANGED <<reading, lines, nodes, stack>>
        /\ UNCHANGED <<node, rows, packed, chunks, cur>>
        /\ pc' = "blocks" /\ at' = at + 1 /\ cur = EmptyPiece
    BY <1>2, <1>6 DEF ScanOther, walk
  <2>. QED  BY <1>1, <1>3, <2>1, WalkKeepsInvariant
<1>7. CASE SingleRow
  <2>1. /\ UNCHANGED <<reading, lines, nodes, stack>>
        /\ UNCHANGED <<node, rows, packed, chunks, at>>
        /\ pc' = "blocks" /\ cur' = EmptyPiece
    BY <1>7 DEF SingleRow, RunEnds
  <2>. QED  BY <1>1, <1>3, <1>4, <2>1, WalkKeepsInvariant
<1>8. CASE TakeTable
  <2>1. /\ UNCHANGED <<reading, lines, nodes, stack>> /\ UNCHANGED <<node, rows, packed, at>>
        /\ pc' = "blocks" /\ cur' = EmptyPiece /\ chunks' = chunks \o TableChunks(cur)
        /\ ~TooLarge
    BY <1>8 DEF TakeTable, RunEnds
  <2>2. RowsFit(cur)
    <3>1. cur.words \in Nat
      BY <1>3 DEF PieceType
    <3>2. ApproxTokens(cur.words) \in Nat /\ MaxTableTokens \in Nat
      BY <3>1, Rounding, Constants
    <3>. QED  BY <2>1, <3>2 DEF TooLarge, RowsFit
  <2>3. TableChunks(cur) \in Seq(ChunkRecord) /\ Budgeted(TableChunks(cur))
    BY <1>3, <2>2, TableChunksFit
  <2>4. chunks' \in Seq(ChunkRecord) /\ Budgeted(chunks')
    BY <1>3, <2>1, <2>3, Concat
  <2>. QED  BY <1>1, <1>3, <1>4, <2>1, <2>4, WalkKeepsInvariant
<1>9. CASE StartSplit
  <2>1. /\ UNCHANGED <<reading, lines, nodes, stack>> /\ UNCHANGED <<node, chunks, at>>
        /\ pc' = "split" /\ rows' = cur.body /\ Len(cur.body) > 1
        /\ cur' = HeaderPiece(cur.body) /\ packed' = HeaderRows(cur.body)
    BY <1>9 DEF StartSplit
  <2>2. /\ cur' \in PieceType /\ cur'.body \in Seq(Positions)
        /\ Len(cur'.body) = cur'.header /\ packed' \in Nat
    <3>. DEFINE block == cur.body
    <3>1. block \in Seq(Positions) /\ Len(block) > 1
      BY <1>3, <2>1
    <3>2. cur' = HeaderPiece(block) /\ packed' = HeaderRows(block)
      BY <2>1
    <3>. HIDE DEF block
    <3>3. /\ HeaderPiece(block) \in PieceType /\ HeaderPiece(block).body \in Seq(Positions)
          /\ Len(HeaderPiece(block).body) = HeaderPiece(block).header
          /\ HeaderRows(block) \in {1, 2}
      BY <1>3, <3>1, HeaderPieceType
    <3>4. packed' \in Nat
      BY <3>2, <3>3
    <3>. QED  BY <3>2, <3>3, <3>4
  <2>3. RowsFit(cur')
    BY <2>2 DEF RowsFit, PieceType
  <2>. QED  BY <1>1, <1>3, <2>1, <2>2, <2>3, WalkKeepsInvariant
<1>10. CASE SplitRow
  <2>. DEFINE row == rows[packed + 1]
  <2>1. /\ UNCHANGED <<reading, lines, nodes, stack>> /\ UNCHANGED <<node, rows, at>>
        /\ pc = "split" /\ pc' = "split" /\ packed < Len(rows) /\ packed' = packed + 1
        /\ \/ /\ Full(row)
              /\ chunks' = chunks \o TableChunks(cur)
              /\ cur' = AddRow(HeaderPiece(rows), row)
           \/ /\ ~Full(row)
              /\ cur' = AddRow(cur, row)
              /\ chunks' = chunks
    BY <1>10 DEF SplitRow
  <2>2. row \in Positions /\ packed + 1 \in Nat
    BY <1>3, <2>1, NextElement
  <2>. HIDE DEF row
  <2>3. Len(rows) > 1 /\ RowsFit(cur)
    BY <1>2, <2>1
  <2>4. chunks' \in Seq(ChunkRecord) /\ Budgeted(chunks')
    <3>1. TableChunks(cur) \in Seq(ChunkRecord) /\ Budgeted(TableChunks(cur))
      BY <1>3, <2>3, TableChunksFit
    <3>. QED  BY <1>3, <2>1, <3>1, Concat
  <2>5. cur' \in PieceType /\ cur'.body \in Seq(Positions) /\ RowsFit(cur')
    <3>1. CASE Full(row)
      <4>. DEFINE h == HeaderPiece(rows)
      <4>1. h \in PieceType /\ h.body \in Seq(Positions) /\ Len(h.body) = h.header
        BY <1>3, <2>3, HeaderPieceType
      <4>2. cur' = AddRow(h, row)
        BY <2>1, <3>1
      <4>. HIDE DEF h
      <4>3. /\ cur' \in PieceType /\ cur'.body \in Seq(Positions)
            /\ cur'.body = Append(h.body, row) /\ cur'.header = h.header
        BY <1>3, <2>2, <4>1, <4>2, AddRowType
      <4>4. Len(Append(h.body, row)) = Len(h.body) + 1
        BY <2>2, <4>1, Appended
      <4>5. Len(cur'.body) = cur'.header + 1 /\ cur'.header \in Nat
        BY <4>1, <4>3, <4>4 DEF PieceType
      <4>. QED  BY <4>3, <4>5 DEF RowsFit
    <3>2. CASE ~Full(row)
      <4>1. /\ cur' \in PieceType /\ cur'.body \in Seq(Positions)
            /\ cur'.body = Append(cur.body, row) /\ cur'.header = cur.header
            /\ cur'.words = cur.words + Words(row)
        BY <1>3, <2>1, <2>2, <3>2, AddRowType
      <4>2. Len(Append(cur.body, row)) = Len(cur.body) + 1
        BY <1>3, <2>2, Appended
      <4>3. /\ cur.words + Words(row) \in Nat /\ cur.header \in Nat /\ Len(cur.body) \in Nat
        BY <1>3, <2>2, WordsType DEF PieceType
      <4>4. \/ ApproxTokens(cur.words + Words(row)) <= MaxTableTokens
            \/ Len(cur.body) <= cur.header
        <5>. DEFINE w == cur.words + Words(row)
        <5>1. ~(ApproxTokens(w) > MaxTableTokens) \/ ~(Len(cur.body) > cur.header)
          BY <3>2 DEF Full
        <5>2. w \in Nat
          BY <4>3
        <5>. HIDE DEF w
        <5>3. ApproxTokens(w) \in Nat /\ MaxTableTokens \in Nat
          BY <5>2, Rounding, Constants
        <5>4. ApproxTokens(w) <= MaxTableTokens \/ Len(cur.body) <= cur.header
          BY <4>3, <5>1, <5>3
        <5>. QED  BY <5>4 DEF w
      <4>. QED  BY <4>1, <4>2, <4>3, <4>4 DEF RowsFit
    <3>. QED  BY <3>1, <3>2
  <2>. QED  BY <1>1, <1>3, <2>1, <2>2, <2>3, <2>4, <2>5, WalkKeepsInvariant
<1>11. CASE SplitEnds
  <2>1. /\ UNCHANGED <<reading, lines, nodes, stack>> /\ UNCHANGED <<node, at>>
        /\ pc = "split" /\ pc' = "blocks" /\ cur' = EmptyPiece /\ rows' = <<>> /\ packed' = 0
        /\ chunks' = chunks \o TableChunks(cur)
    BY <1>11 DEF SplitEnds
  <2>2. TableChunks(cur) \in Seq(ChunkRecord) /\ Budgeted(TableChunks(cur))
    BY <1>2, <1>3, <2>1, TableChunksFit
  <2>3. chunks' \in Seq(ChunkRecord) /\ Budgeted(chunks')
    BY <1>3, <2>1, <2>2, Concat
  <2>. QED  BY <1>1, <1>3, <1>4, <2>1, <2>3, WalkKeepsInvariant
<1>12. CASE BlocksEnd
  <2>1. /\ UNCHANGED <<reading, lines, nodes, stack>>
        /\ UNCHANGED <<node, cur, rows, packed, chunks>>
        /\ pc' = "pack" /\ at' = 1 /\ cur = EmptyPiece
    BY <1>2, <1>12 DEF BlocksEnd, walk
  <2>2. PieceFits'
    <3>1. cur' = EmptyPiece /\ cur'.body = <<>> /\ cur'.tokens = 0 /\ cur'.words = 0
      BY <2>1, EmptyPieceType
    <3>2. Len(cur'.body) = 0 /\ DOMAIN cur'.body = {}
      BY <3>1
    <3>. QED  BY <3>1, <3>2, Constants DEF PieceFits
  <2>. QED  BY <1>1, <1>3, <2>1, <2>2, WalkKeepsInvariant
<1>. QED  BY <1>5, <1>6, <1>7, <1>8, <1>9, <1>10, <1>11, <1>12 DEF Tables

(* A piece of sentences that stays within its running count is a chunk     *)
(* that fits the budget.                                                   *)
LEMMA FilledPieceFits ==
    ASSUME cur \in PieceType, cur.body # <<>>, PieceFits
    PROVE  PackFits(cur)
<1>. DEFINE n == Len(cur.body)
            w == cur.words
            t == cur.tokens
            a == ApproxTokens(w)
<1>1. /\ n \in Nat /\ w \in Nat /\ t \in Nat
      /\ 13 * w <= 10 * t + 9 * n
      /\ t <= ChunkSize \/ (n = 2 /\ t <= 2 * ChunkSize - 2)
  BY DEF PieceType, PieceFits
<1>2. n # 0
  BY DEF PieceType
<1>3. a \in Nat /\ 10 * a <= 13 * w
  BY <1>1, Rounding
<1>4. ChunkSize \in Nat
  BY Constants
<1>. HIDE DEF n, w, t, a
<1>5. a < ChunkSize + n \/ (n = 2 /\ a < 2 * ChunkSize)
  BY <1>1, <1>2, <1>3, <1>4
<1>. QED  BY <1>5 DEF PackFits, n, w, a

(* A piece of one sentence within the budget. *)
LEMMA OneSentencePiece ==
    ASSUME lines \in Seq(LineRecord), NEW p \in Positions
    PROVE  /\ Piece(p) \in PieceType
           /\ Piece(p).body \in Seq(Positions)
           /\ Piece(p).body = <<p>>
           /\ Piece(p).tokens = ApproxTokens(Words(p))
           /\ Piece(p).words = Words(p)
<1>1. /\ Piece(p) \in PieceType
      /\ Piece(p).body \in Seq(Positions)
      /\ Piece(p).body = Append(<<>>, p)
      /\ Piece(p).tokens = 0 + ApproxTokens(Words(p))
      /\ Piece(p).words = 0 + Words(p)
  BY EmptyPieceType, AddType DEF Piece
<1>2. Words(p) \in Nat /\ ApproxTokens(Words(p)) \in Nat
  BY WordsType, Rounding
<1>3. Append(<<>>, p) = <<p>>
  OBVIOUS
<1>. QED  BY <1>1, <1>2, <1>3

LEMMA StepPack == IInv /\ Pack => IInv'
<1>. SUFFICES ASSUME IInv, Pack PROVE IInv'
  OBVIOUS
<1>0. pc = "pack"
  BY DEF Pack, SkipNoSentence, PackOversized, PackOverflow, PackSentence, PackEnds, NextSentence
<1>1. Settled
  BY <1>0, IsSettled DEF Walking
<1>2. PieceFits
  BY <1>0 DEF IInv, Places
<1>3. /\ packed \in Nat /\ packed + 1 \in Nat /\ packed + 2 \in Nat
      /\ at \in Nat /\ at > 0 /\ at + 1 \in Nat /\ at + 1 > 0
      /\ lines \in Seq(LineRecord) /\ nodes \in Seq(NodeRecord) /\ node \in 1..Len(nodes)
      /\ rows \in Seq(Positions) /\ chunks \in Seq(ChunkRecord) /\ Budgeted(chunks)
      /\ cur \in PieceType /\ cur.body \in Seq(Positions)
  BY <1>1 DEF Settled
<1>4. /\ EmptyPiece \in PieceType /\ EmptyPiece.body \in Seq(Positions)
      /\ EmptyPiece.body = <<>> /\ EmptyPiece.tokens = 0 /\ EmptyPiece.words = 0
  BY EmptyPieceType
<1>5. cur.body # <<>> => PackFits(cur)
  BY <1>2, <1>3, FilledPieceFits
<1>6. ASSUME cur.body # <<>>, NEW i
      PROVE  chunks \o TextChunks(i, cur) \in Seq(ChunkRecord)
             /\ Budgeted(chunks \o TextChunks(i, cur))
  BY <1>3, <1>5, <1>6, TextChunksFit, Concat
<1>7. ASSUME cur' = EmptyPiece
      PROVE  PieceFits'
  <2>1. cur' = EmptyPiece /\ cur'.body = <<>> /\ cur'.tokens = 0 /\ cur'.words = 0
    BY <1>4, <1>7
  <2>2. Len(cur'.body) = 0 /\ DOMAIN cur'.body = {}
    BY <2>1
  <2>. QED  BY <2>1, <2>2, Constants DEF PieceFits
<1>8. CASE SkipNoSentence
  <2>1. /\ UNCHANGED <<reading, lines, nodes, stack>>
        /\ UNCHANGED <<node, cur, rows, packed, chunks>>
        /\ pc' = "pack" /\ at' = at + 1
    BY <1>0, <1>8 DEF SkipNoSentence, walk
  <2>2. PieceFits'
    BY <1>2, <2>1 DEF PieceFits, Oversized, Words
  <2>. QED  BY <1>1, <1>3, <2>1, <2>2, WalkKeepsInvariant
<1>9. CASE PackOversized
  <2>1. PICK p \in 1..Len(lines) :
          /\ UNCHANGED <<reading, lines, nodes, stack>> /\ UNCHANGED <<node, rows>>
          /\ pc' = "pack" /\ at' = at + 1 /\ cur' = EmptyPiece
          /\ packed' = (IF cur.body = <<>> THEN packed ELSE packed + 1) + 1
          /\ chunks' = chunks \o (IF cur.body = <<>> THEN <<>> ELSE TextChunks(packed, cur))
                         \o TextChunks(IF cur.body = <<>> THEN packed ELSE packed + 1, Piece(p))
    BY <1>0, <1>9 DEF PackOversized, NextSentence
  <2>2. p \in Positions
    BY DEF Positions
  <2>3. Piece(p) \in PieceType /\ PackFits(Piece(p))
    <3>1. Piece(p) \in PieceType /\ Piece(p).body = <<p>>
      BY <1>3, <2>2, OneSentencePiece
    <3>2. Len(Piece(p).body) = 1
      BY <3>1
    <3>. QED  BY <3>1, <3>2 DEF PackFits
  <2>4. chunks' \in Seq(ChunkRecord) /\ Budgeted(chunks')
    <3>1. ASSUME NEW i
          PROVE  TextChunks(i, Piece(p)) \in Seq(ChunkRecord) /\ Budgeted(TextChunks(i, Piece(p)))
      BY <1>3, <2>3, TextChunksFit
    <3>2. CASE cur.body = <<>>
      <4>1. chunks' = (chunks \o <<>>) \o TextChunks(packed, Piece(p))
        BY <2>1, <3>2
      <4>2. chunks \o <<>> = chunks
        BY <1>3
      <4>. QED  BY <1>3, <3>1, <4>1, <4>2, Concat
    <3>3. CASE cur.body # <<>>
      <4>. DEFINE s == chunks \o TextChunks(packed, cur)
      <4>1. s \in Seq(ChunkRecord) /\ Budgeted(s)
        BY <1>6, <3>3
      <4>2. chunks' = s \o TextChunks(packed + 1, Piece(p))
        BY <2>1, <3>3
      <4>. HIDE DEF s
      <4>. QED  BY <3>1, <4>1, <4>2, Concat
    <3>. QED  BY <3>2, <3>3
  <2>5. packed' \in Nat
    BY <1>3, <2>1
  <2>. QED  BY <1>1, <1>3, <1>4, <1>7, <2>1, <2>4, <2>5, WalkKeepsInvariant
<1>10. CASE PackOverflow
  <2>. DEFINE last == cur.body[Len(cur.body)]
  <2>1. PICK p \in 1..Len(lines) :
          /\ UNCHANGED <<reading, lines, nodes, stack>> /\ UNCHANGED <<node, rows>>
          /\ pc' = "pack" /\ at' = at + 1 /\ packed' = packed + 1
          /\ ~Oversized(p) /\ cur.body # <<>>
          /\ chunks' = chunks \o TextChunks(packed, cur)
          /\ cur' = Add(Piece(last), p)
    BY <1>0, <1>10 DEF PackOverflow, NextSentence, Overflows
  <2>2. p \in Positions
    BY DEF Positions
  <2>3. last \in Positions /\ ~Oversized(last)
    <3>1. Len(cur.body) \in DOMAIN cur.body
      BY <1>3, <2>1
    <3>. QED  BY <1>2, <1>3, <3>1 DEF PieceFits
  <2>. HIDE DEF last
  <2>4. /\ Piece(last) \in PieceType /\ Piece(last).body \in Seq(Positions)
        /\ Piece(last).body = <<last>> /\ Piece(last).tokens = ApproxTokens(Words(last))
        /\ Piece(last).words = Words(last)
    BY <1>3, <2>3, OneSentencePiece
  <2>5. /\ cur' \in PieceType /\ cur'.body \in Seq(Positions)
        /\ cur'.body = Append(Piece(last).body, p)
        /\ cur'.tokens = Piece(last).tokens + ApproxTokens(Words(p))
        /\ cur'.words = Piece(last).words + Words(p)
    BY <1>3, <2>1, <2>2, <2>4, AddType
  <2>6. chunks' \in Seq(ChunkRecord) /\ Budgeted(chunks')
    BY <1>6, <2>1
  <2>7. PieceFits'
    <3>. DEFINE s == <<last>>
    <3>0. s \in Seq(Positions) /\ Len(s) = 1 /\ \A k \in DOMAIN s : s[k] = last
      BY <2>3
    <3>1. cur'.body = Append(s, p)
      BY <2>4, <2>5
    <3>. HIDE DEF s
    <3>9. Len(Append(s, p)) = Len(s) + 1 /\ Append(s, p) # <<>>
      BY <2>2, <3>0, Appended
    <3>2. Len(cur'.body) = 2 /\ cur'.body # <<>>
      BY <3>0, <3>1, <3>9
    <3>. DEFINE w1 == Words(last)
                w2 == Words(p)
                t1 == ApproxTokens(w1)
                t2 == ApproxTokens(w2)
    <3>3. w1 \in Nat /\ w2 \in Nat
      BY <1>3, <2>2, <2>3, WordsType
    <3>4. /\ t1 \in Nat /\ 13 * w1 <= 10 * t1 + 9 /\ 10 * t1 <= 13 * w1
          /\ t2 \in Nat /\ 13 * w2 <= 10 * t2 + 9 /\ 10 * t2 <= 13 * w2
      BY <3>3, Rounding
    <3>5. ~(t1 >= ChunkSize) /\ ~(t2 >= ChunkSize)
      BY <2>1, <2>3 DEF Oversized
    <3>6. cur'.tokens = t1 + t2 /\ cur'.words = w1 + w2
      BY <2>4, <2>5
    <3>. HIDE DEF w1, w2, t1, t2
    <3>7. /\ 13 * cur'.words <= 10 * cur'.tokens + 9 * Len(cur'.body)
          /\ 10 * cur'.tokens <= 13 * cur'.words
          /\ cur'.tokens <= 2 * ChunkSize - 2
      BY <3>2, <3>3, <3>4, <3>5, <3>6, Constants
    <3>8. (\A k \in DOMAIN cur.body : ~Oversized(cur.body[k]))'
      <4>1. \A k \in DOMAIN cur'.body : cur'.body[k] \in {last, p}
        BY <2>2, <3>0, <3>1, AppendedElements
      <4>2. ~Oversized(last) /\ ~Oversized(p) /\ lines' = lines
        BY <2>1, <2>3
      <4>. QED  BY <4>1, <4>2 DEF Oversized, Words
    <3>. QED  BY <3>2, <3>7, <3>8 DEF PieceFits
  <2>. QED  BY <1>1, <1>3, <2>1, <2>5, <2>6, <2>7, WalkKeepsInvariant
<1>11. CASE PackSentence
  <2>1. PICK p \in 1..Len(lines) :
          /\ UNCHANGED <<reading, lines, nodes, stack>> /\ UNCHANGED <<node, rows, packed, chunks>>
          /\ pc' = "pack" /\ at' = at + 1
          /\ ~Oversized(p) /\ ~Overflows(p)
          /\ cur' = Add(cur, p)
    BY <1>0, <1>11 DEF PackSentence, NextSentence
  <2>2. p \in Positions
    BY DEF Positions
  <2>3. /\ cur' \in PieceType /\ cur'.body \in Seq(Positions)
        /\ cur'.body = Append(cur.body, p)
        /\ cur'.tokens = cur.tokens + ApproxTokens(Words(p))
        /\ cur'.words = cur.words + Words(p)
    BY <1>3, <2>1, <2>2, AddType
  <2>4. PieceFits'
    <3>. DEFINE n == Len(cur.body)
                w == Words(p)
                t == ApproxTokens(w)
    <3>1. w \in Nat /\ n \in Nat /\ cur.tokens \in Nat /\ cur.words \in Nat
      BY <1>3, <2>2, WordsType DEF PieceType
    <3>2. t \in Nat /\ 13 * w <= 10 * t + 9 /\ 10 * t <= 13 * w
      BY <3>1, Rounding
    <3>3. cur'.body # <<>> /\ Len(cur'.body) = n + 1
      BY <1>3, <2>2, <2>3, Appended
    <3>4. /\ 13 * cur.words <= 10 * cur.tokens + 9 * n
          /\ 10 * cur.tokens <= 13 * cur.words
          /\ ~(t >= ChunkSize)
          /\ ~(cur.tokens + t > ChunkSize) \/ cur.body = <<>>
          /\ cur.body = <<>> => cur.tokens = 0
      BY <1>2, <1>4, <2>1 DEF PieceFits, Oversized, Overflows
    <3>5. cur'.tokens = cur.tokens + t /\ cur'.words = cur.words + w
      BY <2>3
    <3>. HIDE DEF n, w, t
    <3>6. /\ 13 * cur'.words <= 10 * cur'.tokens + 9 * Len(cur'.body)
          /\ 10 * cur'.tokens <= 13 * cur'.words
      <4>. DEFINE u == cur.words
                  v == cur.tokens
      <4>1. u \in Nat /\ v \in Nat /\ 13 * u <= 10 * v + 9 * n /\ 10 * v <= 13 * u
        BY <3>1, <3>4
      <4>2. cur'.tokens = v + t /\ cur'.words = u + w
        BY <3>5
      <4>. HIDE DEF u, v
      <4>3. 13 * (u + w) <= 10 * (v + t) + 9 * (n + 1) /\ 10 * (v + t) <= 13 * (u + w)
        BY <3>1, <3>2, <4>1
      <4>. QED  BY <3>3, <4>2, <4>3
    <3>8. cur'.tokens <= ChunkSize
      BY <3>1, <3>2, <3>4, <3>5, Constants
    <3>7. (\A k \in DOMAIN cur.body : ~Oversized(cur.body[k]))'
      <4>1. \A k \in DOMAIN cur'.body :
               \/ k \in DOMAIN cur.body /\ cur'.body[k] = cur.body[k]
               \/ cur'.body[k] = p
        BY <1>3, <2>2, <2>3, AppendedElements
      <4>2. ~Oversized(p) /\ lines' = lines /\ \A k \in DOMAIN cur.body : ~Oversized(cur.body[k])
        BY <1>2, <2>1 DEF PieceFits
      <4>. QED  BY <4>1, <4>2 DEF Oversized, Words
    <3>. QED  BY <3>3, <3>6, <3>7, <3>8 DEF PieceFits
  <2>. QED  BY <1>1, <1>3, <2>1, <2>3, <2>4, WalkKeepsInvariant
<1>12. CASE PackEnds
  <2>1. /\ UNCHANGED <<reading, lines, nodes, stack>> /\ UNCHANGED rows
        /\ cur' = EmptyPiece /\ packed' = 0 /\ at' = 1
        /\ chunks' = IF cur.body = <<>> THEN chunks ELSE chunks \o TextChunks(packed, cur)
        /\ \/ node < Len(nodes) /\ node' = node + 1 /\ pc' = "blocks"
           \/ node' = node /\ pc' = "done"
    BY <1>12 DEF PackEnds
  <2>2. chunks' \in Seq(ChunkRecord) /\ Budgeted(chunks')
    BY <1>3, <1>6, <2>1
  <2>3. node' \in 1..Len(nodes)
    <3>1. Len(nodes) \in Nat
      BY <1>3
    <3>. QED  BY <1>3, <2>1, <3>1
  <2>4. /\ packed' \in Nat /\ at' \in Nat /\ at' > 0 /\ rows' \in Seq(Positions)
        /\ cur' \in PieceType /\ cur'.body \in Seq(Positions) /\ cur' = EmptyPiece
        /\ pc' \in {"blocks", "done"}
    <3>1. /\ packed' = 0 /\ at' = 1 /\ rows' = rows /\ cur' = EmptyPiece
          /\ pc' \in {"blocks", "done"}
      BY <2>1
    <3>2. packed' \in Nat /\ at' \in Nat /\ at' > 0
      BY <3>1
    <3>3. rows' \in Seq(Positions)
      BY <1>3, <3>1
    <3>4. cur' \in PieceType /\ cur'.body \in Seq(Positions)
      BY <1>4, <3>1
    <3>. QED  BY <3>1, <3>2, <3>3, <3>4
  <2>5. UNCHANGED <<reading, lines, nodes, stack>>
    BY <2>1
  <2>. QED  BY <1>1, <2>2, <2>3, <2>4, <2>5, WalkKeepsInvariant
<1>. QED  BY <1>8, <1>9, <1>10, <1>11, <1>12 DEF Pack

-----------------------------------------------------------------------------
(* Every behaviour keeps it                                                *)

LEMMA Stuttering ==
    ASSUME IInv, UNCHANGED vars
    PROVE  IInv'
<1>1. /\ file' = file /\ pc' = pc /\ at' = at /\ pages' = pages /\ trouble' = trouble
      /\ lines' = lines /\ nodes' = nodes /\ stack' = stack /\ node' = node /\ cur' = cur
      /\ rows' = rows /\ packed' = packed /\ chunks' = chunks
  BY DEF vars
<1>2. Positions' = Positions /\ NodeRecord' = NodeRecord
  BY <1>1, LinesStay
<1>3. CodeTypes'
  BY <1>1, <1>2 DEF IInv, CodeTypes
<1>4. PieceFits => PieceFits'
  BY <1>1 DEF PieceFits, Oversized, Words
<1>5. Places'
  BY <1>1, <1>4 DEF IInv, Places, Extracting, Walking
<1>6. ChunksFitBudget'
  BY <1>1 DEF IInv, ChunksFitBudget
<1>. QED  BY <1>1, <1>3, <1>5, <1>6 DEF IInv

LEMMA Invariance == Spec => []IInv
<1>1. IInv /\ [Next]_vars => IInv'
  <2>. SUFFICES ASSUME IInv, [Next]_vars PROVE IInv'
    OBVIOUS
  <2>1. CASE Next
    <3>1. CASE Extract
      BY <3>1, StepExtract
    <3>2. CASE Parse
      BY <3>2, StepMerge, StepParse DEF Parse
    <3>3. CASE Tables
      BY <3>3, StepTables
    <3>4. CASE Pack
      BY <3>4, StepPack
    <3>5. CASE Done
      BY <3>5, Stuttering DEF Done
    <3>. QED  BY <2>1, <3>1, <3>2, <3>3, <3>4, <3>5 DEF Next
  <2>2. CASE UNCHANGED vars
    BY <2>2, Stuttering
  <2>. QED  BY <2>1, <2>2
<1>. QED  BY <1>1, Start, PTL DEF Spec

-----------------------------------------------------------------------------
(* The order of the sections' lines                                        *)

Rising(s) == \A i, j \in DOMAIN s : i < j => s[i] < s[j]

(* The parser hands the lines out in order: those of a section rise, and   *)
(* while it runs none is behind the line it has reached.                   *)
LinesRise == \A n \in DOMAIN nodes : Rising(nodes[n].lines)

NoneAhead ==
    pc = "parse" => \A n \in DOMAIN nodes : \A i \in DOMAIN nodes[n].lines :
                        nodes[n].lines[i] <= at

InOrder == LinesRise /\ NoneAhead

(* The empty sequence rises, and so does a rising one with a larger        *)
(* element behind it.                                                      *)
LEMMA EmptyRises == Rising(<<>>)
BY DEF Rising

LEMMA AppendRises ==
    ASSUME NEW s \in Seq(Nat), NEW p \in Nat, Rising(s), \A i \in DOMAIN s : s[i] < p
    PROVE  Rising(Append(s, p))
<1>1. /\ \A k \in DOMAIN Append(s, p) : k \in 1..Len(s) + 1
      /\ \A k \in 1..Len(s) : Append(s, p)[k] = s[k]
      /\ Append(s, p)[Len(s) + 1] = p
      /\ Len(s) \in Nat /\ DOMAIN s = 1..Len(s)
  OBVIOUS
<1>2. ASSUME NEW i \in DOMAIN Append(s, p), NEW j \in DOMAIN Append(s, p), i < j
      PROVE  Append(s, p)[i] < Append(s, p)[j]
  <2>1. i \in 1..Len(s)
    BY <1>1, <1>2
  <2>2. CASE j \in 1..Len(s)
    BY <1>1, <1>2, <2>1, <2>2 DEF Rising
  <2>3. CASE j = Len(s) + 1
    BY <1>1, <2>1, <2>3
  <2>. QED  BY <1>1, <2>2, <2>3
<1>. QED  BY <1>2 DEF Rising

(* A position of a section's lines is a number. *)
LEMMA LineNumbers ==
    ASSUME IInv, NEW n \in DOMAIN nodes
    PROVE  /\ nodes[n].lines \in Seq(Positions)
           /\ nodes[n].lines \in Seq(Nat)
           /\ nodes[n] \in NodeRecord
<1>1. nodes \in Seq(NodeRecord)
  BY DEF IInv, CodeTypes
<1>2. nodes[n] \in NodeRecord
  BY <1>1
<1>. QED  BY <1>2, PositionsAreNumbers DEF NodeRecord

(* The steps that leave the sections as they are. *)
LEMMA OrderStays ==
    ASSUME InOrder, nodes' = nodes, pc' = "parse" => pc = "parse" /\ at' = at
    PROVE  InOrder'
BY DEF InOrder, LinesRise, NoneAhead, Rising

LEMMA StepOrder == IInv /\ InOrder /\ [Next]_vars => InOrder'
<1>. SUFFICES ASSUME IInv, InOrder, [Next]_vars PROVE InOrder'
  OBVIOUS
<1>1. CASE Extract
  <2>1. nodes' = nodes /\ pc' # "parse"
    BY <1>1 DEF Extract, ReadPage, FitzEnds, FitzFails, PlumberEnds, InjectTable, TablesEnd,
                ReadText, IInv, CodeTypes
  <2>. QED  BY <2>1, OrderStays
<1>2. CASE MergePage
  BY <1>2, OrderStays DEF MergePage
<1>3. CASE MergeEnds
  <2>1. /\ nodes' = <<[level |-> 0, head |-> 0, page |-> lines[1].page, path |-> <<>>,
                       lines |-> <<>>]>>
    BY <1>3 DEF MergeEnds
  <2>2. \A n \in DOMAIN nodes' : nodes'[n].lines = <<>>
    BY <2>1
  <2>. QED  BY <2>2 DEF InOrder, LinesRise, NoneAhead, Rising
<1>4. CASE PopSection
  BY <1>4, OrderStays DEF PopSection
<1>5. CASE ParseHeading
  <2>. DEFINE sec == [level |-> Heading, head |-> at + 1, page |-> lines[at + 1].page,
                      path |-> Append(nodes[Top].path, at + 1), lines |-> <<>>]
  <2>1. at' = at + 1 /\ nodes' = Append(nodes, sec) /\ pc = "parse"
    BY <1>5 DEF ParseHeading
  <2>2. sec.lines = <<>>
    OBVIOUS
  <2>. HIDE DEF sec
  <2>3. nodes \in Seq(NodeRecord) /\ at \in Nat
    BY DEF IInv, CodeTypes
  <2>4. \A n \in DOMAIN nodes' : \/ n \in DOMAIN nodes /\ nodes'[n] = nodes[n]
                                 \/ nodes'[n] = sec
    BY <2>1, <2>3
  <2>5. LinesRise'
    BY <2>2, <2>4, EmptyRises DEF InOrder, LinesRise
  <2>6. ASSUME NEW n \in DOMAIN nodes', NEW i \in DOMAIN nodes'[n].lines
        PROVE  nodes'[n].lines[i] <= at'
    <3>1. n \in DOMAIN nodes /\ nodes'[n] = nodes[n]
      BY <2>2, <2>4, <2>6
    <3>2. nodes[n].lines[i] <= at /\ nodes[n].lines[i] \in Nat
      BY <2>1, <2>6, <3>1, LineNumbers DEF InOrder, NoneAhead
    <3>. QED  BY <2>1, <2>3, <3>1, <3>2
  <2>. QED  BY <2>5, <2>6 DEF InOrder, NoneAhead
<1>6. CASE ParseBody
  <2>1. at' = at + 1 /\ pc = "parse" /\ nodes' = [nodes EXCEPT ![Top].lines = Append(@, at + 1)]
    BY <1>6 DEF ParseBody
  <2>2. nodes \in Seq(NodeRecord) /\ at \in Nat
    BY DEF IInv, CodeTypes
  <2>3. ASSUME NEW n \in DOMAIN nodes'
        PROVE  /\ n \in DOMAIN nodes
               /\ nodes'[n].lines = nodes[n].lines \/ nodes'[n].lines = Append(nodes[n].lines, at + 1)
    <3>1. n \in DOMAIN nodes
      BY <2>1
    <3>2. nodes[n] \in NodeRecord
      BY <3>1, LineNumbers
    <3>. QED  BY <2>1, <3>1, <3>2 DEF NodeRecord
  <2>4. ASSUME NEW n \in DOMAIN nodes'
        PROVE  /\ Rising(nodes'[n].lines)
               /\ \A i \in DOMAIN nodes'[n].lines : nodes'[n].lines[i] <= at'
    <3>. DEFINE s == nodes[n].lines
    <3>1. /\ n \in DOMAIN nodes
          /\ nodes'[n].lines = s \/ nodes'[n].lines = Append(s, at + 1)
      BY <2>3
    <3>2. s \in Seq(Nat)
      BY <3>1, LineNumbers
    <3>3. Rising(s) /\ \A i \in DOMAIN s : s[i] <= at
      BY <2>1, <3>1 DEF InOrder, LinesRise, NoneAhead
    <3>. HIDE DEF s
    <3>4. at + 1 \in Nat /\ \A i \in DOMAIN s : s[i] < at + 1 /\ s[i] <= at + 1
      BY <2>2, <3>2, <3>3
    <3>5. CASE nodes'[n].lines = s
      BY <2>1, <3>3, <3>4, <3>5
    <3>6. CASE nodes'[n].lines = Append(s, at + 1)
      <4>1. Rising(Append(s, at + 1))
        BY <3>2, <3>3, <3>4, AppendRises
      <4>2. \A i \in DOMAIN Append(s, at + 1) : Append(s, at + 1)[i] <= at + 1
        BY <3>2, <3>4, AppendedElements
      <4>. QED  BY <2>1, <3>6, <4>1, <4>2
    <3>. QED  BY <3>1, <3>5, <3>6
  <2>. QED  BY <2>4 DEF InOrder, LinesRise, NoneAhead
<1>7. CASE ParseEnds
  BY <1>7, OrderStays DEF ParseEnds
<1>8. CASE Tables
  <2>1. nodes' = nodes /\ pc' # "parse"
    BY <1>8 DEF Tables, ScanRow, ScanOther, SingleRow, TakeTable, StartSplit, SplitRow,
                SplitEnds, BlocksEnd, RunEnds
  <2>. QED  BY <2>1, OrderStays
<1>9. CASE Pack
  <2>1. nodes' = nodes /\ pc' # "parse"
    BY <1>9 DEF Pack, SkipNoSentence, PackOversized, PackOverflow, PackSentence, PackEnds,
                NextSentence
  <2>. QED  BY <2>1, OrderStays
<1>10. CASE UNCHANGED vars
  BY <1>10, OrderStays DEF vars
<1>. QED  BY <1>1, <1>2, <1>3, <1>4, <1>5, <1>6, <1>7, <1>8, <1>9, <1>10 DEF Next, Parse, Done

LEMMA Order == Spec => [](IInv /\ InOrder)
<1>1. Init => InOrder
  BY DEF Init, InOrder, LinesRise, NoneAhead
<1>. QED  BY <1>1, Invariance, StepOrder, PTL DEF Spec

-----------------------------------------------------------------------------
(* The order of the sentences                                              *)

(* The sentences of a text chunk rise, and it skips none.                  *)
Unbroken(n, body) ==
    /\ Rising(body)
    /\ \A k \in 1..Len(body) - 1 : \A m \in DOMAIN nodes[n].lines :
          ~ /\ IsSentence(nodes[n].lines, m)
            /\ body[k] < nodes[n].lines[m]
            /\ nodes[n].lines[m] < body[k + 1]

(* A chunk starts behind an earlier one, or with its last sentence.        *)
Follows(c, d) ==
    \A k \in DOMAIN c : c[k] < d[1] \/ (c[k] = d[1] /\ k = Len(c) /\ Len(d) > 1)

Sorted(cs) ==
    /\ \A i \in DOMAIN cs : IsText(cs[i]) => Unbroken(cs[i].node, cs[i].body)
    /\ \A i, j \in DOMAIN cs :
          i < j /\ IsText(cs[i]) /\ IsText(cs[j]) /\ cs[i].node = cs[j].node
             => Follows(cs[i].body, cs[j].body)

(* All lines of the section from position a on are behind p. *)
Passed(p, a) == \A m \in DOMAIN Body : a <= m => p < Body[m]

(* The text chunks that the section at hand has given. *)
Given(cs) == {i \in DOMAIN cs : IsText(cs[i]) /\ cs[i].node = node}

BehindUs(cs, a) == \A i \in Given(cs) : \A k \in DOMAIN cs[i].body : Passed(cs[i].body[k], a)

(* A piece of this section follows them all. *)
AllPrecede(cs, body) == \A i \in Given(cs) : Follows(cs[i].body, body)

(* The later list has of this section what the earlier one had, and maybe  *)
(* the chunk of a piece.                                                   *)
Adds(cs, ds, body) ==
    \A j \in Given(ds) : (j \in Given(cs) /\ ds[j] = cs[j]) \/ ds[j].body = body

(* No text chunk comes from a section that the walk has still to reach,    *)
(* and those of the section at hand are behind the sentence to come.       *)
Walked(cs) == \A i \in DOMAIN cs : IsText(cs[i]) => cs[i].node \in Nat /\ cs[i].node <= node

(* The piece being filled continues the body without a gap, up to the      *)
(* sentence to come, and follows the chunks before it.                     *)
Continues(cs, body, a) ==
    /\ Unbroken(node, body)
    /\ \A k \in DOMAIN body : Passed(body[k], a)
    /\ body # <<>> =>
          /\ \A m \in DOMAIN Body : m < a /\ IsSentence(Body, m) => Body[m] <= body[Len(body)]
          /\ AllPrecede(cs, body)

PackInOrder ==
    /\ Sorted(chunks)
    /\ pc = "parse" => chunks = <<>>
    /\ Walking => Walked(chunks)
    /\ pc \in {"blocks", "split"} => Given(chunks) = {}
    /\ pc = "pack" => BehindUs(chunks, at) /\ Continues(chunks, cur.body, at)

(* The parts of what holds of the order, when the sections stay.           *)
LEMMA OrderFrame ==
    ASSUME lines' = lines, nodes' = nodes, node' = node
    PROVE  /\ Body' = Body
           /\ Sorted(chunks)' <=> Sorted(chunks')
           /\ Walked(chunks)' <=> Walked(chunks')
           /\ Given(chunks)' = Given(chunks')
           /\ BehindUs(chunks, at)' <=> BehindUs(chunks', at')
           /\ Continues(chunks, cur.body, at)' <=> Continues(chunks', cur'.body, at')
<1>1. Body' = Body
  BY DEF Body
<1>2. ASSUME NEW s, NEW m
      PROVE  IsSentence(s, m)' <=> IsSentence(s, m)
  BY DEF IsSentence, InBlock
<1>3. ASSUME NEW n, NEW body
      PROVE  Unbroken(n, body)' <=> Unbroken(n, body)
  BY <1>2 DEF Unbroken
<1>. QED  BY <1>1, <1>2, <1>3 DEF Sorted, Walked, Given, AllPrecede, BehindUs, Continues, Passed

(* A list of chunks with one more at its end. *)
LEMMA OneMore ==
    ASSUME NEW S, NEW s \in Seq(S), NEW e \in S
    PROVE  /\ s \o <<e>> \in Seq(S)
           /\ \A i \in DOMAIN (s \o <<e>>) :
                 \/ i \in DOMAIN s /\ (s \o <<e>>)[i] = s[i]
                 \/ i = Len(s) + 1 /\ (s \o <<e>>)[i] = e
           /\ \A i \in DOMAIN s : i \in DOMAIN (s \o <<e>>) /\ (s \o <<e>>)[i] = s[i]
           /\ Len(s) + 1 \in DOMAIN (s \o <<e>>) /\ (s \o <<e>>)[Len(s) + 1] = e
           /\ \A i \in DOMAIN s : i \in Nat /\ i < Len(s) + 1
           /\ Len(s) + 1 \in Nat
OBVIOUS

LEMMA NothingMore ==
    ASSUME NEW S, NEW s \in Seq(S)
    PROVE  s \o <<>> = s
OBVIOUS

(* A text chunk that skips nothing and follows the chunks of its section   *)
(* keeps the list in order.                                                *)
LEMMA SortedMore ==
    ASSUME NEW cs \in Seq(ChunkRecord), NEW c \in ChunkRecord, Sorted(cs),
           IsText(c) => /\ Unbroken(c.node, c.body)
                        /\ \A i \in DOMAIN cs : IsText(cs[i]) /\ cs[i].node = c.node
                              => Follows(cs[i].body, c.body)
    PROVE  Sorted(cs \o <<c>>)
<1>. DEFINE ds == cs \o <<c>>
<1>1. /\ \A i \in DOMAIN ds : \/ i \in DOMAIN cs /\ ds[i] = cs[i]
                              \/ i = Len(cs) + 1 /\ ds[i] = c
      /\ \A i \in DOMAIN cs : i \in Nat /\ i < Len(cs) + 1
      /\ Len(cs) + 1 \in Nat
  BY OneMore
<1>. HIDE DEF ds
<1>2. ASSUME NEW i \in DOMAIN ds, IsText(ds[i])
      PROVE  Unbroken(ds[i].node, ds[i].body)
  BY <1>1, <1>2 DEF Sorted
<1>3. ASSUME NEW i \in DOMAIN ds, NEW j \in DOMAIN ds, i < j, IsText(ds[i]), IsText(ds[j]),
             ds[i].node = ds[j].node
      PROVE  Follows(ds[i].body, ds[j].body)
  <2>1. i \in DOMAIN cs /\ ds[i] = cs[i]
    BY <1>1, <1>3
  <2>2. CASE j \in DOMAIN cs /\ ds[j] = cs[j]
    BY <1>3, <2>1, <2>2 DEF Sorted
  <2>3. CASE ds[j] = c
    BY <1>3, <2>1, <2>3
  <2>. QED  BY <1>1, <2>2, <2>3
<1>. QED  BY <1>2, <1>3 DEF Sorted, ds

(* The chunk of a piece, when it is not dropped. *)
LEMMA TextChunksOf ==
    ASSUME lines \in Seq(LineRecord), nodes \in Seq(NodeRecord), node \in 1..Len(nodes),
           NEW i, NEW piece \in PieceType
    PROVE  \/ /\ TextChunks(i, piece) = <<>>
              /\ TextTooSmall(node, piece)
           \/ \E c \in ChunkRecord : /\ TextChunks(i, piece) = <<c>>
                                     /\ IsText(c) /\ c.node = node /\ c.body = piece.body
                                     /\ c.path = nodes[node].path
<1>. DEFINE c == Chunk(IF i = 0 /\ nodes[node].level > 0 THEN "heading_intro" ELSE "text", piece)
<1>1. /\ c \in ChunkRecord /\ c.node = node /\ c.body = piece.body /\ IsText(c)
      /\ c.path = nodes[node].path
  BY ChunkType DEF IsText
<1>2. \/ /\ TextChunks(i, piece) = <<>>
         /\ TextTooSmall(node, piece)
      \/ TextChunks(i, piece) = <<c>>
  BY DEF TextChunks
<1>. HIDE DEF c
<1>. QED  BY <1>1, <1>2

LEMMA TableChunksOf ==
    ASSUME lines \in Seq(LineRecord), nodes \in Seq(NodeRecord), node \in 1..Len(nodes),
           NEW piece \in PieceType
    PROVE  \/ /\ TableChunks(piece) = <<>>
              /\ TableTooSmall(piece)
           \/ \E c \in ChunkRecord : /\ TableChunks(piece) = <<c>>
                                     /\ c.type = "table" /\ c.node = node /\ c.body = piece.body
<1>. DEFINE c == Chunk("table", piece)
<1>1. c \in ChunkRecord /\ c.node = node /\ c.body = piece.body /\ c.type = "table"
  BY ChunkType
<1>2. \/ /\ TableChunks(piece) = <<>>
         /\ TableTooSmall(piece)
      \/ TableChunks(piece) = <<c>>
  BY DEF TableChunks
<1>. HIDE DEF c
<1>. QED  BY <1>1, <1>2

(* What the chunk of one piece of body text does to the list. *)
LEMMA TextMore ==
    ASSUME lines \in Seq(LineRecord), nodes \in Seq(NodeRecord), node \in 1..Len(nodes),
           NEW cs \in Seq(ChunkRecord), NEW i, NEW piece \in PieceType,
           NEW ds, ds = cs \o TextChunks(i, piece),
           Sorted(cs), Walked(cs), Unbroken(node, piece.body), AllPrecede(cs, piece.body)
    PROVE  ds \in Seq(ChunkRecord) /\ Sorted(ds) /\ Walked(ds) /\ Adds(cs, ds, piece.body)
<1>1. CASE TextChunks(i, piece) = <<>>
  <2>1. ds = cs
    BY <1>1, NothingMore
  <2>. QED  BY <2>1 DEF Adds
<1>2. ASSUME NEW c \in ChunkRecord, TextChunks(i, piece) = <<c>>,
             IsText(c), c.node = node, c.body = piece.body
      PROVE  ds \in Seq(ChunkRecord) /\ Sorted(ds) /\ Walked(ds) /\ Adds(cs, ds, piece.body)
  <2>1. ds = cs \o <<c>>
    BY <1>2
  <2>2. Sorted(ds)
    BY <1>2, <2>1, SortedMore DEF Given, AllPrecede
  <2>3. /\ ds \in Seq(ChunkRecord)
        /\ \A j \in DOMAIN ds : (j \in DOMAIN cs /\ ds[j] = cs[j]) \/ ds[j] = c
    BY <2>1, OneMore
  <2>4. node \in Nat /\ node <= node
    OBVIOUS
  <2>5. Walked(ds)
    BY <1>2, <2>3, <2>4 DEF Walked
  <2>6. Adds(cs, ds, piece.body)
    BY <1>2, <2>3 DEF Given, Adds
  <2>. QED  BY <2>2, <2>3, <2>5, <2>6
<1>. QED  BY <1>1, <1>2, TextChunksOf

(* A table chunk leaves the order of the text alone. *)
LEMMA TableMore ==
    ASSUME lines \in Seq(LineRecord), nodes \in Seq(NodeRecord), node \in 1..Len(nodes),
           NEW cs \in Seq(ChunkRecord), NEW piece \in PieceType,
           NEW ds, ds = cs \o TableChunks(piece),
           Sorted(cs), Walked(cs), Given(cs) = {}
    PROVE  ds \in Seq(ChunkRecord) /\ Sorted(ds) /\ Walked(ds) /\ Given(ds) = {}
<1>1. CASE TableChunks(piece) = <<>>
  <2>1. ds = cs
    BY <1>1, NothingMore
  <2>. QED  BY <2>1
<1>2. ASSUME NEW c \in ChunkRecord, TableChunks(piece) = <<c>>, c.type = "table"
      PROVE  ds \in Seq(ChunkRecord) /\ Sorted(ds) /\ Walked(ds) /\ Given(ds) = {}
  <2>1. ds = cs \o <<c>> /\ ~IsText(c)
    BY <1>2 DEF IsText
  <2>2. Sorted(ds)
    BY <2>1, SortedMore
  <2>3. /\ ds \in Seq(ChunkRecord)
        /\ \A j \in DOMAIN ds : (j \in DOMAIN cs /\ ds[j] = cs[j]) \/ ds[j] = c
    BY <2>1, OneMore
  <2>4. Walked(ds) /\ Given(ds) = {}
    BY <2>1, <2>3 DEF Walked, Given
  <2>. QED  BY <2>2, <2>3, <2>4
<1>. QED  BY <1>1, <1>2, TableChunksOf

(* What the packing knows of the line it has reached. *)
AtSentence(p) ==
    /\ Body \in Seq(Positions) /\ Rising(Body)
    /\ at \in Nat /\ at > 0 /\ at <= Len(Body)
    /\ p = Body[at] /\ IsSentence(Body, at)

LEMMA AtSentenceFacts ==
    ASSUME NEW p, AtSentence(p)
    PROVE  /\ p \in Positions /\ p \in Nat
           /\ at \in DOMAIN Body /\ at \in Nat
           /\ \A m \in DOMAIN Body : /\ m \in Nat /\ Body[m] \in Nat
                                     /\ m < at => Body[m] < p
                                     /\ at < m => p < Body[m]
<1>1. at \in DOMAIN Body /\ p \in Positions
  BY DEF AtSentence
<1>2. \A m \in DOMAIN Body : m \in Nat /\ Body[m] \in Positions
  BY DEF AtSentence
<1>3. \A q \in Positions : q \in Nat
  BY DEF Positions
<1>. QED  BY <1>1, <1>2, <1>3 DEF AtSentence, Rising

(* The sentence at hand is passed when the packing goes on; what was       *)
(* passed before stays so.                                                 *)
LEMMA PassedOn ==
    ASSUME NEW p, AtSentence(p)
    PROVE  /\ Passed(p, at + 1)
           /\ \A q : Passed(q, at) => Passed(q, at + 1) /\ q < p
<1>1. /\ at \in DOMAIN Body /\ at \in Nat /\ p = Body[at]
      /\ \A m \in DOMAIN Body : m \in Nat /\ (at < m => p < Body[m])
  BY AtSentenceFacts DEF AtSentence
<1>2. \A m \in DOMAIN Body : at + 1 <= m => at < m /\ at <= m
  BY <1>1
<1>3. Passed(p, at + 1)
  BY <1>1, <1>2 DEF Passed
<1>4. \A q : Passed(q, at) => Passed(q, at + 1)
  BY <1>2 DEF Passed
<1>5. at <= at
  BY <1>1
<1>6. \A q : Passed(q, at) => q < p
  BY <1>1, <1>5 DEF Passed
<1>. QED  BY <1>3, <1>4, <1>6

(* Between the last sentence collected and the one at hand there is none.  *)
LEMMA NoneBetween ==
    ASSUME NEW cs, NEW body \in Seq(Positions), NEW p, AtSentence(p), Continues(cs, body, at),
           body # <<>>
    PROVE  /\ body[Len(body)] \in Positions
           /\ body[Len(body)] < p
           /\ \A m \in DOMAIN Body :
                 ~ /\ IsSentence(Body, m)
                   /\ body[Len(body)] < Body[m]
                   /\ Body[m] < p
<1>. DEFINE last == body[Len(body)]
<1>1. Len(body) \in DOMAIN body /\ last \in Positions
  OBVIOUS
<1>2. last < p
  BY <1>1, PassedOn DEF Continues
<1>3. last \in Nat
  BY <1>1 DEF Positions
<1>4. /\ at \in Nat /\ p \in Nat
      /\ \A m \in DOMAIN Body : m \in Nat /\ Body[m] \in Nat /\ (at < m => p < Body[m])
      /\ p = Body[at]
  BY AtSentenceFacts DEF AtSentence
<1>5. \A m \in DOMAIN Body : m < at /\ IsSentence(Body, m) => Body[m] <= last
  BY DEF Continues
<1>. HIDE DEF last
<1>6. ASSUME NEW m \in DOMAIN Body, IsSentence(Body, m), last < Body[m], Body[m] < p
      PROVE  FALSE
  <2>1. CASE m < at
    BY <1>3, <1>4, <1>5, <1>6, <2>1
  <2>2. CASE m = at
    BY <1>4, <1>6, <2>2
  <2>3. CASE at < m
    BY <1>4, <1>6, <2>3
  <2>. QED  BY <1>4, <2>1, <2>2, <2>3
<1>. QED  BY <1>1, <1>2, <1>6 DEF last

(* The sentences up to the one at hand are not behind it. *)
LEMMA NoneBehind ==
    ASSUME NEW p, AtSentence(p)
    PROVE  \A m \in DOMAIN Body : m < at + 1 => Body[m] <= p
<1>1. /\ at \in Nat /\ p \in Nat /\ p = Body[at]
      /\ \A m \in DOMAIN Body : m \in Nat /\ Body[m] \in Nat /\ (m < at => Body[m] < p)
  BY AtSentenceFacts DEF AtSentence
<1>2. ASSUME NEW m \in DOMAIN Body, m < at + 1
      PROVE  Body[m] <= p
  <2>1. m < at \/ m = at
    BY <1>1, <1>2
  <2>. QED  BY <1>1, <2>1
<1>. QED  BY <1>2

(* A piece with the sentence at hand behind its own. *)
LEMMA ContinuesOn ==
    ASSUME NEW cs, NEW body \in Seq(Positions), NEW p, AtSentence(p),
           BehindUs(cs, at), Continues(cs, body, at)
    PROVE  BehindUs(cs, at + 1) /\ Continues(cs, Append(body, p), at + 1)
<1>. DEFINE new == Append(body, p)
<1>1. /\ p \in Positions /\ p \in Nat
      /\ Passed(p, at + 1) /\ \A q : Passed(q, at) => Passed(q, at + 1) /\ q < p
  BY AtSentenceFacts, PassedOn
<1>2. /\ new \in Seq(Positions) /\ new # <<>> /\ Len(new) = Len(body) + 1
      /\ \A k \in DOMAIN new : (k \in DOMAIN body /\ new[k] = body[k]) \/ new[k] = p
      /\ \A k \in 1..Len(body) : new[k] = body[k]
      /\ new[Len(new)] = p
      /\ DOMAIN body = 1..Len(body) /\ Len(body) \in Nat
  BY <1>1, Appended, AppendedElements
<1>3. BehindUs(cs, at + 1)
  BY <1>1 DEF BehindUs
<1>4. Rising(new)
  <2>1. body \in Seq(Nat)
    BY PositionsAreNumbers
  <2>2. Rising(body) /\ \A k \in DOMAIN body : body[k] < p
    BY <1>1 DEF Continues, Unbroken
  <2>. QED  BY <1>1, <2>1, <2>2, AppendRises
<1>. HIDE DEF new
<1>5. ASSUME NEW k \in 1..Len(new) - 1, NEW m \in DOMAIN Body, IsSentence(Body, m),
             new[k] < Body[m], Body[m] < new[k + 1]
      PROVE  FALSE
  <2>1. k \in 1..Len(body) /\ new[k] = body[k]
    BY <1>2
  <2>2. CASE k = Len(body)
    <3>1. body # <<>> /\ new[k + 1] = p
      BY <1>2, <2>1, <2>2
    <3>. QED  BY <1>5, <2>1, <2>2, <3>1, NoneBetween
  <2>3. CASE k # Len(body)
    <3>0. Len(body) \in Nat
      OBVIOUS
    <3>1. k \in 1..Len(body) - 1 /\ k + 1 \in 1..Len(body)
      BY <2>1, <2>3, <3>0
    <3>2. new[k + 1] = body[k + 1]
      BY <1>2, <3>1
    <3>. QED  BY <1>5, <2>1, <3>1, <3>2 DEF Continues, Unbroken, Body
  <2>. QED  BY <2>2, <2>3
<1>6. Unbroken(node, new)
  BY <1>4, <1>5 DEF Unbroken, Body
<1>7. \A k \in DOMAIN new : Passed(new[k], at + 1)
  BY <1>1, <1>2 DEF Continues
<1>8. \A m \in DOMAIN Body : m < at + 1 /\ IsSentence(Body, m) => Body[m] <= new[Len(new)]
  BY <1>2, NoneBehind
<1>9. ASSUME NEW i \in Given(cs)
      PROVE  Follows(cs[i].body, new)
  <2>1. CASE body = <<>>
    <3>1. new[1] = p
      BY <1>2, <2>1
    <3>2. \A k \in DOMAIN cs[i].body : cs[i].body[k] < p
      BY <1>1, <1>9 DEF BehindUs
    <3>. QED  BY <3>1, <3>2 DEF Follows
  <2>2. CASE body # <<>>
    <3>1. Len(body) > 0
      BY <1>2, <2>2
    <3>2. new[1] = body[1] /\ Len(new) > 1
      BY <1>2, <3>1
    <3>3. Follows(cs[i].body, body)
      BY <1>9, <2>2 DEF Continues, AllPrecede
    <3>. QED  BY <3>2, <3>3 DEF Follows
  <2>. QED  BY <2>1, <2>2
<1>10. Continues(cs, new, at + 1)
  BY <1>2, <1>6, <1>7, <1>8, <1>9 DEF Continues, AllPrecede
<1>. QED  BY <1>3, <1>10 DEF new

(* A piece that begins with the last sentence of the one before it, which  *)
(* is a chunk by now or was dropped.                                       *)
LEMMA StartsAgain ==
    ASSUME NEW cs \in Seq(ChunkRecord), NEW ds, NEW body \in Seq(Positions), NEW p,
           AtSentence(p), body # <<>>,
           BehindUs(cs, at), Continues(cs, body, at),
           NEW new \in Seq(Positions), Len(new) = 2, new[1] = body[Len(body)], new[2] = p,
           Adds(cs, ds, body)
    PROVE  BehindUs(ds, at + 1) /\ Continues(ds, new, at + 1)
<1>. DEFINE last == body[Len(body)]
<1>1. /\ p \in Positions /\ p \in Nat
      /\ Passed(p, at + 1) /\ \A q : Passed(q, at) => Passed(q, at + 1) /\ q < p
  BY AtSentenceFacts, PassedOn
<1>2. /\ last \in Positions /\ last < p
      /\ \A m \in DOMAIN Body :
            ~(IsSentence(Body, m) /\ last < Body[m] /\ Body[m] < p)
  BY NoneBetween
<1>3. /\ Len(body) \in DOMAIN body /\ Len(body) \in Nat /\ 1 \in DOMAIN body
      /\ \A k \in DOMAIN body : k \in Nat /\ k <= Len(body) /\ body[k] \in Nat
  <2>1. \A q \in Positions : q \in Nat
    BY DEF Positions
  <2>2. \A k \in DOMAIN body : k \in Nat /\ k <= Len(body) /\ body[k] \in Positions
    OBVIOUS
  <2>. QED  BY <2>1, <2>2
<1>4. BehindUs(ds, at + 1)
  BY <1>1 DEF BehindUs, Continues, Adds
<1>5. Rising(body) /\ Passed(last, at)
  BY <1>3 DEF Continues, Unbroken
<1>6. \A k \in DOMAIN body : body[k] <= last /\ (k # Len(body) => body[k] < last)
  <2>1. ASSUME NEW k \in DOMAIN body
        PROVE  body[k] <= last /\ (k # Len(body) => body[k] < last)
    <3>1. k = Len(body) \/ k < Len(body)
      BY <1>3
    <3>. QED  BY <1>3, <1>5, <3>1 DEF Rising
  <2>. QED  BY <2>1
<1>7. last \in Nat
  BY <1>3
<1>8. /\ Len(new) = 2 /\ new[1] = last /\ new[2] = p
      /\ DOMAIN new = {1, 2}
  OBVIOUS
<1>. HIDE DEF last
<1>9. Unbroken(node, new)
  <2>1. Rising(new)
    BY <1>2, <1>8 DEF Rising
  <2>2. 1..Len(new) - 1 = {1} /\ 1 + 1 = 2
    BY <1>8
  <2>. QED  BY <1>2, <1>8, <2>1, <2>2 DEF Unbroken, Body
<1>10. \A k \in DOMAIN new : Passed(new[k], at + 1)
  BY <1>1, <1>5, <1>8
<1>11. \A m \in DOMAIN Body : m < at + 1 /\ IsSentence(Body, m) => Body[m] <= new[Len(new)]
  BY <1>8, NoneBehind
<1>12. ASSUME NEW i \in Given(ds)
       PROVE  Follows(ds[i].body, new)
  <2>1. CASE ds[i].body = body
    <3>1. \A k \in DOMAIN body : body[k] < last \/ (body[k] = last /\ k = Len(body))
      <4>1. \A k \in DOMAIN body : k = Len(body) => body[k] = last
        BY DEF last
      <4>2. \A k \in DOMAIN body : k # Len(body) => body[k] < last
        BY <1>6
      <4>. QED  BY <4>1, <4>2
    <3>. QED  BY <1>8, <2>1, <3>1 DEF Follows
  <2>2. CASE i \in Given(cs) /\ ds[i] = cs[i]
    <3>. DEFINE c == cs[i].body
    <3>1. Follows(c, body)
      BY <2>2 DEF Continues, AllPrecede
    <3>2. ASSUME NEW k \in DOMAIN c
          PROVE  c[k] < last \/ (c[k] = last /\ k = Len(c))
      <4>1. c[k] < body[1] \/ (c[k] = body[1] /\ k = Len(c) /\ Len(body) > 1)
        BY <3>1 DEF Follows
      <4>2. c[k] \in Nat /\ body[1] \in Nat /\ body[1] <= last
        <5>1. cs[i] \in ChunkRecord
          BY <2>2 DEF Given
        <5>2. c \in Seq(Nat)
          BY <5>1 DEF ChunkRecord
        <5>3. c[k] \in Nat
          BY <5>2
        <5>. QED  BY <1>3, <1>6, <5>3
      <4>. HIDE DEF c
      <4>. QED  BY <1>7, <4>1, <4>2
    <3>. QED  BY <1>8, <2>2, <3>2 DEF Follows
  <2>. QED  BY <1>12, <2>1, <2>2 DEF Adds
<1>13. Continues(ds, new, at + 1)
  BY <1>8, <1>9, <1>10, <1>11, <1>12 DEF Continues, AllPrecede
<1>. QED  BY <1>4, <1>13

(* A list of no chunks, and a piece of no sentence. *)
LEMMA NothingYet ==
    ASSUME NEW a
    PROVE  /\ Sorted(<<>>) /\ Walked(<<>>) /\ Given(<<>>) = {}
           /\ \A cs : Continues(cs, <<>>, a)
           /\ \A cs : Given(cs) = {} => BehindUs(cs, a)
BY EmptyRises DEF Sorted, Walked, Given, Continues, Unbroken, BehindUs

(* While the file is read and parsed there is no chunk. *)
LEMMA PackOrderBefore ==
    ASSUME chunks' = <<>>, pc' # "pack"
    PROVE  PackInOrder'
BY DEF PackInOrder, Sorted, Walked, Given

LEMMA PackOrderTables == IInv /\ PackInOrder /\ Tables => PackInOrder'
<1>. SUFFICES ASSUME IInv, PackInOrder, Tables PROVE PackInOrder'
  OBVIOUS
<1>1. /\ pc \in {"blocks", "split"} /\ pc' \in {"blocks", "split", "pack"}
      /\ lines' = lines /\ nodes' = nodes /\ node' = node
      /\ chunks' = chunks \/ chunks' = chunks \o TableChunks(cur)
      /\ pc' = "pack" => cur' = cur /\ cur.body = <<>>
  BY DEF Tables, ScanRow, ScanOther, SingleRow, TakeTable, StartSplit, SplitRow, SplitEnds,
         BlocksEnd, RunEnds, walk
<1>2. Sorted(chunks) /\ Walked(chunks) /\ Given(chunks) = {}
  BY <1>1 DEF PackInOrder, Walking
<1>3. /\ lines \in Seq(LineRecord) /\ nodes \in Seq(NodeRecord) /\ node \in 1..Len(nodes)
      /\ chunks \in Seq(ChunkRecord) /\ cur \in PieceType
  BY <1>1, IsSettled DEF Settled, Walking
<1>4. Sorted(chunks') /\ Walked(chunks') /\ Given(chunks') = {}
  BY <1>1, <1>2, <1>3, TableMore
<1>5. pc' = "pack" => BehindUs(chunks', at') /\ Continues(chunks', cur'.body, at')
  BY <1>1, <1>4, NothingYet
<1>. QED  BY <1>1, <1>4, <1>5, OrderFrame DEF PackInOrder, Walking

(* The sentence at hand, for a step that packs it. *)
LEMMA AtHand ==
    ASSUME IInv, InOrder, pc = "pack", NEW p, NextSentence(p)
    PROVE  AtSentence(p)
<1>1. Settled
  BY IsSettled DEF Walking
<1>2. node \in DOMAIN nodes /\ Body \in Seq(Positions)
  BY <1>1, BodyType DEF Settled
<1>3. Rising(Body)
  BY <1>2 DEF InOrder, LinesRise, Body
<1>. QED  BY <1>1, <1>2, <1>3 DEF AtSentence, NextSentence, Settled

LEMMA PackOrderPack == IInv /\ InOrder /\ PackInOrder /\ Pack => PackInOrder'
<1>. SUFFICES ASSUME IInv, InOrder, PackInOrder, Pack PROVE PackInOrder'
  OBVIOUS
<1>0. pc = "pack"
  BY DEF Pack, SkipNoSentence, PackOversized, PackOverflow, PackSentence, PackEnds, NextSentence
<1>1. /\ Sorted(chunks) /\ Walked(chunks)
      /\ BehindUs(chunks, at) /\ Continues(chunks, cur.body, at)
  BY <1>0 DEF PackInOrder, Walking
<1>2. /\ nodes \in Seq(NodeRecord) /\ node \in 1..Len(nodes) /\ node \in Nat
      /\ lines \in Seq(LineRecord)
      /\ chunks \in Seq(ChunkRecord) /\ cur \in PieceType /\ cur.body \in Seq(Positions)
      /\ packed \in Nat
  BY <1>0, IsSettled DEF Settled, Walking
<1>3. EmptyPiece.body = <<>>
  BY EmptyPieceType
<1>. DEFINE full == chunks \o TextChunks(packed, cur)
<1>4. ASSUME cur.body # <<>>
      PROVE  /\ full \in Seq(ChunkRecord) /\ Sorted(full) /\ Walked(full)
             /\ Adds(chunks, full, cur.body)
  <2>1. Unbroken(node, cur.body) /\ AllPrecede(chunks, cur.body)
    BY <1>1, <1>4 DEF Continues
  <2>2. full = chunks \o TextChunks(packed, cur)
    OBVIOUS
  <2>. HIDE DEF full
  <2>. QED  BY <1>1, <1>2, <2>1, <2>2, TextMore
<1>. HIDE DEF full
<1>5. ASSUME lines' = lines, nodes' = nodes, node' = node, pc' = "pack",
             Sorted(chunks'), Walked(chunks'), BehindUs(chunks', at'),
             Continues(chunks', cur'.body, at')
      PROVE  PackInOrder'
  BY <1>5, OrderFrame DEF PackInOrder, Walking
<1>6. CASE SkipNoSentence
  <2>1. /\ lines' = lines /\ nodes' = nodes /\ node' = node /\ pc' = "pack"
        /\ chunks' = chunks /\ cur' = cur /\ at' = at + 1
        /\ ~IsSentence(Body, at)
    BY <1>0, <1>6 DEF SkipNoSentence, walk
  <2>2. at \in Nat /\ DOMAIN Body \subseteq Nat
    <3>1. Body \in Seq(Positions)
      BY <1>2, BodyType
    <3>. QED  BY <3>1 DEF IInv, CodeTypes
  <2>3. \A m \in DOMAIN Body : at + 1 <= m => at <= m
    BY <2>2
  <2>4. \A m \in DOMAIN Body : m < at + 1 /\ IsSentence(Body, m) => m < at
    BY <2>1, <2>2
  <2>5. \A q : Passed(q, at) => Passed(q, at + 1)
    BY <2>3 DEF Passed
  <2>6. BehindUs(chunks, at + 1) /\ Continues(chunks, cur.body, at + 1)
    BY <1>1, <2>4, <2>5 DEF BehindUs, Continues
  <2>. QED  BY <1>1, <1>5, <2>1, <2>6
<1>7. CASE PackOversized
  <2>1. PICK p \in 1..Len(lines) :
          /\ NextSentence(p)
          /\ lines' = lines /\ nodes' = nodes /\ node' = node
          /\ pc' = "pack" /\ at' = at + 1 /\ cur' = EmptyPiece
          /\ chunks' = chunks \o (IF cur.body = <<>> THEN <<>> ELSE TextChunks(packed, cur))
                         \o TextChunks(IF cur.body = <<>> THEN packed ELSE packed + 1, Piece(p))
    BY <1>0, <1>7 DEF PackOversized, NextSentence
  <2>2. AtSentence(p) /\ p \in Positions /\ p \in Nat
    BY <1>0, <2>1, AtHand, AtSentenceFacts
  <2>3. Piece(p) \in PieceType /\ Piece(p).body = <<p>>
    BY <1>2, <2>2, OneSentencePiece
  <2>. DEFINE one == <<p>>
              es == IF cur.body = <<>> THEN chunks ELSE full
              n == IF cur.body = <<>> THEN packed ELSE packed + 1
  <2>4. one # <<>> /\ Len(one) = 1 /\ DOMAIN one = {1} /\ one[1] = p
    OBVIOUS
  <2>5. /\ es \in Seq(ChunkRecord) /\ Sorted(es) /\ Walked(es)
        /\ es = chunks \/ Adds(chunks, es, cur.body)
    BY <1>1, <1>2, <1>4
  <2>6. chunks' = es \o TextChunks(n, Piece(p))
    <3>1. chunks \o <<>> = chunks
      BY <1>2, NothingMore
    <3>. QED  BY <2>1, <3>1 DEF full, es, n
  <2>7. /\ Passed(p, at + 1) /\ \A q : Passed(q, at) => Passed(q, at + 1) /\ q < p
    BY <2>2, PassedOn
  <2>. HIDE DEF es, n, one
  <2>8. Unbroken(node, one)
    <3>1. 1..Len(one) - 1 = {}
      BY <2>4
    <3>2. Rising(one)
      BY <2>4 DEF Rising
    <3>. QED  BY <3>1, <3>2 DEF Unbroken
  <2>9. \A j \in Given(es) : \A k \in DOMAIN es[j].body : Passed(es[j].body[k], at)
    BY <1>1, <2>5 DEF BehindUs, Continues, Adds
  <2>10. AllPrecede(es, one)
    BY <2>4, <2>7, <2>9 DEF Follows, AllPrecede
  <2>11. Sorted(chunks') /\ Walked(chunks') /\ Adds(es, chunks', one)
    <3>1. Piece(p).body = one
      BY <2>3 DEF one
    <3>. QED  BY <1>2, <2>3, <2>5, <2>6, <2>8, <2>10, <3>1, TextMore
  <2>12. BehindUs(chunks', at')
    BY <2>1, <2>4, <2>7, <2>9, <2>11 DEF BehindUs, Adds
  <2>13. Continues(chunks', cur'.body, at')
    BY <1>3, <2>1, NothingYet
  <2>. QED  BY <1>5, <2>1, <2>11, <2>12, <2>13
<1>8. CASE PackOverflow
  <2>. DEFINE last == cur.body[Len(cur.body)]
  <2>1. PICK p \in 1..Len(lines) :
          /\ NextSentence(p)
          /\ lines' = lines /\ nodes' = nodes /\ node' = node
          /\ pc' = "pack" /\ at' = at + 1 /\ cur.body # <<>>
          /\ chunks' = full
          /\ cur' = Add(Piece(last), p)
    BY <1>0, <1>8 DEF PackOverflow, NextSentence, Overflows, full
  <2>2. AtSentence(p) /\ p \in Positions
    BY <1>0, <2>1, AtHand, AtSentenceFacts
  <2>3. last \in Positions
    BY <1>2, <2>1
  <2>4. /\ cur'.body \in Seq(Positions) /\ Len(cur'.body) = 2
        /\ cur'.body[1] = last /\ cur'.body[2] = p
    <3>1. Piece(last).body = <<last>> /\ Piece(last) \in PieceType /\ Piece(last).body \in Seq(Positions)
      BY <1>2, <2>3, OneSentencePiece
    <3>2. cur'.body = Append(Piece(last).body, p)
      BY <1>2, <2>1, <2>2, <3>1, AddType
    <3>3. cur'.body = Append(<<last>>, p)
      BY <3>1, <3>2
    <3>. HIDE DEF last
    <3>. QED  BY <2>2, <2>3, <3>3, PairOf
  <2>5. BehindUs(full, at + 1) /\ Continues(full, cur'.body, at + 1)
    <3>1. Adds(chunks, full, cur.body)
      BY <1>4, <2>1
    <3>. QED  BY <1>1, <1>2, <2>1, <2>2, <2>4, <3>1, StartsAgain
  <2>. HIDE DEF last
  <2>. QED  BY <1>4, <1>5, <2>1, <2>4, <2>5
<1>9. CASE PackSentence
  <2>1. PICK p \in 1..Len(lines) :
          /\ NextSentence(p)
          /\ lines' = lines /\ nodes' = nodes /\ node' = node
          /\ pc' = "pack" /\ at' = at + 1 /\ chunks' = chunks
          /\ cur' = Add(cur, p)
    BY <1>0, <1>9 DEF PackSentence, NextSentence
  <2>2. AtSentence(p) /\ p \in Positions
    BY <1>0, <2>1, AtHand, AtSentenceFacts
  <2>3. cur'.body = Append(cur.body, p)
    BY <1>2, <2>1, <2>2, AddType
  <2>4. BehindUs(chunks, at + 1) /\ Continues(chunks, Append(cur.body, p), at + 1)
    BY <1>1, <1>2, <2>2, ContinuesOn
  <2>. QED  BY <1>1, <1>5, <2>1, <2>3, <2>4
<1>10. CASE PackEnds
  <2>. DEFINE es == IF cur.body = <<>> THEN chunks ELSE full
  <2>1. /\ lines' = lines /\ nodes' = nodes /\ chunks' = es
        /\ (node' = node + 1 /\ pc' = "blocks") \/ (node' = node /\ pc' = "done")
    BY <1>10 DEF PackEnds, full
  <2>2. Sorted(es) /\ Walked(es)
    BY <1>1, <1>4
  <2>. HIDE DEF es
  <2>3. Sorted(chunks)'
    <3>1. ASSUME NEW n, NEW body
          PROVE  Unbroken(n, body)' <=> Unbroken(n, body)
      BY <2>1 DEF Unbroken, IsSentence, InBlock
    <3>. QED  BY <2>1, <2>2, <3>1 DEF Sorted
  <2>4. ASSUME pc' = "blocks"
        PROVE  Walked(chunks)' /\ Given(chunks)' = {}
    <3>1. node' = node + 1
      BY <2>1, <2>4
    <3>2. \A i \in DOMAIN es : IsText(es[i]) => es[i].node \in Nat /\ es[i].node < node + 1
      BY <1>2, <2>2 DEF Walked
    <3>3. \A i \in DOMAIN es : IsText(es[i]) => es[i].node # node + 1 /\ es[i].node <= node + 1
      BY <1>2, <3>2
    <3>. QED  BY <2>1, <3>1, <3>2, <3>3 DEF Walked, Given
  <2>. QED  BY <2>1, <2>3, <2>4 DEF PackInOrder, Walking
<1>. QED  BY <1>6, <1>7, <1>8, <1>9, <1>10 DEF Pack

LEMMA StepPackOrder == IInv /\ InOrder /\ PackInOrder /\ [Next]_vars => PackInOrder'
<1>. SUFFICES ASSUME IInv, InOrder, PackInOrder, [Next]_vars PROVE PackInOrder'
  OBVIOUS
<1>1. CASE Extract
  <2>1. chunks = <<>>
    BY <1>1 DEF Extract, ReadPage, FitzEnds, FitzFails, PlumberEnds, InjectTable, TablesEnd,
                ReadText, IInv, Places, Extracting
  <2>2. chunks' = chunks /\ pc' # "pack"
    BY <1>1 DEF Extract, ReadPage, FitzEnds, FitzFails, PlumberEnds, InjectTable, TablesEnd,
                ReadText, walk
  <2>. QED  BY <2>1, <2>2, PackOrderBefore
<1>2. CASE Parse
  <2>1. chunks = <<>>
    BY <1>2 DEF Parse, MergePage, MergeEnds, PopSection, ParseHeading, ParseBody, ParseEnds,
                IInv, Places, Extracting, PackInOrder
  <2>2. chunks' = chunks /\ pc' # "pack"
    BY <1>2 DEF Parse, MergePage, MergeEnds, PopSection, ParseHeading, ParseBody, ParseEnds, walk
  <2>. QED  BY <2>1, <2>2, PackOrderBefore
<1>3. CASE Tables
  BY <1>3, PackOrderTables
<1>4. CASE Pack
  BY <1>4, PackOrderPack
<1>5. CASE UNCHANGED vars
  <2>1. /\ lines' = lines /\ nodes' = nodes /\ node' = node /\ chunks' = chunks /\ cur' = cur
        /\ at' = at /\ pc' = pc
    BY <1>5 DEF vars
  <2>2. /\ Sorted(chunks)' <=> Sorted(chunks)
        /\ Walked(chunks)' <=> Walked(chunks)
        /\ Given(chunks)' = Given(chunks)
        /\ BehindUs(chunks, at)' <=> BehindUs(chunks, at)
        /\ Continues(chunks, cur.body, at)' <=> Continues(chunks, cur.body, at)
    BY <2>1, OrderFrame
  <2>. QED  BY <2>1, <2>2 DEF PackInOrder, Walking
<1>. QED  BY <1>1, <1>2, <1>3, <1>4, <1>5 DEF Next, Done

LEMMA PackOrder == Spec => [](IInv /\ InOrder /\ PackInOrder)
<1>1. Init => PackInOrder
  <2>1. Init => chunks = <<>> /\ pc \notin {"parse", "blocks", "split", "pack"}
    BY DEF Init
  <2>2. chunks = <<>> /\ pc \notin {"parse", "blocks", "split", "pack"} => PackInOrder
    BY NothingYet DEF PackInOrder, Walking
  <2>. QED  BY <2>1, <2>2
<1>. QED  BY <1>1, Order, StepPackOrder, PTL DEF Spec

(* chunker.py:508-535: for every file and every budget, the text chunks of *)
(* a section repeat its sentences in order, skip none in between, and      *)
(* share at most the one sentence of overlap.                              *)
THEOREM SentencesStayInOrder == Spec => []SentencesInOrder
<1>1. IInv /\ PackInOrder => SentencesInOrder
  <2>. SUFFICES ASSUME IInv, PackInOrder, NEW i \in DOMAIN chunks, NEW j \in DOMAIN chunks,
                       IsText(chunks[i]), IsText(chunks[j]), chunks[i].node = chunks[j].node
                PROVE  /\ \A k \in 1..Len(chunks[i].body) - 1 :
                             /\ chunks[i].body[k] < chunks[i].body[k + 1]
                             /\ \A m \in DOMAIN nodes[chunks[i].node].lines :
                                   ~ /\ IsSentence(nodes[chunks[i].node].lines, m)
                                     /\ chunks[i].body[k] < nodes[chunks[i].node].lines[m]
                                     /\ nodes[chunks[i].node].lines[m] < chunks[i].body[k + 1]
                       /\ i < j => Follows(chunks[i].body, chunks[j].body)
    BY DEF SentencesInOrder, Follows
  <2>. DEFINE b == chunks[i].body
  <2>1. Unbroken(chunks[i].node, b)
    BY DEF PackInOrder, Sorted
  <2>2. b \in Seq(Nat)
    <3>1. chunks[i] \in ChunkRecord
      BY DEF IInv, CodeTypes
    <3>. QED  BY <3>1 DEF ChunkRecord
  <2>3. i < j => Follows(b, chunks[j].body)
    BY DEF PackInOrder, Sorted
  <2>. HIDE DEF b
  <2>4. \A k \in 1..Len(b) - 1 : k \in DOMAIN b /\ k + 1 \in DOMAIN b /\ k < k + 1
    BY <2>2
  <2>5. \A k \in 1..Len(b) - 1 : b[k] < b[k + 1]
    BY <2>1, <2>4 DEF Unbroken, Rising
  <2>. QED  BY <2>1, <2>3, <2>5 DEF Unbroken, b
<1>. QED  BY <1>1, PackOrder, PTL

-----------------------------------------------------------------------------
(* The blocks of tables                                                    *)

(* What TablePiecesKeepHeader says of one table chunk. *)
KeepsHeader(n, b) ==
    LET body == nodes[n].lines
    IN  \E i1, i2 \in DOMAIN body :
            LET block == SubSeq(body, i1, i2)
            IN  /\ i1 < i2
                /\ \A k \in i1..i2 : IsTableLine(lines[body[k]].line)
                /\ i1 = 1 \/ ~IsTableLine(lines[body[i1 - 1]].line)
                /\ i2 = Len(body) \/ ~IsTableLine(lines[body[i2 + 1]].line)
                /\ \A k \in 1..Len(b) - 1 : b[k] < b[k + 1]
                /\ \A k \in DOMAIN b : \E m \in DOMAIN block : block[m] = b[k]
                /\ \A k \in 1..HeaderRows(block) : b[k] = block[k]

TablesWhole(cs) == \A i \in DOMAIN cs : cs[i].type = "table" => KeepsHeader(cs[i].node, cs[i].body)

TableLineAt(a) == a <= Len(Body) /\ IsTableLine(lines[Body[a]].line)

(* The rows s are all the table lines that stand together before place a.  *)
RunAt(s, a) ==
    /\ Len(s) < a /\ a <= Len(Body) + 1
    /\ \A k \in DOMAIN s : /\ s[k] = Body[a - Len(s) - 1 + k]
                           /\ IsTableLine(lines[s[k]].line)
    /\ a - Len(s) = 1 \/ ~IsTableLine(lines[Body[a - Len(s) - 1]].line)

(* The piece b has the header of the block s and rises through its first n *)
(* rows.                                                                   *)
FromRows(s, n, b) ==
    /\ HeaderRows(s) <= Len(b)
    /\ \A k \in 1..HeaderRows(s) : b[k] = s[k]
    /\ Rising(b)
    /\ \A k \in DOMAIN b : \E m \in 1..n : b[k] = s[m]

BlocksInOrder ==
    /\ TablesWhole(chunks)
    /\ pc = "blocks" => /\ at <= Len(Body) + 1
                        /\ TableLineAt(at) \/ cur.body # <<>> => RunAt(cur.body, at)
    /\ pc = "split" => /\ RunAt(rows, at) /\ ~TableLineAt(at)
                       /\ HeaderRows(rows) <= packed /\ packed <= Len(rows)
                       /\ FromRows(rows, packed, cur.body)

LEMMA BlocksFrame ==
    ASSUME lines' = lines, nodes' = nodes
    PROVE  /\ TablesWhole(chunks)' <=> TablesWhole(chunks')
           /\ node' = node =>
                 /\ Body' = Body
                 /\ TableLineAt(at)' <=> TableLineAt(at')
                 /\ RunAt(cur.body, at)' <=> RunAt(cur'.body, at')
                 /\ RunAt(rows, at)' <=> RunAt(rows', at')
                 /\ HeaderRows(rows)' = HeaderRows(rows')
                 /\ FromRows(rows, packed, cur.body)' <=> FromRows(rows', packed', cur'.body)
<1>1. ASSUME NEW s
      PROVE  HeaderRows(s)' = HeaderRows(s)
  BY DEF HeaderRows
<1>2. ASSUME NEW n, NEW b
      PROVE  KeepsHeader(n, b)' <=> KeepsHeader(n, b)
  BY DEF KeepsHeader, HeaderRows
<1>3. TablesWhole(chunks)' <=> TablesWhole(chunks')
  BY <1>2 DEF TablesWhole
<1>4. ASSUME node' = node
      PROVE  /\ Body' = Body
             /\ TableLineAt(at)' <=> TableLineAt(at')
             /\ RunAt(cur.body, at)' <=> RunAt(cur'.body, at')
             /\ RunAt(rows, at)' <=> RunAt(rows', at')
  <2>1. Body' = Body
    BY <1>4 DEF Body
  <2>. QED  BY <2>1 DEF TableLineAt, RunAt
<1>5. HeaderRows(rows)' = HeaderRows(rows')
  BY DEF HeaderRows
<1>6. FromRows(rows, packed, cur.body)' <=> FromRows(rows', packed', cur'.body)
  BY <1>5 DEF FromRows, Rising
<1>. QED  BY <1>3, <1>4, <1>5, <1>6

LEMMA HeaderRowsRange ==
    ASSUME NEW s
    PROVE  HeaderRows(s) \in {1, 2}
BY DEF HeaderRows

(* The rows of a run rise like the body they stand in. *)
LEMMA RunRises ==
    ASSUME Body \in Seq(Positions), Rising(Body), NEW s \in Seq(Positions), NEW a \in Nat,
           RunAt(s, a)
    PROVE  /\ Rising(s)
           /\ \A k \in DOMAIN s : a - Len(s) - 1 + k \in DOMAIN Body
<1>. DEFINE off == a - Len(s) - 1
<1>1. /\ Len(s) \in Nat /\ Len(Body) \in Nat /\ DOMAIN s = 1..Len(s) /\ DOMAIN Body = 1..Len(Body)
  OBVIOUS
<1>2. /\ off \in Nat /\ off + Len(s) <= Len(Body)
      /\ \A k \in DOMAIN s : s[k] = Body[off + k]
  BY <1>1 DEF RunAt
<1>. HIDE DEF off
<1>3. \A k \in DOMAIN s : off + k \in DOMAIN Body
  BY <1>1, <1>2
<1>4. \A i, j \in DOMAIN s : i < j => off + i < off + j
  BY <1>1, <1>2
<1>5. Rising(s)
  BY <1>2, <1>3, <1>4 DEF Rising
<1>. QED  BY <1>3, <1>5 DEF off

(* A piece of a complete run is a table chunk as the property wants it.    *)
LEMMA WholeBlock ==
    ASSUME Body \in Seq(Positions), NEW s \in Seq(Positions), NEW a \in Nat,
           RunAt(s, a), ~TableLineAt(a), Len(s) > 1,
           NEW b \in Seq(Nat), FromRows(s, Len(s), b)
    PROVE  KeepsHeader(node, b)
<1>. DEFINE i1 == a - Len(s)
            i2 == a - 1
            block == SubSeq(Body, i1, i2)
<1>1. /\ Len(s) \in Nat /\ Len(Body) \in Nat /\ DOMAIN s = 1..Len(s) /\ DOMAIN Body = 1..Len(Body)
      /\ Len(b) \in Nat /\ DOMAIN b = 1..Len(b)
  OBVIOUS
<1>2. i1 \in DOMAIN Body /\ i2 \in DOMAIN Body /\ i1 < i2 /\ i2 = i1 + Len(s) - 1 /\ a = i2 + 1
  BY <1>1 DEF RunAt
<1>3. \A k \in DOMAIN s : s[k] = Body[i1 - 1 + k] /\ IsTableLine(lines[s[k]].line)
  <2>1. i1 - 1 = a - Len(s) - 1
    BY <1>1
  <2>. QED  BY <2>1 DEF RunAt
<1>4. i1 = 1 \/ ~IsTableLine(lines[Body[i1 - 1]].line)
  BY DEF RunAt
<1>. HIDE DEF i1, i2
<1>5. i2 = Len(Body) \/ ~IsTableLine(lines[Body[i2 + 1]].line)
  <2>1. a <= Len(Body) + 1 /\ (a <= Len(Body) => ~IsTableLine(lines[Body[a]].line))
    BY DEF RunAt, TableLineAt
  <2>2. a <= Len(Body) \/ i2 = Len(Body)
    BY <1>1, <1>2, <2>1
  <2>. QED  BY <1>2, <2>1, <2>2
<1>6. i1 \in Nat /\ i2 \in Nat /\ i1 >= 1
  BY <1>1, <1>2
<1>7. Len(block) = Len(s) /\ \A k \in 1..Len(s) : block[k] = Body[i1 - 1 + k]
  <2>1. Len(block) = i2 - i1 + 1 /\ \A k \in 1..i2 - i1 + 1 : block[k] = Body[i1 + k - 1]
    BY <1>1, <1>2, <1>6
  <2>2. i2 - i1 + 1 = Len(s) /\ \A k \in 1..Len(s) : i1 + k - 1 = i1 - 1 + k
    BY <1>1, <1>2, <1>6
  <2>. HIDE DEF block
  <2>. QED  BY <2>1, <2>2
<1>8. DOMAIN block = 1..Len(s)
  <2>1. block \in Seq(Positions)
    BY <1>1, <1>2, <1>6
  <2>. QED  BY <1>7, <2>1
<1>. HIDE DEF block
<1>9. \A k \in 1..Len(s) : block[k] = s[k]
  BY <1>1, <1>3, <1>7
<1>10. HeaderRows(block) = HeaderRows(s)
  <2>1. 1 \in 1..Len(s) /\ 2 \in 1..Len(s)
    BY <1>1
  <2>2. block[1] = s[1] /\ block[2] = s[2]
    BY <1>9, <2>1
  <2>. QED  BY <2>2 DEF HeaderRows
<1>11. \A k \in i1..i2 : IsTableLine(lines[Body[k]].line)
  <2>1. ASSUME NEW k \in i1..i2
        PROVE  IsTableLine(lines[Body[k]].line)
    <3>1. k - i1 + 1 \in DOMAIN s /\ i1 - 1 + (k - i1 + 1) = k
      BY <1>1, <1>2, <1>6
    <3>. QED  BY <1>3, <3>1
  <2>. QED  BY <2>1
<1>12. \A k \in 1..Len(b) - 1 : b[k] < b[k + 1]
  <2>1. \A k \in 1..Len(b) - 1 : k \in DOMAIN b /\ k + 1 \in DOMAIN b /\ k < k + 1
    BY <1>1
  <2>. QED  BY <2>1 DEF FromRows, Rising
<1>13. \A k \in DOMAIN b : \E m \in DOMAIN block : block[m] = b[k]
  <2>1. \A k \in DOMAIN b : \E m \in 1..Len(s) : b[k] = s[m]
    BY DEF FromRows
  <2>. QED  BY <1>8, <1>9, <2>1
<1>14. \A k \in 1..HeaderRows(block) : b[k] = block[k]
  <2>1. \A k \in 1..HeaderRows(s) : b[k] = s[k]
    BY DEF FromRows
  <2>2. 1..HeaderRows(s) \subseteq 1..Len(s)
    BY <1>1, HeaderRowsRange
  <2>. QED  BY <1>9, <1>10, <2>1, <2>2
<1>. QED  BY <1>2, <1>4, <1>5, <1>11, <1>12, <1>13, <1>14 DEF KeepsHeader, Body, block

(* A run with the table line behind it, and a fresh run. *)
LEMMA RunGrows ==
    ASSUME Body \in Seq(Positions), NEW s \in Seq(Positions), NEW a \in Nat, a > 0,
           RunAt(s, a), TableLineAt(a)
    PROVE  RunAt(Append(s, Body[a]), a + 1) /\ a + 1 <= Len(Body) + 1
<1>. DEFINE t == Append(s, Body[a])
            off == a - Len(s) - 1
<1>1. a <= Len(Body) /\ Len(Body) \in Nat /\ Len(s) \in Nat /\ DOMAIN s = 1..Len(s)
      /\ IsTableLine(lines[Body[a]].line) /\ Len(s) < a
  BY DEF TableLineAt, RunAt
<1>2. Body[a] \in Positions
  BY <1>1
<1>3. /\ t \in Seq(Positions) /\ Len(t) = Len(s) + 1
      /\ \A k \in 1..Len(s) : t[k] = s[k]
      /\ t[Len(s) + 1] = Body[a]
  BY <1>2, Appended, AppendedEnd
<1>4. DOMAIN t = 1..Len(s) + 1
  BY <1>3
<1>. HIDE DEF t
<1>5. off \in Nat /\ off = a + 1 - Len(t) - 1 /\ off + Len(s) + 1 = a /\ a + 1 - Len(t) = a - Len(s)
  BY <1>1, <1>3
<1>6. /\ \A k \in 1..Len(s) : s[k] = Body[off + k] /\ IsTableLine(lines[s[k]].line)
      /\ a - Len(s) = 1 \/ ~IsTableLine(lines[Body[off]].line)
  BY <1>1 DEF RunAt
<1>. HIDE DEF off
<1>7. ASSUME NEW k \in DOMAIN t
      PROVE  t[k] = Body[off + k] /\ IsTableLine(lines[t[k]].line)
  <2>1. CASE k \in 1..Len(s)
    BY <1>3, <1>6, <2>1
  <2>2. CASE k = Len(s) + 1
    <3>1. off + k = a
      BY <1>1, <1>5, <2>2
    <3>. QED  BY <1>1, <1>3, <2>2, <3>1
  <2>. QED  BY <1>1, <1>4, <2>1, <2>2
<1>8. Len(t) < a + 1 /\ a + 1 <= Len(Body) + 1
  BY <1>1, <1>3
<1>9. a + 1 - Len(t) = 1 \/ ~IsTableLine(lines[Body[off]].line)
  BY <1>5, <1>6
<1>. QED  BY <1>5, <1>7, <1>8, <1>9 DEF RunAt, t

LEMMA RunBegins ==
    ASSUME Body \in Seq(Positions), NEW a \in Nat, a > 0, a <= Len(Body) + 1,
           a = 1 \/ ~TableLineAt(a - 1)
    PROVE  RunAt(<<>>, a)
<1>1. Len(<<>>) = 0 /\ DOMAIN <<>> = {} /\ a - 0 = a /\ Len(Body) \in Nat
  OBVIOUS
<1>2. a # 1 => a - 1 <= Len(Body)
  BY <1>1
<1>. QED  BY <1>1, <1>2 DEF RunAt, TableLineAt

(* A whole block, its header, and a piece with the next of its rows. *)
LEMMA WholeFromRows ==
    ASSUME NEW s \in Seq(Positions), Rising(s), Len(s) > 1
    PROVE  FromRows(s, Len(s), s)
<1>1. HeaderRows(s) <= Len(s)
  BY HeaderRowsRange
<1>. QED  BY <1>1 DEF FromRows

LEMMA HeaderPieceRows ==
    ASSUME lines \in Seq(LineRecord), NEW s \in Seq(Positions), Len(s) > 1
    PROVE  /\ HeaderPiece(s).body \in Seq(Positions)
           /\ Len(HeaderPiece(s).body) = HeaderRows(s)
           /\ \A k \in 1..HeaderRows(s) : HeaderPiece(s).body[k] = s[k]
<1>. DEFINE first == [body |-> <<s[1]>>, tokens |-> 0, words |-> Words(s[1]),
                      header |-> HeaderRows(s)]
<1>1. s[1] \in Positions /\ s[2] \in Positions
  OBVIOUS
<1>2. first.body = <<s[1]>>
  OBVIOUS
<1>3. HeaderPiece(s) = IF HeaderRows(s) = 1 THEN first ELSE AddRow(first, s[2])
  BY DEF HeaderPiece
<1>4. AddRow(first, s[2]).body = Append(first.body, s[2])
  BY DEF AddRow
<1>. HIDE DEF first
<1>5. CASE HeaderRows(s) = 1
  <2>. DEFINE one == <<s[1]>>
  <2>1. one \in Seq(Positions) /\ Len(one) = 1 /\ one[1] = s[1]
    BY <1>1
  <2>2. HeaderPiece(s).body = one
    BY <1>2, <1>3, <1>5
  <2>. HIDE DEF one
  <2>. QED  BY <1>5, <2>1, <2>2
<1>6. CASE HeaderRows(s) = 2
  <2>. DEFINE two == HeaderPiece(s).body
  <2>1. two = Append(<<s[1]>>, s[2])
    BY <1>2, <1>3, <1>4, <1>6
  <2>. HIDE DEF two
  <2>2. two \in Seq(Positions) /\ Len(two) = 2 /\ two[1] = s[1] /\ two[2] = s[2]
    BY <1>1, <2>1, PairOf
  <2>3. \A k \in 1..2 : two[k] = s[k]
    BY <2>2
  <2>. QED  BY <1>6, <2>2, <2>3 DEF two
<1>. QED  BY <1>5, <1>6, HeaderRowsRange

LEMMA HeaderFromRows ==
    ASSUME NEW s \in Seq(Positions), Rising(s), NEW h \in Seq(Nat),
           Len(h) = HeaderRows(s), \A k \in 1..HeaderRows(s) : h[k] = s[k],
           Len(s) > 1
    PROVE  FromRows(s, HeaderRows(s), h)
<1>1. DOMAIN h = 1..HeaderRows(s) /\ 1..HeaderRows(s) \subseteq DOMAIN s /\ HeaderRows(s) \in Nat
  BY HeaderRowsRange
<1>2. Rising(h)
  BY <1>1 DEF Rising
<1>. QED  BY <1>1, <1>2 DEF FromRows

LEMMA NextFromRows ==
    ASSUME NEW s \in Seq(Positions), Rising(s), NEW m \in Nat, NEW n \in Nat, m <= n, n < Len(s),
           NEW b \in Seq(Nat), FromRows(s, m, b), NEW c, c = Append(b, s[n + 1])
    PROVE  FromRows(s, n + 1, c)
<1>. DEFINE q == s[n + 1]
<1>1. n + 1 \in DOMAIN s /\ q \in Nat
  <2>1. n + 1 \in DOMAIN s
    OBVIOUS
  <2>. QED  BY <2>1 DEF Positions
<1>2. \A i \in 1..m : i \in DOMAIN s /\ s[i] < q /\ i \in 1..n + 1
  <2>1. \A i \in 1..m : i \in DOMAIN s /\ i < n + 1 /\ i \in 1..n + 1
    OBVIOUS
  <2>. QED  BY <1>1, <2>1 DEF Rising
<1>. HIDE DEF q
<1>3. \A k \in DOMAIN b : \E i \in 1..m : b[k] = s[i]
  BY DEF FromRows
<1>4. \A k \in DOMAIN b : b[k] < q
  BY <1>2, <1>3
<1>5. c = Append(b, q)
  BY DEF q
<1>6. Rising(c)
  BY <1>1, <1>4, <1>5, AppendRises DEF FromRows
<1>7. /\ Len(c) = Len(b) + 1 /\ \A k \in 1..Len(b) : c[k] = b[k]
      /\ \A k \in DOMAIN c : (k \in DOMAIN b /\ c[k] = b[k]) \/ c[k] = q
      /\ Len(b) \in Nat
  BY <1>1, <1>5, Appended, AppendedEnd, AppendedElements
<1>8. ASSUME NEW k \in DOMAIN c
      PROVE  \E i \in 1..n + 1 : c[k] = s[i]
  <2>1. CASE k \in DOMAIN b /\ c[k] = b[k]
    BY <1>2, <1>3, <2>1
  <2>2. CASE c[k] = q
    <3>1. n + 1 \in 1..n + 1
      OBVIOUS
    <3>. QED  BY <2>2, <3>1 DEF q
  <2>. QED  BY <1>7, <2>1, <2>2
<1>9. HeaderRows(s) <= Len(c) /\ \A k \in 1..HeaderRows(s) : c[k] = s[k]
  <2>1. HeaderRows(s) \in Nat /\ HeaderRows(s) <= Len(b) /\ \A k \in 1..HeaderRows(s) : b[k] = s[k]
    BY HeaderRowsRange DEF FromRows
  <2>2. 1..HeaderRows(s) \subseteq 1..Len(b)
    BY <1>7, <2>1
  <2>. QED  BY <1>7, <2>1, <2>2
<1>. QED  BY <1>6, <1>8, <1>9 DEF FromRows

(* The list with the chunk of a table piece. *)
LEMMA TablesMore ==
    ASSUME lines \in Seq(LineRecord), nodes \in Seq(NodeRecord), node \in 1..Len(nodes),
           NEW cs \in Seq(ChunkRecord), TablesWhole(cs),
           NEW piece \in PieceType, KeepsHeader(node, piece.body),
           NEW ds, ds = cs \o TableChunks(piece)
    PROVE  TablesWhole(ds)
<1>1. CASE TableChunks(piece) = <<>>
  <2>1. ds = cs
    BY <1>1, NothingMore
  <2>. QED  BY <2>1
<1>2. ASSUME NEW c \in ChunkRecord, TableChunks(piece) = <<c>>, c.node = node, c.body = piece.body
      PROVE  TablesWhole(ds)
  <2>1. ds = cs \o <<c>>
    BY <1>2
  <2>2. \A j \in DOMAIN ds : (j \in DOMAIN cs /\ ds[j] = cs[j]) \/ ds[j] = c
    BY <2>1, OneMore
  <2>. QED  BY <1>2, <2>2 DEF TablesWhole
<1>. QED  BY <1>1, <1>2, TableChunksOf

LEMMA TextsTables ==
    ASSUME lines \in Seq(LineRecord), nodes \in Seq(NodeRecord), node \in 1..Len(nodes),
           NEW cs \in Seq(ChunkRecord), TablesWhole(cs),
           NEW piece \in PieceType, NEW i, NEW ds, ds = cs \o TextChunks(i, piece)
    PROVE  ds \in Seq(ChunkRecord) /\ TablesWhole(ds)
<1>1. CASE TextChunks(i, piece) = <<>>
  <2>1. ds = cs
    BY <1>1, NothingMore
  <2>. QED  BY <2>1
<1>2. ASSUME NEW c \in ChunkRecord, TextChunks(i, piece) = <<c>>, IsText(c)
      PROVE  ds \in Seq(ChunkRecord) /\ TablesWhole(ds)
  <2>1. ds = cs \o <<c>>
    BY <1>2
  <2>2. /\ \A j \in DOMAIN ds : (j \in DOMAIN cs /\ ds[j] = cs[j]) \/ ds[j] = c
        /\ ds \in Seq(ChunkRecord)
    BY <2>1, OneMore
  <2>. QED  BY <1>2, <2>2 DEF TablesWhole, IsText
<1>. QED  BY <1>1, <1>2, TextChunksOf

LEMMA StepBlocksTables == IInv /\ InOrder /\ BlocksInOrder /\ Tables => BlocksInOrder'
<1>. SUFFICES ASSUME IInv, InOrder, BlocksInOrder, Tables PROVE BlocksInOrder'
  OBVIOUS
<1>0. pc \in {"blocks", "split"}
  BY DEF Tables, ScanRow, ScanOther, SingleRow, TakeTable, StartSplit, SplitRow, SplitEnds,
         BlocksEnd, RunEnds
<1>1. Settled
  BY <1>0, IsSettled DEF Walking
<1>2. /\ at \in Nat /\ at > 0 /\ packed \in Nat
      /\ lines \in Seq(LineRecord) /\ nodes \in Seq(NodeRecord) /\ node \in 1..Len(nodes)
      /\ rows \in Seq(Positions) /\ chunks \in Seq(ChunkRecord)
      /\ cur \in PieceType /\ cur.body \in Seq(Positions) /\ cur.body \in Seq(Nat)
      /\ Body \in Seq(Positions)
  BY <1>1, BodyType DEF Settled, PieceType
<1>3. Rising(Body)
  <2>1. node \in DOMAIN nodes
    BY <1>2
  <2>. QED  BY <2>1 DEF InOrder, LinesRise, Body
<1>4. TablesWhole(chunks)
  BY DEF BlocksInOrder
<1>5. /\ lines' = lines /\ nodes' = nodes /\ node' = node
  BY DEF Tables, ScanRow, ScanOther, SingleRow, TakeTable, StartSplit, SplitRow, SplitEnds,
         BlocksEnd, RunEnds, walk
<1>6. ASSUME TablesWhole(chunks'),
             \/ /\ pc' = "blocks" /\ at' <= Len(Body) + 1
                /\ TableLineAt(at') \/ cur'.body # <<>> => RunAt(cur'.body, at')
             \/ /\ pc' = "split" /\ RunAt(rows', at') /\ ~TableLineAt(at')
                /\ HeaderRows(rows') <= packed' /\ packed' <= Len(rows')
                /\ FromRows(rows', packed', cur'.body)
             \/ pc' = "pack"
      PROVE  BlocksInOrder'
  BY <1>5, <1>6, BlocksFrame DEF BlocksInOrder
<1>7. EmptyPiece.body = <<>>
  BY EmptyPieceType
<1>8. AtTableLine <=> TableLineAt(at)
  BY DEF AtTableLine, TableLineAt
<1>9. pc = "blocks" => /\ at <= Len(Body) + 1
                       /\ TableLineAt(at) \/ cur.body # <<>> => RunAt(cur.body, at)
  BY DEF BlocksInOrder
<1>10. CASE ScanRow
  <2>1. /\ pc = "blocks" /\ pc' = "blocks" /\ TableLineAt(at) /\ at' = at + 1
        /\ chunks' = chunks /\ cur' = AddRow(cur, Body[at])
    BY <1>8, <1>10 DEF ScanRow
  <2>2. cur'.body = Append(cur.body, Body[at])
    BY <2>1 DEF AddRow
  <2>3. RunAt(cur'.body, at') /\ at' <= Len(Body) + 1
    <3>1. RunAt(cur.body, at)
      BY <1>9, <2>1
    <3>2. RunAt(Append(cur.body, Body[at]), at + 1) /\ at + 1 <= Len(Body) + 1
      BY <1>2, <2>1, <3>1, RunGrows
    <3>. QED  BY <2>1, <2>2, <3>2
  <2>. QED  BY <1>4, <1>6, <2>1, <2>3
<1>11. CASE ScanOther
  <2>1. /\ pc' = "blocks" /\ ~TableLineAt(at) /\ at' = at + 1 /\ at <= Len(Body)
        /\ chunks' = chunks /\ cur' = cur /\ cur.body = <<>> /\ pc = "blocks"
    BY <1>8, <1>11 DEF ScanOther, walk
  <2>2. at' \in Nat /\ at' > 0 /\ at' <= Len(Body) + 1 /\ at' - 1 = at
    BY <1>2, <2>1
  <2>3. RunAt(<<>>, at')
    BY <1>2, <2>1, <2>2, RunBegins
  <2>. QED  BY <1>4, <1>6, <2>1, <2>2, <2>3
<1>12. CASE SingleRow
  <2>1. /\ pc = "blocks" /\ pc' = "blocks" /\ ~TableLineAt(at) /\ at' = at
        /\ chunks' = chunks /\ cur'.body = <<>>
    BY <1>7, <1>8, <1>12 DEF SingleRow, RunEnds
  <2>. QED  BY <1>4, <1>6, <1>9, <2>1
<1>13. CASE TakeTable
  <2>1. /\ pc = "blocks" /\ pc' = "blocks" /\ ~TableLineAt(at) /\ at' = at
        /\ chunks' = chunks \o TableChunks(cur) /\ cur'.body = <<>>
        /\ Len(cur.body) > 1 /\ cur.body # <<>>
    BY <1>7, <1>8, <1>13 DEF TakeTable, RunEnds
  <2>2. RunAt(cur.body, at)
    BY <1>9, <2>1
  <2>3. FromRows(cur.body, Len(cur.body), cur.body)
    BY <1>2, <1>3, <2>1, <2>2, RunRises, WholeFromRows
  <2>4. KeepsHeader(node, cur.body)
    BY <1>2, <2>1, <2>2, <2>3, WholeBlock
  <2>5. TablesWhole(chunks')
    BY <1>2, <1>4, <2>1, <2>4, TablesMore
  <2>. QED  BY <1>6, <1>9, <2>1, <2>5
<1>14. CASE StartSplit
  <2>1. /\ pc = "blocks" /\ pc' = "split" /\ ~TableLineAt(at) /\ at' = at
        /\ chunks' = chunks /\ rows' = cur.body /\ Len(cur.body) > 1 /\ cur.body # <<>>
        /\ cur' = HeaderPiece(cur.body) /\ packed' = HeaderRows(cur.body)
    BY <1>8, <1>14 DEF StartSplit, RunEnds
  <2>. DEFINE s == cur.body
              h == HeaderPiece(s).body
  <2>2. s \in Seq(Positions) /\ Len(s) > 1 /\ RunAt(s, at) /\ rows' = s
        /\ packed' = HeaderRows(s) /\ cur'.body = h
    BY <1>2, <1>9, <2>1
  <2>. HIDE DEF s
  <2>3. Rising(s)
    BY <1>2, <1>3, <2>2, RunRises
  <2>4. /\ h \in Seq(Positions) /\ h \in Seq(Nat) /\ Len(h) = HeaderRows(s)
        /\ \A k \in 1..HeaderRows(s) : h[k] = s[k]
    <3>1. /\ h \in Seq(Positions) /\ Len(h) = HeaderRows(s)
          /\ \A k \in 1..HeaderRows(s) : h[k] = s[k]
      BY <1>2, <2>2, HeaderPieceRows
    <3>. HIDE DEF h
    <3>. QED  BY <3>1, PositionsAreNumbers
  <2>. HIDE DEF h
  <2>5. FromRows(s, HeaderRows(s), h)
    BY <2>2, <2>3, <2>4, HeaderFromRows
  <2>6. HeaderRows(rows') <= packed' /\ packed' <= Len(rows')
    <3>1. HeaderRows(s) <= HeaderRows(s) /\ HeaderRows(s) <= Len(s)
      BY <2>2, HeaderRowsRange
    <3>. QED  BY <2>2, <3>1
  <2>. QED  BY <1>4, <1>6, <2>1, <2>2, <2>5, <2>6
<1>15. ASSUME pc = "split"
       PROVE  /\ RunAt(rows, at) /\ ~TableLineAt(at) /\ Len(rows) > 1 /\ Rising(rows)
              /\ HeaderRows(rows) <= packed /\ packed <= Len(rows)
              /\ FromRows(rows, packed, cur.body)
  <2>1. /\ RunAt(rows, at) /\ ~TableLineAt(at)
        /\ HeaderRows(rows) <= packed /\ packed <= Len(rows)
        /\ FromRows(rows, packed, cur.body)
    BY <1>15 DEF BlocksInOrder
  <2>2. Len(rows) > 1
    BY <1>15 DEF IInv, Places
  <2>. QED  BY <1>2, <1>3, <2>1, <2>2, RunRises
<1>16. ASSUME pc = "split"
       PROVE  KeepsHeader(node, cur.body)
  <2>1. FromRows(rows, Len(rows), cur.body)
    <3>1. 1..packed \subseteq 1..Len(rows)
      BY <1>2, <1>15, <1>16
    <3>. QED  BY <1>15, <1>16, <3>1 DEF FromRows
  <2>. QED  BY <1>2, <1>15, <1>16, <2>1, WholeBlock
<1>17. CASE SplitRow
  <2>. DEFINE row == rows[packed + 1]
  <2>1. /\ pc = "split" /\ pc' = "split" /\ at' = at /\ rows' = rows
        /\ packed < Len(rows) /\ packed' = packed + 1
        /\ \/ chunks' = chunks \o TableChunks(cur) /\ cur' = AddRow(HeaderPiece(rows), row)
           \/ chunks' = chunks /\ cur' = AddRow(cur, row)
    BY <1>17 DEF SplitRow
  <2>2. HeaderRows(rows') <= packed' /\ packed' <= Len(rows')
    <3>1. HeaderRows(rows) <= packed + 1 /\ packed + 1 <= Len(rows)
      BY <1>2, <1>15, <2>1, HeaderRowsRange
    <3>. QED  BY <2>1, <3>1
  <2>3. TablesWhole(chunks')
    BY <1>2, <1>4, <1>16, <2>1, TablesMore
  <2>4. FromRows(rows', packed', cur'.body)
    <3>1. CASE cur' = AddRow(cur, row)
      <4>1. cur'.body = Append(cur.body, row)
        BY <3>1 DEF AddRow
      <4>2. packed <= packed
        BY <1>2
      <4>3. FromRows(rows, packed + 1, cur'.body)
        BY <1>2, <1>15, <2>1, <4>1, <4>2, NextFromRows
      <4>. QED  BY <2>1, <4>3
    <3>2. CASE cur' = AddRow(HeaderPiece(rows), row)
      <4>. DEFINE h == HeaderPiece(rows).body
      <4>1. cur'.body = Append(h, row)
        BY <3>2 DEF AddRow
      <4>2. /\ h \in Seq(Positions) /\ Len(h) = HeaderRows(rows)
            /\ \A k \in 1..HeaderRows(rows) : h[k] = rows[k]
        BY <1>2, <1>15, <2>1, HeaderPieceRows
      <4>. HIDE DEF h
      <4>3. h \in Seq(Nat)
        BY <4>2, PositionsAreNumbers
      <4>4. FromRows(rows, HeaderRows(rows), h)
        BY <1>2, <1>15, <2>1, <4>2, <4>3, HeaderFromRows
      <4>5. HeaderRows(rows) \in Nat
        BY HeaderRowsRange
      <4>6. FromRows(rows, packed + 1, cur'.body)
        BY <1>2, <1>15, <2>1, <4>1, <4>3, <4>4, <4>5, NextFromRows
      <4>. QED  BY <2>1, <4>6
    <3>. QED  BY <2>1, <3>1, <3>2
  <2>. QED  BY <1>6, <1>15, <2>1, <2>2, <2>3, <2>4
<1>18. CASE SplitEnds
  <2>1. /\ pc = "split" /\ pc' = "blocks" /\ at' = at
        /\ chunks' = chunks \o TableChunks(cur) /\ cur'.body = <<>>
    BY <1>7, <1>18 DEF SplitEnds
  <2>2. TablesWhole(chunks')
    BY <1>2, <1>4, <1>16, <2>1, TablesMore
  <2>3. at <= Len(Body) + 1
    BY <1>15, <2>1 DEF RunAt
  <2>. QED  BY <1>6, <1>15, <2>1, <2>2, <2>3
<1>19. CASE BlocksEnd
  BY <1>4, <1>6, <1>19 DEF BlocksEnd, walk
<1>. QED  BY <1>10, <1>11, <1>12, <1>13, <1>14, <1>17, <1>18, <1>19 DEF Tables

LEMMA StepBlocksPack == IInv /\ BlocksInOrder /\ Pack => BlocksInOrder'
<1>. SUFFICES ASSUME IInv, BlocksInOrder, Pack PROVE BlocksInOrder'
  OBVIOUS
<1>0. pc = "pack"
  BY DEF Pack, SkipNoSentence, PackOversized, PackOverflow, PackSentence, PackEnds, NextSentence
<1>1. /\ nodes \in Seq(NodeRecord) /\ node \in 1..Len(nodes) /\ lines \in Seq(LineRecord)
      /\ chunks \in Seq(ChunkRecord) /\ cur \in PieceType
  BY <1>0, IsSettled DEF Settled, Walking
<1>2. TablesWhole(chunks)
  BY DEF BlocksInOrder
<1>. DEFINE full == chunks \o TextChunks(packed, cur)
<1>3. full \in Seq(ChunkRecord) /\ TablesWhole(full)
  <2>1. full = chunks \o TextChunks(packed, cur)
    OBVIOUS
  <2>. HIDE DEF full
  <2>. QED  BY <1>1, <1>2, <2>1, TextsTables
<1>. HIDE DEF full
<1>4. CASE SkipNoSentence \/ PackSentence
  <2>1. lines' = lines /\ nodes' = nodes /\ chunks' = chunks /\ pc' = "pack"
    BY <1>4 DEF SkipNoSentence, PackSentence, NextSentence, walk
  <2>. QED  BY <1>2, <2>1, BlocksFrame DEF BlocksInOrder
<1>5. CASE PackOversized
  <2>1. PICK p \in 1..Len(lines) :
          /\ lines' = lines /\ nodes' = nodes /\ pc' = "pack"
          /\ chunks' = chunks \o (IF cur.body = <<>> THEN <<>> ELSE TextChunks(packed, cur))
                         \o TextChunks(IF cur.body = <<>> THEN packed ELSE packed + 1, Piece(p))
    BY <1>5 DEF PackOversized, NextSentence
  <2>2. Piece(p) \in PieceType
    BY <1>1, OneSentencePiece DEF Positions
  <2>. DEFINE es == IF cur.body = <<>> THEN chunks ELSE full
              n == IF cur.body = <<>> THEN packed ELSE packed + 1
  <2>3. es \in Seq(ChunkRecord) /\ TablesWhole(es)
    BY <1>1, <1>2, <1>3
  <2>4. chunks' = es \o TextChunks(n, Piece(p))
    <3>1. chunks \o <<>> = chunks
      BY <1>1, NothingMore
    <3>. QED  BY <2>1, <3>1 DEF full, es, n
  <2>. HIDE DEF es, n
  <2>5. TablesWhole(chunks')
    BY <1>1, <2>2, <2>3, <2>4, TextsTables
  <2>. QED  BY <2>1, <2>5, BlocksFrame DEF BlocksInOrder
<1>6. CASE PackOverflow
  <2>1. lines' = lines /\ nodes' = nodes /\ chunks' = full /\ pc' = "pack"
    BY <1>6 DEF PackOverflow, NextSentence, full
  <2>. QED  BY <1>3, <2>1, BlocksFrame DEF BlocksInOrder
<1>7. CASE PackEnds
  <2>1. /\ lines' = lines /\ nodes' = nodes /\ chunks' \in {chunks, full} /\ pc' \in {"blocks", "done"}
        /\ at' = 1 /\ cur' = EmptyPiece /\ node' \in {node, node + 1}
        /\ pc' = "blocks" => node' \in 1..Len(nodes)
    <3>1. /\ lines' = lines /\ nodes' = nodes /\ chunks' \in {chunks, full}
          /\ at' = 1 /\ cur' = EmptyPiece
          /\ \/ node < Len(nodes) /\ node' = node + 1 /\ pc' = "blocks"
             \/ node' = node /\ pc' = "done"
      BY <1>7 DEF PackEnds, full
    <3>2. node < Len(nodes) => node + 1 \in 1..Len(nodes)
      BY <1>1
    <3>. QED  BY <3>1, <3>2
  <2>2. TablesWhole(chunks)'
    BY <1>2, <1>3, <2>1, BlocksFrame
  <2>3. ASSUME pc' = "blocks"
        PROVE  at' <= Len(Body') + 1 /\ cur'.body = <<>> /\ RunAt(<<>>, 1)'
    <3>1. Body' \in Seq(Positions)
      <4>1. node' \in 1..Len(nodes)
        BY <2>1, <2>3
      <4>2. nodes[node'] \in NodeRecord
        BY <1>1, <4>1
      <4>. QED  BY <2>1, <4>2 DEF Body, NodeRecord
    <3>2. Len(Body') \in Nat
      BY <3>1
    <3>3. Len(<<>>) = 0 /\ DOMAIN <<>> = {}
      OBVIOUS
    <3>. QED  BY <2>1, <3>2, <3>3, EmptyPieceType DEF RunAt
  <2>4. pc' = "blocks" => RunAt(cur.body, at)'
    BY <2>1, <2>3, EmptyPieceType DEF RunAt
  <2>. QED  BY <2>1, <2>2, <2>3, <2>4 DEF BlocksInOrder
<1>. QED  BY <1>4, <1>5, <1>6, <1>7 DEF Pack

LEMMA StepBlocks ==
    IInv /\ InOrder /\ PackInOrder /\ BlocksInOrder /\ [Next]_vars => BlocksInOrder'
<1>. SUFFICES ASSUME IInv, InOrder, PackInOrder, BlocksInOrder, [Next]_vars
              PROVE  BlocksInOrder'
  OBVIOUS
<1>1. ASSUME chunks' = <<>>, pc' \notin {"blocks", "split"}
      PROVE  BlocksInOrder'
  BY <1>1 DEF BlocksInOrder, TablesWhole
<1>2. CASE Extract
  <2>1. chunks = <<>>
    BY <1>2 DEF Extract, ReadPage, FitzEnds, FitzFails, PlumberEnds, InjectTable, TablesEnd,
                ReadText, IInv, Places, Extracting
  <2>2. chunks' = chunks /\ pc' \notin {"blocks", "split"}
    BY <1>2 DEF Extract, ReadPage, FitzEnds, FitzFails, PlumberEnds, InjectTable, TablesEnd,
                ReadText, walk
  <2>. QED  BY <1>1, <2>1, <2>2
<1>3. CASE MergePage \/ MergeEnds \/ PopSection \/ ParseHeading \/ ParseBody
  <2>1. chunks = <<>>
    BY <1>3 DEF MergePage, MergeEnds, PopSection, ParseHeading, ParseBody, IInv, Places,
                Extracting, PackInOrder
  <2>2. chunks' = chunks /\ pc' \notin {"blocks", "split"}
    BY <1>3 DEF MergePage, MergeEnds, PopSection, ParseHeading, ParseBody, walk
  <2>. QED  BY <1>1, <2>1, <2>2
<1>4. CASE ParseEnds
  <2>1. /\ chunks' = <<>> /\ pc' = "blocks" /\ at' = 1 /\ node' = 1 /\ nodes' = nodes
        /\ lines' = lines /\ cur' = EmptyPiece
    BY <1>4 DEF ParseEnds, PackInOrder, IInv, Places
  <2>2. Body' \in Seq(Positions)
    <3>1. 1 \in DOMAIN nodes
      BY <1>4 DEF ParseEnds, IInv, Places, CodeTypes
    <3>. QED  BY <2>1, <3>1, LineNumbers DEF Body
  <2>3. Len(Body') \in Nat /\ Len(<<>>) = 0 /\ DOMAIN <<>> = {}
    BY <2>2
  <2>4. at' <= Len(Body') + 1 /\ RunAt(cur.body, at)'
    BY <2>1, <2>3, EmptyPieceType DEF RunAt
  <2>5. TablesWhole(chunks)'
    BY <2>1 DEF TablesWhole
  <2>. QED  BY <2>1, <2>4, <2>5 DEF BlocksInOrder
<1>5. CASE Tables
  BY <1>5, StepBlocksTables
<1>6. CASE Pack
  BY <1>6, StepBlocksPack
<1>7. CASE UNCHANGED vars
  <2>1. /\ lines' = lines /\ nodes' = nodes /\ node' = node /\ chunks' = chunks /\ cur' = cur
        /\ at' = at /\ pc' = pc /\ rows' = rows /\ packed' = packed
    BY <1>7 DEF vars
  <2>2. Len(Body)' = Len(Body)
    BY <2>1 DEF Body
  <2>3. /\ TablesWhole(chunks)' <=> TablesWhole(chunks)
        /\ TableLineAt(at)' <=> TableLineAt(at)
        /\ RunAt(cur.body, at)' <=> RunAt(cur.body, at)
        /\ RunAt(rows, at)' <=> RunAt(rows, at)
        /\ HeaderRows(rows)' = HeaderRows(rows)
        /\ FromRows(rows, packed, cur.body)' <=> FromRows(rows, packed, cur.body)
    BY <2>1, BlocksFrame
  <2>. QED  BY <2>1, <2>2, <2>3 DEF BlocksInOrder
<1>. QED  BY <1>2, <1>3, <1>4, <1>5, <1>6, <1>7 DEF Next, Parse, Done

LEMMA Blocks == Spec => [](IInv /\ InOrder /\ PackInOrder /\ BlocksInOrder)
<1>1. Init => BlocksInOrder
  <2>1. Init => chunks = <<>> /\ pc \notin {"blocks", "split"}
    BY DEF Init
  <2>. QED  BY <2>1 DEF BlocksInOrder, TablesWhole
<1>. QED  BY <1>1, PackOrder, StepBlocks, PTL DEF Spec

(* chunker.py:458-481: for every file, a table chunk holds rows of one     *)
(* block in their order, and each piece of a block that was split begins   *)
(* with the block's header rows.                                           *)
THEOREM PiecesKeepTheHeader == Spec => []TablePiecesKeepHeader
<1>1. BlocksInOrder => TablePiecesKeepHeader
  BY DEF BlocksInOrder, TablesWhole, KeepsHeader, TablePiecesKeepHeader
<1>. QED  BY <1>1, Blocks, PTL

-----------------------------------------------------------------------------
(* What is lost                                                            *)

KeptIn(cs, p) == \E k \in DOMAIN cs : Holds(cs[k], p)
Holding(b, p) == \E k \in DOMAIN b : b[k] = p

(* Position p was dropped with a small piece that had no room for more.    *)
RowDropped(ds, n, p) ==
    \E d \in ds : Holds(d, p) /\ d.node = n /\ TableTooSmall(d) /\ NoRoomForRow(d)
TextDropped(ds, n, p) ==
    \E d \in ds : Holds(d, p) /\ d.node = n /\ TextTooSmall(n, d) /\ NoRoomForSentence(d)

(* A row of a block, a sentence, is in a chunk or was dropped. *)
RowSafe(cs, ds, n, i) ==
    InBlock(nodes[n].lines, i) =>
        KeptIn(cs, nodes[n].lines[i]) \/ RowDropped(ds, n, nodes[n].lines[i])

SentenceSafe(cs, ds, n, i) ==
    IsSentence(nodes[n].lines, i) =>
        KeptIn(cs, nodes[n].lines[i]) \/ TextDropped(ds, n, nodes[n].lines[i])

SectionSafe(cs, ds, n) ==
    \A i \in DOMAIN nodes[n].lines : RowSafe(cs, ds, n, i) /\ SentenceSafe(cs, ds, n, i)

(* Before place a the rows are safe; of the block being split the first m  *)
(* are, or they are in the piece being filled; and so are the sentences    *)
(* before place a when the body is packed.                                 *)
RowsSafe(cs, ds, n, a) == \A i \in DOMAIN nodes[n].lines : i < a => RowSafe(cs, ds, n, i)
DealtSafe(cs, ds, s, m, b) ==
    \A k \in 1..m : KeptIn(cs, s[k]) \/ RowDropped(ds, node, s[k]) \/ Holding(b, s[k])
PackSafe(cs, ds, n, a, b) ==
    \A i \in DOMAIN nodes[n].lines :
        /\ RowSafe(cs, ds, n, i)
        /\ i < a => SentenceSafe(cs, ds, n, i) \/ Holding(b, nodes[n].lines[i])

NothingLost ==
    /\ \A n \in DOMAIN nodes :
          pc = "done" \/ (Walking /\ n < node) => SectionSafe(chunks, dropped, n)
    /\ pc = "blocks" => RowsSafe(chunks, dropped, node, at - Len(cur.body))
    /\ pc = "split" => /\ RowsSafe(chunks, dropped, node, at - Len(rows))
                       /\ DealtSafe(chunks, dropped, rows, packed, cur.body)
                       /\ cur.body[Len(cur.body)] = rows[packed]
    /\ pc = "pack" => PackSafe(chunks, dropped, node, at, cur.body)

LEMMA LossFrame ==
    ASSUME lines' = lines, nodes' = nodes
    PROVE  /\ \A n : SectionSafe(chunks, dropped, n)' <=> SectionSafe(chunks', dropped', n)
           /\ RowsSafe(chunks, dropped, node, at - Len(cur.body))'
                 <=> RowsSafe(chunks', dropped', node', at' - Len(cur'.body))
           /\ RowsSafe(chunks, dropped, node, at - Len(rows))'
                 <=> RowsSafe(chunks', dropped', node', at' - Len(rows'))
           /\ node' = node => (DealtSafe(chunks, dropped, rows, packed, cur.body)'
                                  <=> DealtSafe(chunks', dropped', rows', packed', cur'.body))
           /\ PackSafe(chunks, dropped, node, at, cur.body)'
                 <=> PackSafe(chunks', dropped', node', at', cur'.body)
<1>1. ASSUME NEW s, NEW i
      PROVE  /\ InBlock(s, i)' <=> InBlock(s, i)
             /\ IsSentence(s, i)' <=> IsSentence(s, i)
  BY DEF InBlock, IsSentence
<1>2. ASSUME NEW d
      PROVE  NoRoomForRow(d)' <=> NoRoomForRow(d)
  BY DEF NoRoomForRow, Words
<1>3. ASSUME NEW d
      PROVE  NoRoomForSentence(d)' <=> NoRoomForSentence(d)
  <2>. DEFINE body == nodes[d.node].lines
              behind == {j \in DOMAIN body : IsSentence(body, j) /\ d.body[Len(d.body)] < body[j]}
  <2>1. body' = body
    OBVIOUS
  <2>2. behind' = behind
    BY <1>1
  <2>3. \A j : (ApproxTokens(d.words + Words(body[j])))' = ApproxTokens(d.words + Words(body[j]))
    BY DEF Words
  <2>4. NoRoomForSentence(d) <=>
           \A j \in behind : (\A m \in behind : body[j] <= body[m]) =>
              ApproxTokens(d.words + Words(body[j])) >= ChunkSize
    BY DEF NoRoomForSentence
  <2>5. NoRoomForSentence(d)' <=>
           (\A j \in behind : (\A m \in behind : body[j] <= body[m]) =>
              ApproxTokens(d.words + Words(body[j])) >= ChunkSize)'
    BY DEF NoRoomForSentence
  <2>6. (\A j \in behind : (\A m \in behind : body[j] <= body[m]) =>
            ApproxTokens(d.words + Words(body[j])) >= ChunkSize)' <=>
        (\A j \in behind : (\A m \in behind : body[j] <= body[m]) =>
            ApproxTokens(d.words + Words(body[j])) >= ChunkSize)
    <3>. HIDE DEF body, behind
    <3>. QED  BY <2>1, <2>2, <2>3
  <2>. QED  BY <2>4, <2>5, <2>6
<1>4. ASSUME NEW n, NEW d
      PROVE  TextTooSmall(n, d)' <=> TextTooSmall(n, d)
  BY DEF TextTooSmall, PrefixedWords, TitleWords, Words
<1>5. ASSUME NEW ds, NEW n, NEW p
      PROVE  /\ RowDropped(ds, n, p)' <=> RowDropped(ds, n, p)
             /\ TextDropped(ds, n, p)' <=> TextDropped(ds, n, p)
  BY <1>2, <1>3, <1>4 DEF RowDropped, TextDropped
<1>6. ASSUME NEW cs, NEW ds, NEW n, NEW i
      PROVE  /\ RowSafe(cs, ds, n, i)' <=> RowSafe(cs, ds, n, i)
             /\ SentenceSafe(cs, ds, n, i)' <=> SentenceSafe(cs, ds, n, i)
  BY <1>1, <1>5 DEF RowSafe, SentenceSafe
<1>7. \A n : SectionSafe(chunks, dropped, n)' <=> SectionSafe(chunks', dropped', n)
  BY <1>6 DEF SectionSafe
<1>8. node' = node => (DealtSafe(chunks, dropped, rows, packed, cur.body)'
                          <=> DealtSafe(chunks', dropped', rows', packed', cur'.body))
  BY <1>5 DEF DealtSafe
<1>9. PackSafe(chunks, dropped, node, at, cur.body)'
         <=> PackSafe(chunks', dropped', node', at', cur'.body)
  BY <1>6 DEF PackSafe
<1>10. /\ RowsSafe(chunks, dropped, node, at - Len(cur.body))'
             <=> RowsSafe(chunks', dropped', node', at' - Len(cur'.body))
       /\ RowsSafe(chunks, dropped, node, at - Len(rows))'
             <=> RowsSafe(chunks', dropped', node', at' - Len(rows'))
  BY <1>6 DEF RowsSafe
<1>. QED  BY <1>7, <1>8, <1>9, <1>10

(* Later lists keep what earlier ones kept. *)
Grows(cs, ds, es, fs) == (\A p : KeptIn(cs, p) => KeptIn(es, p)) /\ ds \subseteq fs

LEMMA SafeStays ==
    ASSUME NEW cs, NEW ds, NEW es, NEW fs, Grows(cs, ds, es, fs)
    PROVE  /\ \A n, p : RowDropped(ds, n, p) => RowDropped(fs, n, p)
           /\ \A n, p : TextDropped(ds, n, p) => TextDropped(fs, n, p)
           /\ \A n, i : RowSafe(cs, ds, n, i) => RowSafe(es, fs, n, i)
           /\ \A n, i : SentenceSafe(cs, ds, n, i) => SentenceSafe(es, fs, n, i)
           /\ \A n : SectionSafe(cs, ds, n) => SectionSafe(es, fs, n)
           /\ \A n, a : RowsSafe(cs, ds, n, a) => RowsSafe(es, fs, n, a)
<1>1. /\ \A n, p : RowDropped(ds, n, p) => RowDropped(fs, n, p)
      /\ \A n, p : TextDropped(ds, n, p) => TextDropped(fs, n, p)
  BY DEF Grows, RowDropped, TextDropped
<1>2. /\ \A n, i : RowSafe(cs, ds, n, i) => RowSafe(es, fs, n, i)
      /\ \A n, i : SentenceSafe(cs, ds, n, i) => SentenceSafe(es, fs, n, i)
  BY <1>1 DEF Grows, RowSafe, SentenceSafe
<1>. QED  BY <1>1, <1>2 DEF SectionSafe, RowsSafe

LEMMA NothingGrows == \A cs, ds : Grows(cs, ds, cs, ds)
BY DEF Grows

(* approx_tokens grows with the words. *)
LEMMA Monotone ==
    ASSUME NEW v \in Nat, NEW w \in Nat, v <= w
    PROVE  ApproxTokens(v) <= ApproxTokens(w)
<1>. DEFINE a == ApproxTokens(v)
            b == ApproxTokens(w)
<1>1. a \in Nat /\ b \in Nat /\ 10 * a <= 13 * v /\ 13 * w <= 10 * b + 9
  BY Rounding
<1>. HIDE DEF a, b
<1>2. a <= b
  BY <1>1
<1>. QED  BY <1>2 DEF a, b

(* What the record of a dropped piece says of it. *)
LEMMA DroppedFields ==
    ASSUME NEW piece
    PROVE  /\ Dropped(piece).node = node
           /\ Dropped(piece).body = piece.body
           /\ Dropped(piece).words = piece.words
           /\ TableTooSmall(Dropped(piece)) <=> TableTooSmall(piece)
           /\ TextTooSmall(node, Dropped(piece)) <=> TextTooSmall(node, piece)
BY DEF Dropped, TableTooSmall, TextTooSmall

(* A table piece whose last row is line j of the body has no room if line  *)
(* j + 1 is no row or does not fit.                                        *)
LEMMA NoRoomBehindRow ==
    ASSUME Body \in Seq(Positions), Rising(Body), NEW piece, NEW j \in DOMAIN Body,
           piece.body[Len(piece.body)] = Body[j],
           j < Len(Body) /\ IsTableLine(lines[Body[j + 1]].line) =>
               ApproxTokens(piece.words + Words(Body[j + 1])) > MaxTableTokens
    PROVE  NoRoomForRow(Dropped(piece))
<1>1. \A k \in DOMAIN Body : k \in Nat /\ Body[k] \in Nat
  BY DEF Positions
<1>2. ASSUME NEW k \in 1..Len(Body) - 1, Body[k] = Body[j]
      PROVE  k = j
  <2>1. k \in DOMAIN Body
    OBVIOUS
  <2>. QED  BY <1>1, <1>2, <2>1 DEF Rising
<1>3. Len(Body) \in Nat
  OBVIOUS
<1>4. ASSUME NEW k \in 1..Len(Body) - 1,
             Body[k] = piece.body[Len(piece.body)], IsTableLine(lines[Body[k + 1]].line)
      PROVE  ApproxTokens(piece.words + Words(Body[k + 1])) > MaxTableTokens
  <2>1. k = j /\ k < Len(Body)
    BY <1>2, <1>3, <1>4
  <2>. QED  BY <1>4, <2>1
<1>. QED  BY <1>4, DroppedFields DEF NoRoomForRow, Body

(* A piece of text whose last sentence is the last one before the sentence *)
(* at hand has no room if that does not fit.                               *)
LEMMA NoRoomAtSentence ==
    ASSUME NEW p, AtSentence(p), NEW piece, NEW q \in Nat, q = piece.body[Len(piece.body)], q < p,
           \A m \in DOMAIN Body : m < at /\ IsSentence(Body, m) => Body[m] <= q,
           ApproxTokens(piece.words + Words(p)) >= ChunkSize
    PROVE  NoRoomForSentence(Dropped(piece))
<1>1. /\ at \in DOMAIN Body /\ at \in Nat /\ p = Body[at] /\ IsSentence(Body, at)
      /\ p \in Nat
      /\ \A m \in DOMAIN Body : m \in Nat /\ Body[m] \in Nat /\ (at < m => p < Body[m])
  BY AtSentenceFacts DEF AtSentence
<1>. DEFINE behind == {j \in DOMAIN Body : IsSentence(Body, j) /\ q < Body[j]}
<1>2. at \in behind
  BY <1>1
<1>3. ASSUME NEW j \in behind, \A m \in behind : Body[j] <= Body[m]
      PROVE  ApproxTokens(piece.words + Words(Body[j])) >= ChunkSize
  <2>1. Body[j] <= p
    BY <1>1, <1>2, <1>3
  <2>2. /\ j \in DOMAIN Body /\ j \in Nat /\ Body[j] \in Nat /\ q < Body[j]
        /\ j < at => Body[j] <= q
    BY <1>1
  <2>3. ~(j < at)
    BY <2>2
  <2>4. ~(at < j)
    BY <1>1, <2>1, <2>2
  <2>5. j = at
    BY <1>1, <2>2, <2>3, <2>4
  <2>. QED  BY <1>1, <2>5
<1>4. behind = {j \in DOMAIN nodes[Dropped(piece).node].lines :
                   /\ IsSentence(nodes[Dropped(piece).node].lines, j)
                   /\ Dropped(piece).body[Len(Dropped(piece).body)]
                         < nodes[Dropped(piece).node].lines[j]}
  BY DroppedFields DEF Body
<1>. HIDE DEF behind
<1>. QED  BY <1>3, <1>4, DroppedFields DEF NoRoomForSentence, Body

(* A sentence beyond the budget has no room for any other. *)
LEMMA NoRoomBesideOversized ==
    ASSUME lines \in Seq(LineRecord), Body \in Seq(Positions), NEW p \in Positions, Oversized(p)
    PROVE  NoRoomForSentence(Dropped(Piece(p)))
<1>1. Piece(p).words = Words(p)
  BY OneSentencePiece
<1>2. ASSUME NEW j \in DOMAIN Body
      PROVE  ApproxTokens(Words(p) + Words(Body[j])) >= ChunkSize
  <2>. DEFINE v == Words(p)
              w == Words(Body[j])
              a == ApproxTokens(v)
              b == ApproxTokens(v + w)
  <2>1. v \in Nat /\ w \in Nat
    BY WordsType
  <2>2. a >= ChunkSize
    BY DEF Oversized
  <2>. HIDE DEF v, w
  <2>3. v + w \in Nat /\ v <= v + w
    BY <2>1
  <2>4. a <= b /\ a \in Nat /\ b \in Nat
    BY <2>1, <2>3, Monotone, Rounding
  <2>5. ChunkSize \in Nat
    BY Constants
  <2>. HIDE DEF a, b
  <2>6. b >= ChunkSize
    BY <2>2, <2>4, <2>5
  <2>. QED  BY <2>6 DEF b, v, w
<1>. QED  BY <1>1, <1>2, DroppedFields DEF NoRoomForSentence, Body

(* At the end of the body nothing is behind a piece that continues it. *)
LEMMA NoSentenceLeft ==
    ASSUME Body \in Seq(Positions), at = Len(Body) + 1, NEW piece \in PieceType,
           piece.body \in Seq(Positions), piece.body # <<>>, NEW cs, Continues(cs, piece.body, at)
    PROVE  NoRoomForSentence(Dropped(piece))
<1>. DEFINE q == piece.body[Len(piece.body)]
<1>1. q \in Nat /\ \A m \in DOMAIN Body : Body[m] \in Nat /\ m < at
  BY DEF Positions
<1>2. \A m \in DOMAIN Body : IsSentence(Body, m) => Body[m] <= q
  BY <1>1 DEF Continues
<1>. HIDE DEF q
<1>3. \A m \in DOMAIN Body : ~(IsSentence(Body, m) /\ q < Body[m])
  BY <1>1, <1>2
<1>. QED  BY <1>3, DroppedFields DEF NoRoomForSentence, Body, q

(* A sentence that overflows the piece overflows its words as well: the    *)
(* running count is never ahead of them.                                   *)
LEMMA OverflowOfWords ==
    ASSUME lines \in Seq(LineRecord), cur \in PieceType, PieceFits, NEW p \in Positions,
           Overflows(p) \/ Oversized(p)
    PROVE  ApproxTokens(cur.words + Words(p)) >= ChunkSize
<1>. DEFINE u == cur.words
            v == cur.tokens
            w == Words(p)
            t == ApproxTokens(w)
            a == ApproxTokens(u + w)
<1>1. u \in Nat /\ v \in Nat /\ w \in Nat /\ 10 * v <= 13 * u
  BY WordsType DEF PieceType, PieceFits
<1>2. v + t > ChunkSize \/ t >= ChunkSize
  BY DEF Overflows, Oversized
<1>. HIDE DEF u, v, w
<1>3. u + w \in Nat
  BY <1>1
<1>4. t \in Nat /\ 10 * t <= 13 * w /\ a \in Nat /\ 13 * (u + w) <= 10 * a + 9
  BY <1>1, <1>3, Rounding
<1>5. ChunkSize \in Nat
  BY Constants
<1>. HIDE DEF t, a
<1>6. 10 * (v + t) <= 13 * (u + w) /\ 10 * t <= 13 * (u + w)
  BY <1>1, <1>4
<1>7. a >= ChunkSize
  BY <1>1, <1>2, <1>3, <1>4, <1>5, <1>6
<1>. QED  BY <1>7 DEF a, u, w

(* A piece that is completed is in a chunk or is recorded as dropped. *)
LEMMA Completes ==
    ASSUME NEW cs \in Seq(ChunkRecord), NEW c \in ChunkRecord, NEW es, es = cs \o <<c>>
    PROVE  /\ es \in Seq(ChunkRecord)
           /\ \A p : KeptIn(cs, p) => KeptIn(es, p)
           /\ \A p : Holding(c.body, p) => KeptIn(es, p)
<1>1. /\ es \in Seq(ChunkRecord)
      /\ \A k \in DOMAIN cs : k \in DOMAIN es /\ es[k] = cs[k]
      /\ Len(cs) + 1 \in DOMAIN es /\ es[Len(cs) + 1] = c
  BY OneMore
<1>2. \A p : KeptIn(cs, p) => KeptIn(es, p)
  BY <1>1 DEF KeptIn
<1>3. \A p : Holding(c.body, p) => KeptIn(es, p)
  BY <1>1 DEF Holding, KeptIn, Holds
<1>. QED  BY <1>1, <1>2, <1>3

LEMMA TextCompletes ==
    ASSUME lines \in Seq(LineRecord), nodes \in Seq(NodeRecord), node \in 1..Len(nodes),
           NEW cs \in Seq(ChunkRecord), NEW ds, NEW i, NEW piece \in PieceType,
           NoRoomForSentence(Dropped(piece)),
           NEW es, es = cs \o TextChunks(i, piece), NEW fs, fs = ds \cup DroppedText(piece)
    PROVE  /\ es \in Seq(ChunkRecord)
           /\ Grows(cs, ds, es, fs)
           /\ \A p : Holding(piece.body, p) => KeptIn(es, p) \/ TextDropped(fs, node, p)
<1>1. ds \subseteq fs
  OBVIOUS
<1>2. CASE /\ TextChunks(i, piece) = <<>>
           /\ TextTooSmall(node, piece)
  <2>1. es = cs
    BY <1>2, NothingMore
  <2>2. Dropped(piece) \in fs
    BY <1>2 DEF DroppedText
  <2>3. ASSUME NEW p, Holding(piece.body, p)
        PROVE  TextDropped(fs, node, p)
    <3>1. Holds(Dropped(piece), p)
      BY <2>3, DroppedFields DEF Holds, Holding
    <3>. QED  BY <1>2, <2>2, <3>1, DroppedFields DEF TextDropped
  <2>. QED  BY <1>1, <2>1, <2>3 DEF Grows
<1>3. ASSUME NEW c \in ChunkRecord, TextChunks(i, piece) = <<c>>, c.body = piece.body
      PROVE  /\ es \in Seq(ChunkRecord)
             /\ Grows(cs, ds, es, fs)
             /\ \A p : Holding(piece.body, p) => KeptIn(es, p)
  <2>1. es = cs \o <<c>>
    BY <1>3
  <2>. QED  BY <1>1, <1>3, <2>1, Completes DEF Grows
<1>. QED  BY <1>2, <1>3, TextChunksOf

LEMMA TableCompletes ==
    ASSUME lines \in Seq(LineRecord), nodes \in Seq(NodeRecord), node \in 1..Len(nodes),
           NEW cs \in Seq(ChunkRecord), NEW ds, NEW piece \in PieceType,
           NoRoomForRow(Dropped(piece)),
           NEW es, es = cs \o TableChunks(piece), NEW fs, fs = ds \cup DroppedTable(piece)
    PROVE  /\ es \in Seq(ChunkRecord)
           /\ Grows(cs, ds, es, fs)
           /\ \A p : Holding(piece.body, p) => KeptIn(es, p) \/ RowDropped(fs, node, p)
<1>1. ds \subseteq fs
  OBVIOUS
<1>2. CASE TableChunks(piece) = <<>> /\ TableTooSmall(piece)
  <2>1. es = cs
    BY <1>2, NothingMore
  <2>2. Dropped(piece) \in fs
    BY <1>2 DEF DroppedTable
  <2>3. ASSUME NEW p, Holding(piece.body, p)
        PROVE  RowDropped(fs, node, p)
    <3>1. Holds(Dropped(piece), p)
      BY <2>3, DroppedFields DEF Holds, Holding
    <3>. QED  BY <1>2, <2>2, <3>1, DroppedFields DEF RowDropped
  <2>. QED  BY <1>1, <2>1, <2>3 DEF Grows
<1>3. ASSUME NEW c \in ChunkRecord, TableChunks(piece) = <<c>>, c.body = piece.body
      PROVE  /\ es \in Seq(ChunkRecord)
             /\ Grows(cs, ds, es, fs)
             /\ \A p : Holding(piece.body, p) => KeptIn(es, p)
  <2>1. es = cs \o <<c>>
    BY <1>3
  <2>. QED  BY <1>1, <1>3, <2>1, Completes DEF Grows
<1>. QED  BY <1>2, <1>3, TableChunksOf

(* A place put behind a piece is in it, and so is what was. *)
LEMMA HoldingMore ==
    ASSUME NEW b \in Seq(Positions), NEW p \in Positions, NEW c, c = Append(b, p)
    PROVE  Holding(c, p) /\ \A q : Holding(b, q) => Holding(c, q)
<1>1. /\ \A k \in 1..Len(b) : c[k] = b[k]
      /\ c[Len(b) + 1] = p
      /\ c \in Seq(Positions) /\ Len(c) = Len(b) + 1
      /\ DOMAIN b = 1..Len(b) /\ Len(b) \in Nat
  BY Appended, AppendedEnd
<1>2. DOMAIN c = 1..Len(b) + 1 /\ Len(b) + 1 \in 1..Len(b) + 1
  BY <1>1
<1>. QED  BY <1>1, <1>2 DEF Holding

(* A run whose rows are all accounted for leaves nothing behind. *)
LEMMA RunAccounted ==
    ASSUME Body \in Seq(Positions), NEW s \in Seq(Positions), NEW a \in Nat, RunAt(s, a),
           NEW cs, NEW ds, RowsSafe(cs, ds, node, a - Len(s)),
           \A k \in DOMAIN s : KeptIn(cs, s[k]) \/ RowDropped(ds, node, s[k])
    PROVE  RowsSafe(cs, ds, node, a)
<1>1. /\ Len(s) \in Nat /\ DOMAIN s = 1..Len(s) /\ DOMAIN Body \subseteq Nat
  OBVIOUS
<1>2. \A k \in DOMAIN s : s[k] = Body[a - Len(s) - 1 + k]
  BY DEF RunAt
<1>3. Len(s) < a
  BY DEF RunAt
<1>4. ASSUME NEW i \in DOMAIN Body, i < a
      PROVE  RowSafe(cs, ds, node, i)
  <2>1. CASE i < a - Len(s)
    BY <1>4, <2>1 DEF RowsSafe, Body
  <2>2. CASE ~(i < a - Len(s))
    <3>. DEFINE k == i - (a - Len(s)) + 1
    <3>1. k \in DOMAIN s /\ a - Len(s) - 1 + k = i
      BY <1>1, <1>3, <1>4, <2>2
    <3>2. s[k] = Body[i]
      BY <1>2, <3>1
    <3>3. KeptIn(cs, s[k]) \/ RowDropped(ds, node, s[k])
      BY <3>1
    <3>. HIDE DEF k
    <3>. QED  BY <3>2, <3>3 DEF RowSafe, Body
  <2>. QED  BY <2>1, <2>2
<1>. QED  BY <1>4 DEF RowsSafe, Body

(* A single table line is no block. *)
LEMMA SingleIsNoBlock ==
    ASSUME Body \in Seq(Positions), NEW s \in Seq(Positions), NEW a \in Nat, RunAt(s, a),
           ~TableLineAt(a), Len(s) = 1
    PROVE  ~InBlock(Body, a - 1)
<1>1. Len(Body) \in Nat /\ a - Len(s) - 1 = a - 1 - 1 /\ a - Len(s) = a - 1
  OBVIOUS
<1>2. a - 1 = 1 \/ ~IsTableLine(lines[Body[a - 1 - 1]].line)
  BY <1>1 DEF RunAt
<1>3. a - 1 < Len(Body) => ~IsTableLine(lines[Body[a - 1 + 1]].line)
  <2>1. a - 1 + 1 = a /\ (a - 1 < Len(Body) => a <= Len(Body))
    BY <1>1
  <2>. QED  BY <2>1 DEF TableLineAt
<1>. QED  BY <1>2, <1>3 DEF InBlock

(* The last row of a complete run has no row behind it. *)
LEMMA NoRoomBehindRun ==
    ASSUME Body \in Seq(Positions), Rising(Body), at \in Nat,
           NEW s \in Seq(Positions), s # <<>>, RunAt(s, at), ~TableLineAt(at),
           NEW piece, piece.body[Len(piece.body)] = s[Len(s)]
    PROVE  NoRoomForRow(Dropped(piece))
<1>1. /\ Len(s) \in DOMAIN s /\ Len(s) \in Nat /\ Len(Body) \in Nat /\ DOMAIN Body = 1..Len(Body)
      /\ at - Len(s) - 1 + Len(s) = at - 1 /\ at - 1 + 1 = at
  OBVIOUS
<1>2. s[Len(s)] = Body[at - 1]
  BY <1>1 DEF RunAt
<1>3. at - 1 \in DOMAIN Body
  BY <1>1, RunRises
<1>4. at - 1 < Len(Body) => at <= Len(Body)
  BY <1>1
<1>5. at - 1 < Len(Body) => ~IsTableLine(lines[Body[at - 1 + 1]].line)
  BY <1>1, <1>4 DEF TableLineAt
<1>. QED  BY <1>2, <1>3, <1>5, NoRoomBehindRow

LEMMA StepLossTables == IInv /\ InOrder /\ BlocksInOrder /\ NothingLost /\ Tables => NothingLost'
<1>. SUFFICES ASSUME IInv, InOrder, BlocksInOrder, NothingLost, Tables PROVE NothingLost'
  OBVIOUS
<1>0. pc \in {"blocks", "split"}
  BY DEF Tables, ScanRow, ScanOther, SingleRow, TakeTable, StartSplit, SplitRow, SplitEnds,
         BlocksEnd, RunEnds
<1>1. Settled
  BY <1>0, IsSettled DEF Walking
<1>2. /\ at \in Nat /\ at > 0 /\ packed \in Nat
      /\ lines \in Seq(LineRecord) /\ nodes \in Seq(NodeRecord) /\ node \in 1..Len(nodes)
      /\ rows \in Seq(Positions) /\ chunks \in Seq(ChunkRecord)
      /\ cur \in PieceType /\ cur.body \in Seq(Positions)
      /\ Body \in Seq(Positions) /\ Rising(Body)
  <2>1. Rising(Body)
    BY <1>1 DEF Settled, InOrder, LinesRise, Body
  <2>. QED  BY <1>1, <2>1, BodyType DEF Settled
<1>3. pc = "blocks" => /\ RowsSafe(chunks, dropped, node, at - Len(cur.body))
                       /\ cur.body # <<>> => RunAt(cur.body, at)
  BY DEF NothingLost, BlocksInOrder
<1>4. pc = "split" => /\ RowsSafe(chunks, dropped, node, at - Len(rows))
                      /\ DealtSafe(chunks, dropped, rows, packed, cur.body)
                      /\ RunAt(rows, at)
                      /\ ~TableLineAt(at)
                      /\ Len(rows) > 1
                      /\ packed \in 1..Len(rows)
                      /\ cur.body[Len(cur.body)] = rows[packed]
  <2>1. pc = "split" => packed \in 1..Len(rows)
    <3>1. pc = "split" => HeaderRows(rows) <= packed /\ packed <= Len(rows)
      BY DEF BlocksInOrder
    <3>2. HeaderRows(rows) \in {1, 2} /\ packed \in Nat /\ Len(rows) \in Nat
      BY <1>2, HeaderRowsRange
    <3>. QED  BY <3>1, <3>2
  <2>. QED  BY <2>1 DEF NothingLost, BlocksInOrder, IInv, Places
<1>5. /\ lines' = lines /\ nodes' = nodes /\ node' = node
      /\ pc' \in {"blocks", "split", "pack"}
  BY <1>0 DEF Tables, ScanRow, ScanOther, SingleRow, TakeTable, StartSplit, SplitRow, SplitEnds,
         BlocksEnd, RunEnds, walk
<1>6. ASSUME Grows(chunks, dropped, chunks', dropped'),
             pc' = "blocks" => RowsSafe(chunks', dropped', node, at' - Len(cur'.body)),
             pc' = "split" => /\ RowsSafe(chunks', dropped', node, at' - Len(rows'))
                              /\ DealtSafe(chunks', dropped', rows', packed', cur'.body)
                              /\ cur'.body[Len(cur'.body)] = rows'[packed'],
             pc' = "pack" => PackSafe(chunks', dropped', node, at', cur'.body)
      PROVE  NothingLost'
  <2>1. ASSUME NEW n \in DOMAIN nodes, n < node
        PROVE  SectionSafe(chunks', dropped', n)
    <3>1. SectionSafe(chunks, dropped, n)
      BY <1>0, <2>1 DEF NothingLost, Walking
    <3>. QED  BY <1>6, <3>1, SafeStays
  <2>. QED  BY <1>5, <1>6, <2>1, LossFrame DEF NothingLost
<1>7. Grows(chunks, dropped, chunks, dropped)
  BY NothingGrows
<1>8. EmptyPiece.body = <<>> /\ Len(<<>>) = 0 /\ at - 0 = at
  BY <1>2, EmptyPieceType
<1>9. AtTableLine <=> TableLineAt(at)
  BY DEF AtTableLine, TableLineAt
<1>10. CASE ScanRow
  <2>1. /\ pc = "blocks" /\ pc' = "blocks" /\ TableLineAt(at) /\ at' = at + 1
        /\ chunks' = chunks /\ dropped' = dropped /\ cur' = AddRow(cur, Body[at])
    BY <1>9, <1>10 DEF ScanRow
  <2>2. Body[at] \in Positions
    BY <1>2, <2>1, BodyLine DEF TableLineAt
  <2>3. cur'.body = Append(cur.body, Body[at])
    BY <2>1 DEF AddRow
  <2>4. at' - Len(cur'.body) = at - Len(cur.body)
    <3>1. Len(cur'.body) = Len(cur.body) + 1 /\ Len(cur.body) \in Nat
      BY <1>2, <2>2, <2>3, Appended
    <3>. QED  BY <1>2, <2>1, <3>1
  <2>. QED  BY <1>3, <1>6, <1>7, <2>1, <2>4
<1>11. CASE ScanOther
  <2>1. /\ pc = "blocks" /\ pc' = "blocks" /\ ~TableLineAt(at) /\ at' = at + 1 /\ at <= Len(Body)
        /\ chunks' = chunks /\ dropped' = dropped /\ cur' = cur /\ cur.body = <<>>
    BY <1>9, <1>11 DEF ScanOther, walk
  <2>2. RowsSafe(chunks, dropped, node, at)
    BY <1>3, <1>8, <2>1
  <2>3. ~InBlock(Body, at)
    BY <2>1 DEF InBlock, TableLineAt
  <2>4. RowsSafe(chunks, dropped, node, at + 1)
    <3>1. ASSUME NEW i \in DOMAIN Body, i < at + 1
          PROVE  RowSafe(chunks, dropped, node, i)
      <4>1. i < at \/ i = at
        BY <1>2, <3>1
      <4>. QED  BY <2>2, <2>3, <3>1, <4>1 DEF RowsSafe, RowSafe, Body
    <3>. QED  BY <3>1 DEF RowsSafe, Body
  <2>5. at' - Len(cur'.body) = at + 1
    BY <1>2, <1>8, <2>1
  <2>. QED  BY <1>2, <1>6, <1>7, <2>1, <2>4, <2>5
<1>12. CASE SingleRow
  <2>1. /\ pc = "blocks" /\ pc' = "blocks" /\ ~TableLineAt(at) /\ at' = at
        /\ chunks' = chunks /\ dropped' = dropped /\ cur' = EmptyPiece /\ Len(cur.body) = 1 /\ cur.body # <<>>
    BY <1>9, <1>12 DEF SingleRow, RunEnds
  <2>2. ~InBlock(Body, at - 1)
    BY <1>2, <1>3, <2>1, SingleIsNoBlock
  <2>3. RowsSafe(chunks, dropped, node, at)
    <3>1. ASSUME NEW i \in DOMAIN Body, i < at
          PROVE  RowSafe(chunks, dropped, node, i)
      <4>1. i < at - Len(cur.body) \/ i = at - 1
        <5>1. i \in Nat
          BY <1>2
        <5>2. at \in Nat /\ Len(cur.body) = 1 /\ i < at
          BY <1>2, <2>1, <3>1
        <5>. QED  BY <5>1, <5>2
      <4>. QED  BY <1>3, <2>1, <2>2, <3>1, <4>1 DEF RowsSafe, RowSafe, Body
    <3>. QED  BY <3>1 DEF RowsSafe, Body
  <2>4. at' - Len(cur'.body) = at
    BY <1>8, <2>1
  <2>. QED  BY <1>6, <1>7, <1>8, <2>1, <2>3, <2>4
<1>13. CASE TakeTable
  <2>1. /\ pc = "blocks" /\ pc' = "blocks" /\ at' = at
        /\ chunks' = chunks \o TableChunks(cur) /\ dropped' = dropped \cup DroppedTable(cur)
        /\ cur' = EmptyPiece /\ cur.body # <<>> /\ ~TableLineAt(at)
    BY <1>9, <1>13 DEF TakeTable, RunEnds
  <2>7. NoRoomForRow(Dropped(cur))
    BY <1>2, <1>3, <2>1, NoRoomBehindRun
  <2>2. /\ Grows(chunks, dropped, chunks', dropped')
        /\ \A p : Holding(cur.body, p) => KeptIn(chunks', p) \/ RowDropped(dropped', node, p)
    BY <1>2, <2>1, <2>7, TableCompletes
  <2>3. \A k \in DOMAIN cur.body : KeptIn(chunks', cur.body[k]) \/ RowDropped(dropped', node, cur.body[k])
    BY <2>2 DEF Holding
  <2>4. RowsSafe(chunks', dropped', node, at - Len(cur.body))
    BY <1>3, <2>1, <2>2, SafeStays
  <2>5. RowsSafe(chunks', dropped', node, at)
    BY <1>2, <1>3, <2>1, <2>3, <2>4, RunAccounted
  <2>6. at' - Len(cur'.body) = at
    BY <1>8, <2>1
  <2>. QED  BY <1>6, <1>8, <2>1, <2>2, <2>5, <2>6
<1>14. CASE StartSplit
  <2>1. /\ pc = "blocks" /\ pc' = "split" /\ at' = at
        /\ chunks' = chunks /\ dropped' = dropped
        /\ rows' = cur.body /\ Len(cur.body) > 1 /\ cur.body # <<>>
        /\ cur' = HeaderPiece(cur.body) /\ packed' = HeaderRows(cur.body)
    BY <1>14 DEF StartSplit, RunEnds
  <2>3. /\ cur'.body \in Seq(Positions) /\ Len(cur'.body) = HeaderRows(cur.body)
        /\ \A k \in 1..HeaderRows(cur.body) : cur'.body[k] = cur.body[k]
    BY <1>2, <2>1, HeaderPieceRows
  <2>4. DealtSafe(chunks', dropped', rows', packed', cur'.body)
    <3>1. DOMAIN cur'.body = 1..HeaderRows(cur.body)
      BY <2>3
    <3>2. \A k \in 1..HeaderRows(cur.body) : Holding(cur'.body, cur.body[k])
      BY <2>3, <3>1 DEF Holding
    <3>. QED  BY <1>5, <2>1, <3>2 DEF DealtSafe
  <2>5. cur'.body[Len(cur'.body)] = rows'[packed']
    <3>1. HeaderRows(cur.body) \in 1..HeaderRows(cur.body)
      BY HeaderRowsRange
    <3>2. cur'.body[HeaderRows(cur.body)] = cur.body[HeaderRows(cur.body)]
      BY <2>3, <3>1
    <3>3. Len(cur'.body) = HeaderRows(cur.body)
      BY <2>3
    <3>. QED  BY <2>1, <3>2, <3>3
  <2>6. RowsSafe(chunks', dropped', node, at' - Len(rows'))
    BY <1>3, <2>1
  <2>7. Grows(chunks, dropped, chunks', dropped') /\ pc' = "split"
    BY <1>7, <2>1
  <2>. QED  BY <1>6, <2>4, <2>5, <2>6, <2>7
<1>15. CASE SplitRow
  <2>. DEFINE row == rows[packed + 1]
  <2>1. /\ pc = "split" /\ pc' = "split" /\ at' = at /\ rows' = rows
        /\ packed < Len(rows) /\ packed' = packed + 1
        /\ \/ /\ Full(row)
              /\ chunks' = chunks \o TableChunks(cur) /\ dropped' = dropped \cup DroppedTable(cur)
              /\ cur' = AddRow(HeaderPiece(rows), row)
           \/ chunks' = chunks /\ dropped' = dropped /\ cur' = AddRow(cur, row)
    BY <1>15 DEF SplitRow
  <2>2. row \in Positions /\ packed + 1 \in DOMAIN rows
    BY <1>2, <2>1
  <2>. HIDE DEF row
  <2>3. /\ HeaderPiece(rows) \in PieceType /\ HeaderPiece(rows).body \in Seq(Positions)
    BY <1>2, <1>4, <2>1, HeaderPieceType
  <2>6. rows'[packed'] = row
    BY <2>1 DEF row
  <2>7. ASSUME NEW b \in Seq(Positions), cur'.body = Append(b, row)
        PROVE  cur'.body[Len(cur'.body)] = rows'[packed']
    BY <2>2, <2>6, <2>7, AppendedEnd
  <2>4. CASE chunks' = chunks /\ dropped' = dropped /\ cur' = AddRow(cur, row)
    <3>1. cur'.body = Append(cur.body, row)
      BY <2>4 DEF AddRow
    <3>2. cur'.body[Len(cur'.body)] = rows'[packed']
      BY <1>2, <2>7, <3>1
    <3>3. Holding(cur'.body, row) /\ \A q : Holding(cur.body, q) => Holding(cur'.body, q)
      BY <1>2, <2>2, <3>1, HoldingMore
    <3>4. DealtSafe(chunks', dropped', rows', packed', cur'.body)
      <4>1. ASSUME NEW k \in 1..packed + 1
            PROVE  \/ KeptIn(chunks', rows[k]) \/ RowDropped(dropped', node, rows[k])
                   \/ Holding(cur'.body, rows[k])
        <5>1. k \in 1..packed \/ k = packed + 1
          BY <1>2
        <5>. QED  BY <1>4, <2>1, <2>4, <3>3, <5>1 DEF DealtSafe, row
      <4>. QED  BY <1>5, <2>1, <4>1 DEF DealtSafe
    <3>5. RowsSafe(chunks', dropped', node, at' - Len(rows'))
      BY <1>4, <2>1, <2>4
    <3>. QED  BY <1>6, <1>7, <2>1, <2>4, <3>2, <3>4, <3>5
  <2>5. CASE /\ Full(row)
             /\ chunks' = chunks \o TableChunks(cur) /\ dropped' = dropped \cup DroppedTable(cur)
             /\ cur' = AddRow(HeaderPiece(rows), row)
    <3>. DEFINE h == HeaderPiece(rows)
    <3>1. cur'.body = Append(h.body, row)
      BY <2>5 DEF AddRow
    <3>2. h \in PieceType /\ h.body \in Seq(Positions)
      BY <2>3
    <3>. HIDE DEF h
    <3>3. cur'.body[Len(cur'.body)] = rows'[packed']
      BY <2>7, <3>1, <3>2
    <3>8. NoRoomForRow(Dropped(cur))
      <4>. DEFINE j == at - Len(rows) - 1 + packed
      <4>1. /\ packed \in DOMAIN rows /\ packed + 1 \in DOMAIN rows
            /\ Len(rows) \in Nat /\ j \in Nat
            /\ j + 1 = at - Len(rows) - 1 + (packed + 1)
        <5>1. /\ Len(rows) \in Nat /\ DOMAIN rows = 1..Len(rows)
              /\ at \in Nat /\ Len(rows) < at /\ packed \in 1..Len(rows) /\ packed < Len(rows)
          BY <1>2, <1>4, <2>1 DEF RunAt
        <5>. QED  BY <5>1
      <4>2. rows[packed] = Body[j] /\ rows[packed + 1] = Body[j + 1]
        <5>1. \A k \in DOMAIN rows : rows[k] = Body[at - Len(rows) - 1 + k]
          BY <1>4, <2>1 DEF RunAt
        <5>. QED  BY <4>1, <5>1
      <4>3. j \in DOMAIN Body
        BY <1>2, <1>4, <2>1, <4>1, RunRises
      <4>. HIDE DEF j
      <4>4. ApproxTokens(cur.words + Words(Body[j + 1])) > MaxTableTokens
        BY <2>5, <4>2 DEF Full, row
      <4>5. cur.body[Len(cur.body)] = Body[j]
        BY <1>4, <2>1, <4>2
      <4>. QED  BY <1>2, <4>3, <4>4, <4>5, NoRoomBehindRow
    <3>4. Holding(cur'.body, row)
      BY <2>2, <3>1, <3>2, HoldingMore
    <3>5. /\ Grows(chunks, dropped, chunks', dropped')
          /\ \A p : Holding(cur.body, p) => KeptIn(chunks', p) \/ RowDropped(dropped', node, p)
      BY <1>2, <2>5, <3>8, TableCompletes
    <3>6. DealtSafe(chunks', dropped', rows', packed', cur'.body)
      <4>1. ASSUME NEW k \in 1..packed + 1
            PROVE  \/ KeptIn(chunks', rows[k]) \/ RowDropped(dropped', node, rows[k])
                   \/ Holding(cur'.body, rows[k])
        <5>1. CASE k \in 1..packed
          <6>1. \/ KeptIn(chunks, rows[k]) \/ RowDropped(dropped, node, rows[k])
                \/ Holding(cur.body, rows[k])
            BY <1>4, <2>1, <5>1 DEF DealtSafe
          <6>2. KeptIn(chunks, rows[k]) => KeptIn(chunks', rows[k])
            BY <3>5 DEF Grows
          <6>3. RowDropped(dropped, node, rows[k]) => RowDropped(dropped', node, rows[k])
            BY <3>5, SafeStays
          <6>. QED  BY <3>5, <6>1, <6>2, <6>3
        <5>2. CASE k = packed + 1
          BY <3>4, <5>2 DEF row
        <5>. QED  BY <1>2, <5>1, <5>2
      <4>. QED  BY <1>5, <2>1, <4>1 DEF DealtSafe
    <3>7. RowsSafe(chunks', dropped', node, at' - Len(rows'))
      BY <1>4, <2>1, <3>5, SafeStays
    <3>. QED  BY <1>6, <2>1, <3>3, <3>5, <3>6, <3>7
  <2>. QED  BY <2>1, <2>4, <2>5
<1>16. CASE SplitEnds
  <2>1. /\ pc = "split" /\ pc' = "blocks" /\ at' = at /\ packed = Len(rows)
        /\ chunks' = chunks \o TableChunks(cur) /\ dropped' = dropped \cup DroppedTable(cur)
        /\ cur' = EmptyPiece
    BY <1>16 DEF SplitEnds
  <2>7. NoRoomForRow(Dropped(cur))
    <3>1. rows # <<>> /\ cur.body[Len(cur.body)] = rows[Len(rows)]
      BY <1>4, <2>1
    <3>. QED  BY <1>2, <1>4, <2>1, <3>1, NoRoomBehindRun
  <2>2. /\ Grows(chunks, dropped, chunks', dropped')
        /\ \A p : Holding(cur.body, p) => KeptIn(chunks', p) \/ RowDropped(dropped', node, p)
    BY <1>2, <2>1, <2>7, TableCompletes
  <2>3. \A k \in DOMAIN rows : KeptIn(chunks', rows[k]) \/ RowDropped(dropped', node, rows[k])
    <3>1. DOMAIN rows = 1..packed
      BY <1>2, <2>1
    <3>2. \A p : RowDropped(dropped, node, p) => RowDropped(dropped', node, p)
      BY <2>2, SafeStays
    <3>3. \A p : KeptIn(chunks, p) => KeptIn(chunks', p)
      BY <2>2 DEF Grows
    <3>. QED  BY <1>4, <2>1, <2>2, <3>1, <3>2, <3>3 DEF DealtSafe
  <2>4. RowsSafe(chunks', dropped', node, at - Len(rows))
    BY <1>4, <2>1, <2>2, SafeStays
  <2>5. RowsSafe(chunks', dropped', node, at)
    BY <1>2, <1>4, <2>1, <2>3, <2>4, RunAccounted
  <2>6. at' - Len(cur'.body) = at
    BY <1>8, <2>1
  <2>. QED  BY <1>6, <1>8, <2>1, <2>2, <2>5, <2>6
<1>17. CASE BlocksEnd
  <2>1. /\ pc = "blocks" /\ pc' = "pack" /\ at' = 1 /\ at = Len(Body) + 1
        /\ chunks' = chunks /\ dropped' = dropped /\ cur' = cur /\ cur.body = <<>>
    BY <1>17 DEF BlocksEnd, walk
  <2>2. RowsSafe(chunks, dropped, node, at)
    BY <1>3, <1>8, <2>1
  <2>3. \A i \in DOMAIN Body : i < at /\ ~(i < 1)
    BY <1>2, <2>1
  <2>4. PackSafe(chunks, dropped, node, 1, cur.body)
    BY <2>2, <2>3 DEF RowsSafe, PackSafe, Body
  <2>. QED  BY <1>2, <1>6, <1>7, <2>1, <2>4
<1>. QED  BY <1>10, <1>11, <1>12, <1>13, <1>14, <1>15, <1>16, <1>17 DEF Tables

(* The packing goes on by one line when the piece keeps or gives what it   *)
(* held, and the line at hand is accounted for.                            *)
LEMMA PackedOn ==
    ASSUME Body \in Seq(Positions), at \in Nat, NEW b, NEW c, NEW cs, NEW ds, NEW es, NEW fs,
           PackSafe(cs, ds, node, at, b), Grows(cs, ds, es, fs),
           \A q : Holding(b, q) => KeptIn(es, q) \/ TextDropped(fs, node, q) \/ Holding(c, q),
           at \in DOMAIN Body => SentenceSafe(es, fs, node, at) \/ Holding(c, Body[at])
    PROVE  PackSafe(es, fs, node, at + 1, c)
<1>1. DOMAIN Body \subseteq Nat
  OBVIOUS
<1>2. ASSUME NEW i \in DOMAIN Body
      PROVE  RowSafe(es, fs, node, i)
  <2>1. RowSafe(cs, ds, node, i)
    BY DEF PackSafe, Body
  <2>. QED  BY <2>1, SafeStays
<1>3. ASSUME NEW i \in DOMAIN Body, i < at + 1
      PROVE  SentenceSafe(es, fs, node, i) \/ Holding(c, Body[i])
  <2>1. i < at \/ i = at
    <3>1. i \in Nat
      BY <1>1
    <3>. QED  BY <1>3, <3>1
  <2>2. CASE i < at
    <3>1. SentenceSafe(cs, ds, node, i) \/ Holding(b, Body[i])
      BY <2>2 DEF PackSafe, Body
    <3>2. SentenceSafe(cs, ds, node, i) => SentenceSafe(es, fs, node, i)
      BY SafeStays
    <3>3. Holding(b, Body[i]) => SentenceSafe(es, fs, node, i) \/ Holding(c, Body[i])
      BY DEF SentenceSafe, Body
    <3>. QED  BY <3>1, <3>2, <3>3
  <2>. QED  BY <2>1, <2>2
<1>. QED  BY <1>2, <1>3 DEF PackSafe, Body

(* A section is through when its piece is completed behind its last line.  *)
LEMMA PackedAll ==
    ASSUME Body \in Seq(Positions), at = Len(Body) + 1, NEW b, NEW cs, NEW ds, NEW es, NEW fs,
           PackSafe(cs, ds, node, at, b), Grows(cs, ds, es, fs),
           \A q : Holding(b, q) => KeptIn(es, q) \/ TextDropped(fs, node, q)
    PROVE  SectionSafe(es, fs, node)
<1>1. \A i \in DOMAIN Body : i < at
  OBVIOUS
<1>2. ASSUME NEW i \in DOMAIN Body
      PROVE  RowSafe(es, fs, node, i) /\ SentenceSafe(es, fs, node, i)
  <2>1. RowSafe(cs, ds, node, i) /\ (SentenceSafe(cs, ds, node, i) \/ Holding(b, Body[i]))
    BY <1>1 DEF PackSafe, Body
  <2>2. /\ RowSafe(cs, ds, node, i) => RowSafe(es, fs, node, i)
        /\ SentenceSafe(cs, ds, node, i) => SentenceSafe(es, fs, node, i)
    BY SafeStays
  <2>3. Holding(b, Body[i]) => SentenceSafe(es, fs, node, i)
    BY DEF SentenceSafe, Body
  <2>. QED  BY <2>1, <2>2, <2>3
<1>. QED  BY <1>2 DEF SectionSafe, Body

LEMMA StepLossPack == IInv /\ InOrder /\ PackInOrder /\ NothingLost /\ Pack => NothingLost'
<1>. SUFFICES ASSUME IInv, InOrder, PackInOrder, NothingLost, Pack PROVE NothingLost'
  OBVIOUS
<1>0. pc = "pack"
  BY DEF Pack, SkipNoSentence, PackOversized, PackOverflow, PackSentence, PackEnds, NextSentence
<1>1. /\ nodes \in Seq(NodeRecord) /\ node \in 1..Len(nodes) /\ node \in Nat
      /\ Len(nodes) \in Nat /\ DOMAIN nodes = 1..Len(nodes)
      /\ lines \in Seq(LineRecord)
      /\ chunks \in Seq(ChunkRecord) /\ cur \in PieceType /\ cur.body \in Seq(Positions)
      /\ packed \in Nat /\ at \in Nat
  BY <1>0, IsSettled DEF Settled, Walking
<1>2. Body \in Seq(Positions)
  BY <1>1, BodyType
<1>3. PackSafe(chunks, dropped, node, at, cur.body)
  BY <1>0 DEF NothingLost
<1>15. PieceFits /\ Continues(chunks, cur.body, at)
  BY <1>0 DEF PackInOrder, IInv, Places
<1>4. \A q : ~Holding(<<>>, q)
  BY DEF Holding
<1>5. EmptyPiece.body = <<>>
  BY EmptyPieceType
<1>16. ASSUME NEW p, NextSentence(p), cur.body # <<>>, Overflows(p) \/ Oversized(p)
       PROVE  NoRoomForSentence(Dropped(cur))
  <2>. DEFINE q == cur.body[Len(cur.body)]
  <2>1. AtSentence(p) /\ p \in Positions /\ p = Body[at] /\ at \in DOMAIN Body
    BY <1>0, <1>16, AtHand, AtSentenceFacts DEF NextSentence
  <2>2. Len(cur.body) \in DOMAIN cur.body /\ q \in Nat
    BY <1>1, <1>16 DEF Positions
  <2>3. q < p
    BY <1>1, <1>15, <2>1, <2>2 DEF Continues, Passed
  <2>4. \A m \in DOMAIN Body : m < at /\ IsSentence(Body, m) => Body[m] <= q
    BY <1>15, <1>16 DEF Continues
  <2>. HIDE DEF q
  <2>5. ApproxTokens(cur.words + Words(p)) >= ChunkSize
    BY <1>1, <1>15, <1>16, <2>1, OverflowOfWords
  <2>. QED  BY <2>1, <2>2, <2>3, <2>4, <2>5, NoRoomAtSentence DEF q
<1>. DEFINE full == chunks \o TextChunks(packed, cur)
            less == dropped \cup DroppedText(cur)
            es == IF cur.body = <<>> THEN chunks ELSE full
            fs == IF cur.body = <<>> THEN dropped ELSE less
<1>6. ASSUME NoRoomForSentence(Dropped(cur))
      PROVE  /\ full \in Seq(ChunkRecord) /\ Grows(chunks, dropped, full, less)
             /\ \A q : Holding(cur.body, q) => KeptIn(full, q) \/ TextDropped(less, node, q)
  <2>1. full = chunks \o TextChunks(packed, cur) /\ less = dropped \cup DroppedText(cur)
    OBVIOUS
  <2>. HIDE DEF full, less
  <2>. QED  BY <1>1, <1>6, <2>1, TextCompletes
<1>. HIDE DEF full, less
<1>7. ASSUME cur.body # <<>> => NoRoomForSentence(Dropped(cur))
      PROVE  /\ es \in Seq(ChunkRecord) /\ Grows(chunks, dropped, es, fs)
             /\ \A q : Holding(cur.body, q) => KeptIn(es, q) \/ TextDropped(fs, node, q)
  <2>1. CASE cur.body = <<>>
    <3>1. es = chunks /\ fs = dropped
      BY <2>1
    <3>. QED  BY <1>1, <1>4, <2>1, <3>1, NothingGrows
  <2>2. CASE cur.body # <<>>
    <3>1. es = full /\ fs = less
      BY <2>2
    <3>. HIDE DEF es, fs
    <3>. QED  BY <1>6, <1>7, <2>2, <3>1
  <2>. QED  BY <2>1, <2>2
<1>. HIDE DEF es, fs
<1>8. ASSUME lines' = lines, nodes' = nodes, Grows(chunks, dropped, chunks', dropped'),
             \A n \in DOMAIN nodes : pc' = "done" \/ n < node' =>
                 n < node \/ SectionSafe(chunks', dropped', n),
             pc' = "blocks" => RowsSafe(chunks', dropped', node', at' - Len(cur'.body)),
             pc' = "pack" => PackSafe(chunks', dropped', node', at', cur'.body),
             pc' # "split"
      PROVE  NothingLost'
  <2>1. ASSUME NEW n \in DOMAIN nodes, pc' = "done" \/ n < node'
        PROVE  SectionSafe(chunks', dropped', n)
    <3>1. n < node => SectionSafe(chunks, dropped, n)
      BY <1>0 DEF NothingLost, Walking
    <3>2. SectionSafe(chunks, dropped, n) => SectionSafe(chunks', dropped', n)
      BY <1>8, SafeStays
    <3>. QED  BY <1>8, <2>1, <3>1, <3>2
  <2>2. /\ \A n : SectionSafe(chunks, dropped, n)' <=> SectionSafe(chunks', dropped', n)
        /\ RowsSafe(chunks, dropped, node, at - Len(cur.body))'
              <=> RowsSafe(chunks', dropped', node', at' - Len(cur'.body))
        /\ PackSafe(chunks, dropped, node, at, cur.body)'
              <=> PackSafe(chunks', dropped', node', at', cur'.body)
    BY <1>8, LossFrame
  <2>. QED  BY <1>8, <2>1, <2>2 DEF NothingLost
<1>9. ASSUME lines' = lines, nodes' = nodes, node' = node, pc' = "pack",
             Grows(chunks, dropped, chunks', dropped'), at' = at + 1,
             \A q : Holding(cur.body, q) =>
                 KeptIn(chunks', q) \/ TextDropped(dropped', node, q) \/ Holding(cur'.body, q),
             at \in DOMAIN Body =>
                 SentenceSafe(chunks', dropped', node, at) \/ Holding(cur'.body, Body[at])
      PROVE  NothingLost'
  <2>1. PackSafe(chunks', dropped', node, at + 1, cur'.body)
    BY <1>1, <1>2, <1>3, <1>9, PackedOn
  <2>. QED  BY <1>8, <1>9, <2>1
<1>10. CASE SkipNoSentence
  <2>1. /\ lines' = lines /\ nodes' = nodes /\ node' = node /\ pc' = "pack"
        /\ chunks' = chunks /\ dropped' = dropped /\ cur' = cur /\ at' = at + 1
        /\ ~IsSentence(Body, at)
    BY <1>0, <1>10 DEF SkipNoSentence, walk
  <2>2. SentenceSafe(chunks', dropped', node, at)
    BY <2>1 DEF SentenceSafe, Body
  <2>3. Grows(chunks, dropped, chunks', dropped')
    BY <2>1, NothingGrows
  <2>. QED  BY <1>3, <1>9, <2>1, <2>2, <2>3
<1>11. CASE PackOversized
  <2>1. PICK p \in 1..Len(lines) :
          /\ NextSentence(p)
          /\ lines' = lines /\ nodes' = nodes /\ node' = node
          /\ pc' = "pack" /\ at' = at + 1 /\ cur' = EmptyPiece /\ Oversized(p)
          /\ dropped' = dropped \cup (IF cur.body = <<>> THEN {} ELSE DroppedText(cur))
                                \cup DroppedText(Piece(p))
          /\ chunks' = chunks \o (IF cur.body = <<>> THEN <<>> ELSE TextChunks(packed, cur))
                         \o TextChunks(IF cur.body = <<>> THEN packed ELSE packed + 1, Piece(p))
    BY <1>0, <1>11 DEF PackOversized, NextSentence
  <2>2. p \in Positions /\ p = Body[at]
    BY <2>1 DEF NextSentence, Positions
  <2>. DEFINE n == IF cur.body = <<>> THEN packed ELSE packed + 1
              piece == Piece(p)
  <2>3. chunks' = es \o TextChunks(n, piece)
    <3>1. chunks \o <<>> = chunks
      BY <1>1, NothingMore
    <3>. QED  BY <2>1, <3>1 DEF full, es, n
  <2>9. dropped' = fs \cup DroppedText(piece)
    BY <2>1 DEF less, fs
  <2>10. NoRoomForSentence(Dropped(piece))
    BY <1>1, <1>2, <2>1, <2>2, NoRoomBesideOversized
  <2>11. cur.body # <<>> => NoRoomForSentence(Dropped(cur))
    BY <1>16, <2>1
  <2>4. /\ piece \in PieceType /\ piece.body \in Seq(Positions)
        /\ Holding(piece.body, p)
    <3>. DEFINE one == <<p>>
    <3>1. one[1] = p /\ DOMAIN one = {1}
      OBVIOUS
    <3>2. piece \in PieceType /\ piece.body \in Seq(Positions) /\ piece.body = one
      BY <1>1, <2>2, OneSentencePiece
    <3>. HIDE DEF one
    <3>. QED  BY <3>1, <3>2 DEF Holding
  <2>. HIDE DEF n, piece
  <2>5. /\ Grows(es, fs, chunks', dropped')
        /\ KeptIn(chunks', p) \/ TextDropped(dropped', node, p)
    <3>1. es \in Seq(ChunkRecord)
      BY <1>7, <2>11
    <3>. QED  BY <1>1, <2>3, <2>4, <2>9, <2>10, <3>1, TextCompletes
  <2>6. Grows(chunks, dropped, chunks', dropped')
    BY <1>7, <2>5, <2>11 DEF Grows
  <2>7. \A q : Holding(cur.body, q) => KeptIn(chunks', q) \/ TextDropped(dropped', node, q)
    <3>1. \A q : Holding(cur.body, q) => KeptIn(es, q) \/ TextDropped(fs, node, q)
      BY <1>7, <2>11
    <3>2. \A q : TextDropped(fs, node, q) => TextDropped(dropped', node, q)
      BY <2>5, SafeStays
    <3>. QED  BY <2>5, <3>1, <3>2 DEF Grows
  <2>8. SentenceSafe(chunks', dropped', node, at)
    BY <2>2, <2>5 DEF SentenceSafe, Body
  <2>. QED  BY <1>9, <2>1, <2>6, <2>7, <2>8
<1>12. CASE PackOverflow
  <2>. DEFINE last == cur.body[Len(cur.body)]
              over == Piece(last)
  <2>1. PICK p \in 1..Len(lines) :
          /\ NextSentence(p)
          /\ lines' = lines /\ nodes' = nodes /\ node' = node
          /\ pc' = "pack" /\ at' = at + 1 /\ cur.body # <<>> /\ Overflows(p)
          /\ chunks' = full /\ dropped' = less
          /\ cur' = Add(over, p)
    BY <1>0, <1>12 DEF PackOverflow, NextSentence, Overflows, full, less
  <2>2. p \in Positions /\ p = Body[at]
    BY <2>1 DEF NextSentence, Positions
  <2>3. last \in Positions
    BY <1>1, <2>1
  <2>4. over \in PieceType /\ over.body \in Seq(Positions)
    BY <1>1, <2>3, OneSentencePiece
  <2>. HIDE DEF last, over
  <2>5. cur'.body = Append(over.body, p)
    BY <1>1, <2>1, <2>2, <2>4, AddType
  <2>6. NoRoomForSentence(Dropped(cur))
    BY <1>16, <2>1
  <2>7. Holding(cur'.body, p)
    BY <2>2, <2>4, <2>5, HoldingMore
  <2>. QED  BY <1>6, <1>9, <2>1, <2>2, <2>6, <2>7
<1>13. CASE PackSentence
  <2>1. PICK p \in 1..Len(lines) :
          /\ NextSentence(p)
          /\ lines' = lines /\ nodes' = nodes /\ node' = node
          /\ pc' = "pack" /\ at' = at + 1 /\ chunks' = chunks /\ dropped' = dropped
          /\ cur' = Add(cur, p)
    BY <1>0, <1>13 DEF PackSentence, NextSentence
  <2>2. p \in Positions /\ p = Body[at]
    BY <2>1 DEF NextSentence, Positions
  <2>3. cur'.body = Append(cur.body, p)
    BY <1>1, <2>1, <2>2, AddType
  <2>5. Holding(cur'.body, p) /\ \A q : Holding(cur.body, q) => Holding(cur'.body, q)
    BY <1>1, <2>2, <2>3, HoldingMore
  <2>6. Grows(chunks, dropped, chunks', dropped')
    BY <2>1, NothingGrows
  <2>. QED  BY <1>9, <2>1, <2>2, <2>5, <2>6
<1>14. CASE PackEnds
  <2>1. /\ lines' = lines /\ nodes' = nodes /\ chunks' = es /\ dropped' = fs
        /\ at = Len(Body) + 1 /\ at' = 1 /\ cur' = EmptyPiece
        /\ \/ node < Len(nodes) /\ node' = node + 1 /\ pc' = "blocks"
           \/ ~(node < Len(nodes)) /\ node' = node /\ pc' = "done"
    BY <1>14 DEF PackEnds, full, es, less, fs
  <2>6. cur.body # <<>> => NoRoomForSentence(Dropped(cur))
    BY <1>1, <1>2, <1>15, <2>1, NoSentenceLeft
  <2>2. SectionSafe(es, fs, node)
    BY <1>2, <1>3, <1>7, <2>1, <2>6, PackedAll
  <2>3. cur'.body = <<>> /\ Len(<<>>) = 0 /\ 1 - 0 = 1
    BY <1>5, <2>1
  <2>4. ASSUME NEW n \in DOMAIN nodes, pc' = "done" \/ n < node'
        PROVE  n < node \/ SectionSafe(chunks', dropped', n)
    <3>1. n \in Nat /\ n <= Len(nodes)
      BY <1>1
    <3>2. n <= node
      BY <1>1, <2>1, <2>4, <3>1
    <3>3. n < node \/ n = node
      BY <1>1, <3>1, <3>2
    <3>. QED  BY <2>1, <2>2, <3>3
  <2>5. ASSUME pc' = "blocks"
        PROVE  RowsSafe(chunks', dropped', node', at' - Len(cur'.body))
    <3>1. node' \in 1..Len(nodes)
      BY <1>1, <2>1, <2>5
    <3>2. nodes[node'].lines \in Seq(Positions)
      <4>1. nodes[node'] \in NodeRecord
        BY <1>1, <3>1
      <4>. QED  BY <4>1 DEF NodeRecord
    <3>3. \A i \in DOMAIN nodes[node'].lines : ~(i < 1)
      BY <3>2
    <3>. QED  BY <2>1, <2>3, <3>3 DEF RowsSafe
  <2>. QED  BY <1>7, <1>8, <2>1, <2>3, <2>4, <2>5, <2>6
<1>. QED  BY <1>10, <1>11, <1>12, <1>13, <1>14 DEF Pack

LEMMA StepLoss ==
    IInv /\ InOrder /\ PackInOrder /\ BlocksInOrder /\ NothingLost /\ [Next]_vars => NothingLost'
<1>. SUFFICES ASSUME IInv, InOrder, PackInOrder, BlocksInOrder, NothingLost, [Next]_vars
              PROVE  NothingLost'
  OBVIOUS
<1>1. ASSUME ~Walking', pc' = "done" => nodes' = <<>>
      PROVE  NothingLost'
  <2>1. DOMAIN <<>> = {}
    OBVIOUS
  <2>. QED  BY <1>1, <2>1 DEF NothingLost, Walking
<1>2. CASE Extract
  <2>1. nodes = <<>>
    BY <1>2 DEF Extract, ReadPage, FitzEnds, FitzFails, PlumberEnds, InjectTable, TablesEnd,
                ReadText, IInv, Places, Extracting
  <2>2. nodes' = nodes /\ pc' \in {"fitz", "plumber", "tables", "merge", "done"}
    BY <1>2 DEF Extract, ReadPage, FitzEnds, FitzFails, PlumberEnds, InjectTable, TablesEnd,
                ReadText, walk
  <2>. QED  BY <1>1, <2>1, <2>2 DEF Walking
<1>3. CASE MergePage \/ MergeEnds \/ PopSection \/ ParseHeading \/ ParseBody
  <2>1. pc' \in {"merge", "parse"}
    BY <1>3 DEF MergePage, MergeEnds, PopSection, ParseHeading, ParseBody, walk
  <2>. QED  BY <1>1, <2>1 DEF Walking
<1>4. CASE ParseEnds
  <2>1. /\ pc' = "blocks" /\ at' = 1 /\ node' = 1 /\ nodes' = nodes /\ lines' = lines
        /\ cur' = EmptyPiece /\ nodes # <<>> /\ nodes \in Seq(NodeRecord)
    BY <1>4 DEF ParseEnds, IInv, Places, CodeTypes
  <2>2. cur'.body = <<>> /\ Len(<<>>) = 0 /\ 1 - 0 = 1
    BY <2>1, EmptyPieceType
  <2>3. \A n \in DOMAIN nodes : ~(n < 1)
    BY <2>1
  <2>4. RowsSafe(chunks', dropped', node', at' - Len(cur'.body))
    <3>1. 1 \in DOMAIN nodes
      BY <2>1
    <3>2. nodes[1].lines \in Seq(Positions)
      BY <2>1, <3>1, LineNumbers
    <3>3. \A i \in DOMAIN nodes[1].lines : ~(i < 1)
      BY <3>2
    <3>. QED  BY <2>1, <2>2, <3>3 DEF RowsSafe
  <2>5. RowsSafe(chunks, dropped, node, at - Len(cur.body))'
           <=> RowsSafe(chunks', dropped', node', at' - Len(cur'.body))
    BY <2>1, LossFrame
  <2>. QED  BY <2>1, <2>2, <2>3, <2>4, <2>5 DEF NothingLost
<1>5. CASE Tables
  BY <1>5, StepLossTables
<1>6. CASE Pack
  BY <1>6, StepLossPack
<1>7. CASE UNCHANGED vars
  <2>1. /\ lines' = lines /\ nodes' = nodes /\ node' = node /\ chunks' = chunks /\ dropped' = dropped
        /\ cur' = cur /\ at' = at /\ pc' = pc /\ rows' = rows /\ packed' = packed
    BY <1>7 DEF vars
  <2>. QED  BY <2>1, LossFrame DEF NothingLost, Walking
<1>. QED  BY <1>2, <1>3, <1>4, <1>5, <1>6, <1>7 DEF Next, Parse, Done

LEMMA Losses == Spec => [](InOrder /\ NothingLost)
<1>1. Init => NothingLost
  <2>1. Init => nodes = <<>> /\ pc \notin {"blocks", "split", "pack"}
    BY DEF Init
  <2>2. DOMAIN <<>> = {}
    OBVIOUS
  <2>. QED  BY <2>1, <2>2 DEF NothingLost, Walking
<1>. QED  BY <1>1, Blocks, StepLoss, PTL DEF Spec

(* chunker.py:276-312 and 475-481: for every file and every budget, what   *)
(* the chunks of a finished call lack of the bodies of its sections is     *)
(* blank, or was in a piece that was dropped because it was small as a     *)
(* whole and that had no room for the line behind it.                      *)
THEOREM OnlySmallTextGoesMissing == Spec => []OnlySmallTextIsLost
<1>1. NothingLost => OnlySmallTextIsLost
  <2>1. ASSUME NothingLost, pc = "done",
               NEW n \in DOMAIN nodes, NEW i \in DOMAIN nodes[n].lines
        PROVE  \/ lines[nodes[n].lines[i]].line.kind = "blank"
               \/ KeptIn(chunks, nodes[n].lines[i])
               \/ InBlock(nodes[n].lines, i) /\ RowDropped(dropped, n, nodes[n].lines[i])
               \/ ~InBlock(nodes[n].lines, i) /\ TextDropped(dropped, n, nodes[n].lines[i])
    <3>1. RowSafe(chunks, dropped, n, i) /\ SentenceSafe(chunks, dropped, n, i)
      BY <2>1 DEF NothingLost, SectionSafe
    <3>. QED  BY <3>1 DEF RowSafe, SentenceSafe, IsSentence
  <2>2. ASSUME NEW n, NEW i, NEW p
        PROVE  (\/ InBlock(nodes[n].lines, i) /\ RowDropped(dropped, n, p)
                \/ ~InBlock(nodes[n].lines, i) /\ TextDropped(dropped, n, p)) =>
               \E d \in dropped :
                   /\ Holds(d, p) /\ d.node = n
                   /\ IF InBlock(nodes[n].lines, i)
                      THEN TableTooSmall(d) /\ NoRoomForRow(d)
                      ELSE TextTooSmall(n, d) /\ NoRoomForSentence(d)
    BY DEF RowDropped, TextDropped
  <2>. QED  BY <2>1, <2>2 DEF OnlySmallTextIsLost, KeptIn
<1>. QED  BY <1>1, Losses, PTL

-----------------------------------------------------------------------------
(* The section of a text chunk: the pages                                  *)

Faithful == file.kind = "pdf" /\ ~trouble

TableRows(ls) == Len(ls) > 1 /\ \A k \in DOMAIN ls : IsTableLine(ls[k])

(* The pages of list ps are pages of the file, or tables behind them.      *)
PagesOfFile(ps) ==
    \A i \in DOMAIN ps :
        IF ps[i].injected THEN TableRows(ps[i].lines)
        ELSE /\ ps[i].number \in DOMAIN file.pages
             /\ ps[i].lines = file.pages[ps[i].number]

(* They rise, and none with text before the last of them is missing.       *)
PagesRise(ps) ==
    \A i, j \in DOMAIN ps :
        i < j /\ ~ps[j].injected => ~ps[i].injected /\ ps[i].number < ps[j].number

HasPage(ps, q) == \E i \in DOMAIN ps : ~ps[i].injected /\ ps[i].number = q

NoPageMissing(ps) ==
    \A j \in DOMAIN ps : ~ps[j].injected =>
        \A q \in DOMAIN file.pages :
            q < ps[j].number /\ HasText(file.pages[q]) => HasPage(ps, q)

(* While pages are read, those up to place a are in the list.              *)
ReadUpTo(ps, a) ==
    /\ \A i \in DOMAIN ps : ~ps[i].injected /\ ps[i].number <= a
    /\ \A q \in DOMAIN file.pages : q <= a /\ HasText(file.pages[q]) => HasPage(ps, q)

PagesInOrder ==
    Faithful =>
        /\ PagesOfFile(pages) /\ PagesRise(pages) /\ NoPageMissing(pages)
        /\ pc # "read"
        /\ pc = "fitz" /\ ~file.layer => pages = <<>>
        /\ pc = "plumber" \/ (pc = "fitz" /\ file.layer) => ReadUpTo(pages, at)

LEMMA NoPages ==
    ASSUME NEW ps, ps = <<>>, file.pages \in Seq(Seq(Lines))
    PROVE  PagesOfFile(ps) /\ PagesRise(ps) /\ NoPageMissing(ps) /\ ReadUpTo(ps, 0)
<1>1. DOMAIN ps = {}
  OBVIOUS
<1>2. \A q \in DOMAIN file.pages : ~(q <= 0)
  OBVIOUS
<1>. QED  BY <1>1, <1>2 DEF PagesOfFile, PagesRise, NoPageMissing, ReadUpTo

(* The elements of a list with one more. *)
LEMMA OneMorePage ==
    ASSUME NEW ps \in Seq(PageRecord), NEW e \in PageRecord, NEW qs, qs = Append(ps, e)
    PROVE  /\ \A i \in DOMAIN ps : i \in DOMAIN qs /\ qs[i] = ps[i] /\ i < Len(ps) + 1 /\ i \in Nat
           /\ Len(ps) + 1 \in DOMAIN qs /\ qs[Len(ps) + 1] = e /\ Len(ps) + 1 \in Nat
           /\ \A i \in DOMAIN qs : i \in DOMAIN ps \/ i = Len(ps) + 1
<1>1. qs \in Seq(PageRecord) /\ Len(qs) = Len(ps) + 1 /\ Len(ps) \in Nat
  BY Appended
<1>2. DOMAIN ps = 1..Len(ps) /\ DOMAIN qs = 1..Len(ps) + 1
  BY <1>1
<1>3. (\A k \in 1..Len(ps) : qs[k] = ps[k]) /\ qs[Len(ps) + 1] = e
  BY AppendedEnd
<1>. QED  BY <1>1, <1>2, <1>3

LEMMA PageNumber ==
    ASSUME NEW ps \in Seq(PageRecord)
    PROVE  \A i \in DOMAIN ps : ps[i].number \in Nat /\ ps[i].lines \in Seq(Lines)
<1>1. \A i \in DOMAIN ps : ps[i] \in PageRecord
  OBVIOUS
<1>. QED  BY <1>1 DEF PageRecord

(* One more page read. *)
LEMMA PageRead ==
    ASSUME NEW ps \in Seq(PageRecord), NEW a \in Nat, NEW e \in PageRecord,
           PagesOfFile(ps), PagesRise(ps), NoPageMissing(ps), ReadUpTo(ps, a),
           a + 1 \in DOMAIN file.pages, file.pages \in Seq(Seq(Lines)),
           e.number = a + 1, e.lines = file.pages[a + 1], ~e.injected,
           NEW qs, qs = Append(ps, e)
    PROVE  PagesOfFile(qs) /\ PagesRise(qs) /\ NoPageMissing(qs) /\ ReadUpTo(qs, a + 1)
<1>. DEFINE l == Len(ps) + 1
<1>1. /\ \A i \in DOMAIN ps : i \in DOMAIN qs /\ qs[i] = ps[i] /\ i < l /\ i \in Nat
      /\ l \in DOMAIN qs /\ qs[l] = e /\ l \in Nat
      /\ \A i \in DOMAIN qs : i \in DOMAIN ps \/ i = l
  BY OneMorePage
<1>. HIDE DEF l
<1>2. \A i \in DOMAIN ps : ~ps[i].injected /\ ps[i].number <= a /\ ps[i].number \in Nat
  <2>1. \A i \in DOMAIN ps : ps[i].number \in Nat
    BY PageNumber
  <2>. QED  BY <2>1 DEF ReadUpTo
<1>3. \A q : HasPage(ps, q) => HasPage(qs, q)
  BY <1>1 DEF HasPage
<1>4. HasPage(qs, a + 1)
  BY <1>1 DEF HasPage
<1>5. \A i \in DOMAIN qs : ~qs[i].injected /\ qs[i].number <= a + 1
  BY <1>1, <1>2
<1>6. PagesOfFile(qs)
  <2>1. \A i \in DOMAIN ps : qs[i].number \in DOMAIN file.pages
                             /\ qs[i].lines = file.pages[qs[i].number]
    BY <1>1, <1>2 DEF PagesOfFile
  <2>2. qs[l].number \in DOMAIN file.pages /\ qs[l].lines = file.pages[qs[l].number]
    BY <1>1
  <2>. QED  BY <1>1, <1>5, <2>1, <2>2 DEF PagesOfFile
<1>7. PagesRise(qs)
  <2>1. ASSUME NEW i \in DOMAIN qs, NEW j \in DOMAIN qs, i < j
        PROVE  qs[i].number < qs[j].number
    <3>1. i \in DOMAIN ps
      BY <1>1, <2>1
    <3>2. CASE j \in DOMAIN ps
      BY <1>1, <1>2, <2>1, <3>1, <3>2 DEF PagesRise
    <3>3. CASE j = l
      BY <1>1, <1>2, <3>1, <3>3
    <3>. QED  BY <1>1, <3>2, <3>3
  <2>. QED  BY <1>5, <2>1 DEF PagesRise
<1>8. \A q \in DOMAIN file.pages : q <= a + 1 /\ HasText(file.pages[q]) => HasPage(qs, q)
  <2>1. ASSUME NEW q \in DOMAIN file.pages, q <= a + 1, HasText(file.pages[q])
        PROVE  HasPage(qs, q)
    <3>1. q <= a \/ q = a + 1
      BY <2>1
    <3>. QED  BY <1>3, <1>4, <2>1, <3>1 DEF ReadUpTo
  <2>. QED  BY <2>1
<1>9. ReadUpTo(qs, a + 1)
  BY <1>5, <1>8 DEF ReadUpTo
<1>10. NoPageMissing(qs)
  <2>1. ASSUME NEW j \in DOMAIN qs, NEW q \in DOMAIN file.pages, q < qs[j].number
        PROVE  q <= a + 1
    <3>1. qs[j].number \in Nat /\ qs[j].number <= a + 1 /\ q \in Nat
      BY <1>1, <1>2, <1>5
    <3>. QED  BY <2>1, <3>1
  <2>. QED  BY <1>8, <2>1 DEF NoPageMissing
<1>. QED  BY <1>6, <1>7, <1>9, <1>10

(* A page that is left out has no text. *)
LEMMA PageLeftOut ==
    ASSUME NEW ps \in Seq(PageRecord), NEW a \in Nat, ReadUpTo(ps, a),
           file.pages \in Seq(Seq(Lines)), a + 1 \in DOMAIN file.pages,
           ~HasText(file.pages[a + 1])
    PROVE  ReadUpTo(ps, a + 1)
<1>1. ASSUME NEW q \in DOMAIN file.pages, q <= a + 1, HasText(file.pages[q])
      PROVE  q <= a
  <2>1. q # a + 1
    BY <1>1
  <2>. QED  BY <1>1, <2>1
<1>2. \A i \in DOMAIN ps : ps[i].number <= a + 1
  <2>1. \A i \in DOMAIN ps : ps[i].number \in Nat /\ ps[i].number <= a
    BY PageNumber DEF ReadUpTo
  <2>. QED  BY <2>1
<1>. QED  BY <1>1, <1>2 DEF ReadUpTo

(* One more table injected. *)
LEMMA TableInjected ==
    ASSUME NEW ps \in Seq(PageRecord), NEW e \in PageRecord,
           PagesOfFile(ps), PagesRise(ps), NoPageMissing(ps),
           e.injected, TableRows(e.lines), NEW qs, qs = Append(ps, e)
    PROVE  PagesOfFile(qs) /\ PagesRise(qs) /\ NoPageMissing(qs)
<1>. DEFINE l == Len(ps) + 1
<1>1. /\ \A i \in DOMAIN ps : i \in DOMAIN qs /\ qs[i] = ps[i] /\ i < l /\ i \in Nat
      /\ l \in DOMAIN qs /\ qs[l] = e /\ l \in Nat
      /\ \A i \in DOMAIN qs : i \in DOMAIN ps \/ i = l
  BY OneMorePage
<1>. HIDE DEF l
<1>2. PagesOfFile(qs)
  BY <1>1 DEF PagesOfFile
<1>3. PagesRise(qs)
  <2>1. ASSUME NEW i \in DOMAIN qs, NEW j \in DOMAIN qs, i < j, ~qs[j].injected
        PROVE  ~qs[i].injected /\ qs[i].number < qs[j].number
    <3>1. j \in DOMAIN ps /\ i \in DOMAIN ps
      BY <1>1, <2>1
    <3>. QED  BY <1>1, <2>1, <3>1 DEF PagesRise
  <2>. QED  BY <2>1 DEF PagesRise
<1>4. \A q : HasPage(ps, q) => HasPage(qs, q)
  BY <1>1 DEF HasPage
<1>5. NoPageMissing(qs)
  BY <1>1, <1>4 DEF NoPageMissing
<1>. QED  BY <1>2, <1>3, <1>5

LEMMA StepPages == IInv /\ PagesInOrder /\ [Next]_vars => PagesInOrder'
<1>. SUFFICES ASSUME IInv, PagesInOrder, [Next]_vars PROVE PagesInOrder'
  OBVIOUS
<1>0. /\ pages \in Seq(PageRecord) /\ at \in Nat /\ trouble \in BOOLEAN
      /\ file.pages \in Seq(Seq(Lines))
      /\ file.tables \in Seq([page: Nat, rows: Seq(Lines)])
      /\ \A i \in DOMAIN file.tables : \A k \in DOMAIN file.tables[i].rows :
            file.tables[i].rows[k].kind \in {"row", "rule"}
      /\ pc = "read" => file.kind = "text"
      /\ file.kind = "pdf" => file.kind # "text"
  BY FilesAssumption DEF IInv, CodeTypes, Places
<1>1. ASSUME file' = file
      PROVE  /\ Faithful' <=> file.kind = "pdf" /\ ~trouble'
             /\ PagesOfFile(pages)' <=> PagesOfFile(pages')
             /\ PagesRise(pages)' <=> PagesRise(pages')
             /\ NoPageMissing(pages)' <=> NoPageMissing(pages')
             /\ ReadUpTo(pages, at)' <=> ReadUpTo(pages', at')
  BY <1>1 DEF Faithful, PagesOfFile, PagesRise, NoPageMissing, ReadUpTo, HasPage, TableRows
<1>2. ASSUME file' = file, trouble' = trouble, pages' = pages,
             pc' \notin {"fitz", "plumber", "read"}
      PROVE  PagesInOrder'
  BY <1>1, <1>2 DEF PagesInOrder, Faithful
<1>3. CASE ReadPage
  <2>1. /\ file' = file /\ trouble' = trouble /\ pc' = pc /\ pc \in {"fitz", "plumber"}
        /\ at < Len(file.pages) /\ at' = at + 1
    BY <1>3 DEF ReadPage
  <2>2. SUFFICES ASSUME Faithful
                 PROVE  /\ PagesOfFile(pages') /\ PagesRise(pages') /\ NoPageMissing(pages')
                        /\ pc = "fitz" /\ ~file.layer => pages' = <<>>
                        /\ pc = "plumber" \/ (pc = "fitz" /\ file.layer) => ReadUpTo(pages', at + 1)
    BY <1>1, <2>1 DEF PagesInOrder, Faithful
  <2>3. /\ PagesOfFile(pages) /\ PagesRise(pages) /\ NoPageMissing(pages)
        /\ pc = "fitz" /\ ~file.layer => pages = <<>>
        /\ pc = "plumber" \/ (pc = "fitz" /\ file.layer) => ReadUpTo(pages, at)
    BY <2>2 DEF PagesInOrder
  <2>4. at + 1 \in DOMAIN file.pages /\ file.pages[at + 1] \in Seq(Lines) /\ at + 1 \in Nat
    BY <1>0, <2>1
  <2>. DEFINE e == Page(at + 1, file.pages[at + 1], FALSE)
  <2>5. e \in PageRecord /\ e.number = at + 1 /\ e.lines = file.pages[at + 1] /\ ~e.injected
    BY <2>4, PageType DEF Page
  <2>6. pages' = IF HasText(file.pages[at + 1]) /\ (pc = "plumber" \/ file.layer)
                 THEN Append(pages, e) ELSE pages
    BY <1>3 DEF ReadPage
  <2>. HIDE DEF e
  <2>7. CASE HasText(file.pages[at + 1]) /\ (pc = "plumber" \/ file.layer)
    <3>1. pages' = Append(pages, e) /\ ReadUpTo(pages, at)
      BY <2>1, <2>3, <2>6, <2>7
    <3>2. PagesOfFile(pages') /\ PagesRise(pages') /\ NoPageMissing(pages') /\ ReadUpTo(pages', at + 1)
      BY <1>0, <2>3, <2>4, <2>5, <3>1, PageRead
    <3>. QED  BY <2>7, <3>2
  <2>8. CASE ~(HasText(file.pages[at + 1]) /\ (pc = "plumber" \/ file.layer))
    <3>1. pages' = pages
      BY <2>6, <2>8
    <3>2. ASSUME pc = "plumber" \/ (pc = "fitz" /\ file.layer)
          PROVE  ReadUpTo(pages, at + 1)
      BY <1>0, <2>3, <2>4, <2>8, <3>2, PageLeftOut
    <3>. QED  BY <2>3, <3>1, <3>2
  <2>. QED  BY <2>7, <2>8
<1>4. CASE FitzEnds
  <2>1. /\ file' = file /\ trouble' = trouble /\ pages' = pages /\ at' = 0
        /\ pc' = IF pages # <<>> THEN "tables" ELSE "plumber"
    BY <1>4 DEF FitzEnds, reading
  <2>2. CASE pages # <<>>
    BY <1>2, <2>1, <2>2
  <2>3. CASE pages = <<>>
    BY <1>0, <1>1, <2>1, <2>3, NoPages DEF PagesInOrder
  <2>. QED  BY <2>2, <2>3
<1>5. CASE FitzFails
  <2>1. /\ file' = file /\ pages' = pages /\ at' = 0 /\ pc' = "plumber"
        /\ trouble' = (pages # <<>>)
    BY <1>5 DEF FitzFails
  <2>. QED  BY <1>0, <1>1, <2>1, NoPages DEF PagesInOrder
<1>6. CASE InjectTable
  <2>1. /\ file' = file /\ trouble' = trouble /\ pc' = "tables" /\ at < Len(file.tables)
    BY <1>6 DEF InjectTable
  <2>. DEFINE t == file.tables[at + 1]
              e == Page(t.page, t.rows, TRUE)
  <2>2. pages' = IF Len(t.rows) >= 3 THEN Append(pages, e) ELSE pages
    BY <1>6 DEF InjectTable
  <2>3. CASE pages' = pages
    BY <1>2, <2>1, <2>3
  <2>4. CASE pages' = Append(pages, e) /\ Len(t.rows) >= 3
    <3>0. Len(file.tables) \in Nat /\ DOMAIN file.tables = 1..Len(file.tables)
      BY <1>0
    <3>1. t \in [page: Nat, rows: Seq(Lines)] /\ at + 1 \in DOMAIN file.tables
      BY <1>0, <2>1, <3>0, NextElement
    <3>2. t.page \in Nat /\ t.rows \in Seq(Lines) /\ Len(t.rows) \in Nat
      BY <3>1
    <3>3. e \in PageRecord /\ e.lines = t.rows /\ e.injected
      BY <3>2, PageType DEF Page
    <3>4. \A k \in DOMAIN t.rows : IsTableLine(t.rows[k])
      BY <1>0, <3>1 DEF IsTableLine
    <3>. HIDE DEF e, t
    <3>5. TableRows(e.lines)
      <4>1. Len(t.rows) > 1
        BY <2>4, <3>2
      <4>. QED  BY <3>3, <3>4, <4>1 DEF TableRows
    <3>6. ASSUME Faithful
          PROVE  PagesOfFile(pages') /\ PagesRise(pages') /\ NoPageMissing(pages')
      BY <1>0, <2>4, <3>3, <3>5, <3>6, TableInjected DEF PagesInOrder
    <3>. QED  BY <1>1, <2>1, <3>6 DEF PagesInOrder, Faithful
  <2>. QED  BY <2>2, <2>3, <2>4
<1>7. CASE ReadText
  <2>1. file' = file /\ file.kind = "text"
    BY <1>0, <1>7 DEF ReadText
  <2>. QED  BY <1>0, <1>1, <2>1 DEF PagesInOrder
<1>8. CASE UNCHANGED vars
  <2>1. file' = file /\ trouble' = trouble /\ pages' = pages /\ pc' = pc /\ at' = at
    BY <1>8 DEF vars
  <2>. QED  BY <1>1, <2>1 DEF PagesInOrder, Faithful
<1>9. CASE PlumberEnds \/ TablesEnd \/ Parse \/ Tables \/ Pack
  <2>1. file' = file /\ trouble' = trouble /\ pages' = pages
    BY <1>9 DEF PlumberEnds, TablesEnd, Parse, Tables, Pack, MergePage, MergeEnds, PopSection,
                ParseHeading, ParseBody, ParseEnds, ScanRow, ScanOther, SingleRow, TakeTable,
                StartSplit, SplitRow, SplitEnds, BlocksEnd, SkipNoSentence, PackOversized,
                PackOverflow, PackSentence, PackEnds, reading
  <2>2. pc' \notin {"fitz", "plumber", "read"}
    BY <1>9 DEF PlumberEnds, TablesEnd, Parse, Tables, Pack, MergePage, MergeEnds, PopSection,
                ParseHeading, ParseBody, ParseEnds, ScanRow, ScanOther, SingleRow, TakeTable,
                StartSplit, SplitRow, SplitEnds, BlocksEnd, SkipNoSentence, PackOversized,
                PackOverflow, PackSentence, PackEnds, NextSentence, RunEnds
  <2>. QED  BY <1>2, <2>1, <2>2
<1>. QED  BY <1>3, <1>4, <1>5, <1>6, <1>7, <1>8, <1>9 DEF Next, Extract, Done

LEMMA PagesAlwaysInOrder == Spec => [](IInv /\ PagesInOrder)
<1>1. Init => PagesInOrder
  <2>. SUFFICES ASSUME Init PROVE PagesInOrder
    OBVIOUS
  <2>1. file.pages \in Seq(Seq(Lines)) /\ pages = <<>> /\ at = 0
    BY FilesAssumption DEF Init
  <2>2. Faithful => pc # "read"
    BY DEF Init, Faithful
  <2>. QED  BY <2>1, <2>2, NoPages DEF PagesInOrder
<1>. QED  BY <1>1, Invariance, StepPages, PTL DEF Spec

-----------------------------------------------------------------------------
(* The section of a text chunk: the lines                                  *)

Level(p) == DetectHeading(lines[p].line)
Injected(p) == lines[p].from = 0

Before(a, b) == a.page < b.page \/ (a.page = b.page /\ a.from < b.from)
PlaceOf(p) == [page |-> lines[p].page, from |-> lines[p].from]

(* Position p is line k of page i of the list, or the blank line behind it. *)
LineOfPage(p, i, k) ==
    /\ lines[p].page = pages[i].number
    /\ lines[p].from = k
    /\ lines[p].line = IF k <= Len(pages[i].lines) THEN pages[i].lines[k] ELSE Blank

(* A line of an injected table has another one beside it.                  *)
InTable(p) ==
    /\ IsTableLine(lines[p].line)
    /\ \/ p + 1 \in Positions /\ IsTableLine(lines[p + 1].line)
       \/ p - 1 \in Positions /\ IsTableLine(lines[p - 1].line)

(* The first m pages are merged: each line is from one of them, in their   *)
(* order, and none is left out.                                            *)
FromPages(m) ==
    \A p \in Positions : \E i \in 1..m :
        IF Injected(p) THEN pages[i].injected
        ELSE /\ ~pages[i].injected
             /\ \E k \in 1..Len(pages[i].lines) + 1 : LineOfPage(p, i, k)

PlacesRise ==
    \A p, q \in Positions :
        p < q /\ ~Injected(q) => ~Injected(p) /\ Before(PlaceOf(p), PlaceOf(q))

NoLineMissing(m) ==
    \A i \in 1..m : ~pages[i].injected =>
        \A k \in 1..Len(pages[i].lines) : \E p \in Positions : LineOfPage(p, i, k)

TablesInjected == \A p \in Positions : Injected(p) => lines[p].line = Blank \/ InTable(p)

Merged == IF pc = "merge" THEN at ELSE Len(pages)

LinesInPlace ==
    Faithful /\ ~Extracting =>
        /\ pc = "merge" => at <= Len(pages)
        /\ FromPages(Merged) /\ PlacesRise /\ NoLineMissing(Merged) /\ TablesInjected

LEMMA NoLines ==
    ASSUME lines = <<>>
    PROVE  FromPages(0) /\ PlacesRise /\ NoLineMissing(0) /\ TablesInjected
<1>1. Positions = {} /\ 1..0 = {}
  BY DEF Positions
<1>. QED  BY <1>1 DEF FromPages, PlacesRise, NoLineMissing, TablesInjected

(* The lines behind those of the page merged. *)
LEMMA LinesBehind ==
    ASSUME lines \in Seq(LineRecord), NEW s \in Seq(LineRecord), lines' = lines \o s
    PROVE  /\ Len(lines) \in Nat /\ Len(s) \in Nat
           /\ \A p \in Positions : p \in Positions' /\ lines'[p] = lines[p] /\ p <= Len(lines) /\ p \in Nat
           /\ \A k \in 1..Len(s) : /\ Len(lines) + k \in Positions' /\ lines'[Len(lines) + k] = s[k]
                                   /\ Len(lines) + k > Len(lines)
           /\ \A p \in Positions' : p \in Positions \/ \E k \in 1..Len(s) : p = Len(lines) + k
<1>. DEFINE t == lines \o s
<1>1. Len(t) = Len(lines) + Len(s) /\ Len(lines) \in Nat /\ Len(s) \in Nat
  OBVIOUS
<1>2. \A p \in 1..Len(lines) : t[p] = lines[p]
  OBVIOUS
<1>3. \A k \in 1..Len(s) : t[Len(lines) + k] = s[k]
  <2>. SUFFICES ASSUME NEW k \in 1..Len(s) PROVE t[Len(lines) + k] = s[k]
    OBVIOUS
  <2>1. Len(lines) + k \in 1..Len(lines) + Len(s) /\ Len(lines) + k > Len(lines)
        /\ Len(lines) + k - Len(lines) = k
    BY <1>1
  <2>. QED  BY <1>1, <2>1
<1>4. lines' = t
  OBVIOUS
<1>. HIDE DEF t
<1>5. Positions = 1..Len(lines) /\ Positions' = 1..Len(lines) + Len(s)
  BY <1>1, <1>4 DEF Positions
<1>6. \A p \in Positions : p \in Positions' /\ p <= Len(lines) /\ p \in Nat
  BY <1>1, <1>5
<1>7. \A k \in 1..Len(s) : Len(lines) + k \in Positions' /\ Len(lines) + k > Len(lines)
  BY <1>1, <1>5
<1>8. ASSUME NEW p \in Positions', p \notin Positions
      PROVE  \E k \in 1..Len(s) : p = Len(lines) + k
  <2>1. p - Len(lines) \in 1..Len(s) /\ p = Len(lines) + (p - Len(lines))
    BY <1>1, <1>5, <1>8
  <2>. QED  BY <2>1
<1>. QED  BY <1>1, <1>2, <1>3, <1>4, <1>5, <1>6, <1>7, <1>8

LEMMA StepMergePage ==
    ASSUME IInv, Faithful, PagesInOrder, LinesInPlace, MergePage,
           NEW m, m = at + 1, NEW pg, pg = pages[at + 1],
           NEW N, N = Len(pg.lines), NEW L, L = Len(lines)
    PROVE  FromPages(m)' /\ PlacesRise' /\ NoLineMissing(m)' /\ TablesInjected'
<1>. DEFINE s == [i \in 1..N + 1 |-> [line |-> IF i <= N THEN pg.lines[i] ELSE Blank,
                                      page |-> pg.number,
                                      from |-> IF pg.injected THEN 0 ELSE i]]
<1>1. /\ pc = "merge" /\ at < Len(pages) /\ pages' = pages
      /\ lines' = lines \o s
  BY DEF MergePage, reading
<1>2. /\ pages \in Seq(PageRecord) /\ at \in Nat /\ lines \in Seq(LineRecord)
      /\ Blank \in Lines /\ Len(pages) \in Nat /\ DOMAIN pages = 1..Len(pages)
  BY IngestionAssumption DEF IInv, CodeTypes
<1>3. /\ FromPages(at) /\ PlacesRise /\ NoLineMissing(at) /\ TablesInjected
      /\ PagesOfFile(pages) /\ PagesRise(pages)
  BY <1>1 DEF LinesInPlace, PagesInOrder, Extracting, Merged
<1>4. /\ m \in DOMAIN pages /\ m \in 1..m /\ m \in Nat /\ pg = pages[m]
      /\ \A i \in 1..at : i \in 1..m /\ i < m /\ i \in DOMAIN pages /\ i \in Nat
      /\ \A i \in 1..m : i \in 1..at \/ i = m
  BY <1>1, <1>2
<1>5. pg \in PageRecord
  BY <1>2, <1>4
<1>6. pg.number \in Nat /\ pg.lines \in Seq(Lines) /\ pg.injected \in BOOLEAN /\ N \in Nat
      /\ DOMAIN pg.lines = 1..N
  BY <1>5 DEF PageRecord
<1>7. s \in Seq(LineRecord) /\ Len(s) = N + 1
  <2>1. ASSUME NEW i \in 1..N + 1
        PROVE  s[i] \in LineRecord
    <3>1. (IF i <= N THEN pg.lines[i] ELSE Blank) \in Lines
      BY <1>2, <1>6, <2>1
    <3>2. (IF pg.injected THEN 0 ELSE i) \in Nat
      BY <1>6, <2>1
    <3>3. s[i] = [line |-> IF i <= N THEN pg.lines[i] ELSE Blank, page |-> pg.number,
                  from |-> IF pg.injected THEN 0 ELSE i]
      BY <2>1
    <3>4. ASSUME NEW a \in Lines, NEW c \in Nat
          PROVE  [line |-> a, page |-> pg.number, from |-> c] \in LineRecord
      BY <1>6, <3>4 DEF LineRecord
    <3>. HIDE DEF s
    <3>5. ASSUME NEW a, a = IF i <= N THEN pg.lines[i] ELSE Blank,
                 NEW c, c = IF pg.injected THEN 0 ELSE i
          PROVE  s[i] \in LineRecord
      <4>1. a \in Lines /\ c \in Nat
        BY <3>1, <3>2, <3>5
      <4>2. s[i] = [line |-> a, page |-> pg.number, from |-> c]
        BY <3>3, <3>5
      <4>. QED  BY <3>4, <4>1, <4>2
    <3>. QED  BY <3>5
  <2>2. N + 1 \in Nat /\ DOMAIN s = 1..N + 1 /\ s = [i \in 1..N + 1 |-> s[i]]
    BY <1>6
  <2>. HIDE DEF s
  <2>3. s \in [1..N + 1 -> LineRecord]
    BY <2>1, <2>2
  <2>. QED  BY <2>2, <2>3
<1>8. \A k \in 1..N + 1 : /\ s[k].line = IF k <= N THEN pg.lines[k] ELSE Blank
                          /\ s[k].page = pg.number
                          /\ s[k].from = IF pg.injected THEN 0 ELSE k
  OBVIOUS
<1>. HIDE DEF s
<1>9. /\ L \in Nat
      /\ \A p \in Positions : p \in Positions' /\ lines'[p] = lines[p] /\ p <= L /\ p \in Nat
      /\ \A k \in 1..N + 1 : L + k \in Positions' /\ lines'[L + k] = s[k] /\ L + k > L
      /\ \A p \in Positions' : p \in Positions \/ \E k \in 1..N + 1 : p = L + k
  <2>1. /\ Len(lines) \in Nat /\ Len(s) \in Nat
        /\ \A p \in Positions : p \in Positions' /\ lines'[p] = lines[p] /\ p <= Len(lines) /\ p \in Nat
        /\ \A k \in 1..Len(s) : /\ Len(lines) + k \in Positions' /\ lines'[Len(lines) + k] = s[k]
                                /\ Len(lines) + k > Len(lines)
        /\ \A p \in Positions' : p \in Positions \/ \E k \in 1..Len(s) : p = Len(lines) + k
    BY <1>1, <1>2, <1>7, LinesBehind
  <2>2. Len(s) = N + 1 /\ Len(lines) = L
    BY <1>7
  <2>. QED  BY <2>1, <2>2
<1>10. \A p \in Positions : /\ Injected(p)' <=> Injected(p)
                            /\ PlaceOf(p)' = PlaceOf(p)
                            /\ \A i, k : LineOfPage(p, i, k)' <=> LineOfPage(p, i, k)
  BY <1>1, <1>9 DEF Injected, PlaceOf, LineOfPage
<1>11. \A k \in 1..N + 1 : /\ Injected(L + k)' <=> pg.injected
                           /\ ~pg.injected => /\ PlaceOf(L + k)' = [page |-> pg.number, from |-> k]
                                              /\ LineOfPage(L + k, m, k)'
  <2>. SUFFICES ASSUME NEW k \in 1..N + 1
                PROVE  /\ Injected(L + k)' <=> pg.injected
                       /\ ~pg.injected => /\ PlaceOf(L + k)' = [page |-> pg.number, from |-> k]
                                          /\ LineOfPage(L + k, m, k)'
    OBVIOUS
  <2>1. k # 0 /\ lines'[L + k] = s[k]
    BY <1>6, <1>9
  <2>2. Injected(L + k)' <=> pg.injected
    BY <1>8, <2>1 DEF Injected
  <2>3. ~pg.injected => PlaceOf(L + k)' = [page |-> pg.number, from |-> k]
    BY <1>8, <2>1 DEF PlaceOf
  <2>4. ~pg.injected => LineOfPage(L + k, m, k)'
    BY <1>1, <1>4, <1>8, <2>1 DEF LineOfPage
  <2>. QED  BY <2>2, <2>3, <2>4
<1>12. FromPages(m)'
  <2>1. ASSUME NEW p \in Positions'
        PROVE  \E i \in 1..m :
                  IF Injected(p)' THEN pages[i].injected
                  ELSE /\ ~pages[i].injected
                       /\ \E k \in 1..Len(pages[i].lines) + 1 : LineOfPage(p, i, k)'
    <3>1. CASE p \in Positions
      <4>1. PICK i \in 1..at :
                  IF Injected(p) THEN pages[i].injected
                  ELSE /\ ~pages[i].injected
                       /\ \E k \in 1..Len(pages[i].lines) + 1 : LineOfPage(p, i, k)
        BY <1>3, <3>1 DEF FromPages
      <4>. QED  BY <1>4, <1>10, <3>1, <4>1
    <3>2. ASSUME NEW k \in 1..N + 1, p = L + k
          PROVE  IF Injected(p)' THEN pages[m].injected
                 ELSE /\ ~pages[m].injected
                      /\ \E j \in 1..Len(pages[m].lines) + 1 : LineOfPage(p, m, j)'
      BY <1>4, <1>11, <3>2
    <3>. QED  BY <1>4, <1>9, <3>1, <3>2
  <2>. QED  BY <1>1, <2>1 DEF FromPages
<1>13. PlacesRise'
  <2>1. ASSUME NEW p \in Positions', NEW q \in Positions', p < q, ~Injected(q)'
        PROVE  ~Injected(p)' /\ Before(PlaceOf(p)', PlaceOf(q)')
    <3>1. CASE q \in Positions
      <4>1. p \in Positions
        <5>1. q \in Nat /\ q <= L
          BY <1>9, <3>1
        <5>2. \A k \in 1..N + 1 : p # L + k
          BY <1>6, <1>9, <2>1, <5>1
        <5>. QED  BY <1>9, <5>2
      <4>. QED  BY <1>3, <1>10, <2>1, <3>1, <4>1 DEF PlacesRise
    <3>2. ASSUME NEW k \in 1..N + 1, q = L + k
          PROVE  ~Injected(p)' /\ Before(PlaceOf(p)', PlaceOf(q)')
      <4>1. ~pg.injected /\ PlaceOf(q)' = [page |-> pg.number, from |-> k]
        BY <1>11, <2>1, <3>2
      <4>2. CASE p \in Positions
        <5>1. PICK i \in 1..at :
                  IF Injected(p) THEN pages[i].injected
                  ELSE /\ ~pages[i].injected
                       /\ \E j \in 1..Len(pages[i].lines) + 1 : LineOfPage(p, i, j)
          BY <1>3, <4>2 DEF FromPages
        <5>2. ~pages[i].injected /\ pages[i].number < pg.number
          BY <1>3, <1>4, <4>1 DEF PagesRise
        <5>3. ~Injected(p) /\ PlaceOf(p).page = pages[i].number
          BY <5>1, <5>2 DEF LineOfPage, PlaceOf
        <5>. QED  BY <1>10, <4>1, <4>2, <5>2, <5>3 DEF Before
      <4>3. ASSUME NEW j \in 1..N + 1, p = L + j
            PROVE  ~Injected(p)' /\ Before(PlaceOf(p)', PlaceOf(q)')
        <5>1. ~Injected(p)' /\ PlaceOf(p)' = [page |-> pg.number, from |-> j]
          BY <1>11, <4>1, <4>3
        <5>2. j < k
          BY <1>6, <1>9, <2>1, <3>2, <4>3
        <5>. QED  BY <4>1, <5>1, <5>2 DEF Before
      <4>. QED  BY <1>9, <4>2, <4>3
    <3>. QED  BY <1>9, <3>1, <3>2
  <2>. QED  BY <2>1 DEF PlacesRise, Before
<1>14. NoLineMissing(m)'
  <2>1. ASSUME NEW i \in 1..m, ~pages[i].injected, NEW k \in 1..Len(pages[i].lines)
        PROVE  \E p \in Positions' : LineOfPage(p, i, k)'
    <3>1. CASE i \in 1..at
      <4>1. PICK p \in Positions : LineOfPage(p, i, k)
        BY <1>3, <2>1, <3>1 DEF NoLineMissing
      <4>. QED  BY <1>9, <1>10, <4>1
    <3>2. CASE i = m
      <4>1. k \in 1..N + 1 /\ ~pg.injected
        BY <1>4, <1>6, <2>1, <3>2
      <4>. QED  BY <1>9, <1>11, <3>2, <4>1
    <3>. QED  BY <1>4, <3>1, <3>2
  <2>. QED  BY <1>1, <2>1 DEF NoLineMissing
<1>15. TablesInjected'
  <2>1. ASSUME NEW p \in Positions, Injected(p)
        PROVE  lines'[p].line = Blank \/ InTable(p)'
    <3>1. lines[p].line = Blank \/ InTable(p)
      BY <1>3, <2>1 DEF TablesInjected
    <3>2. InTable(p) => InTable(p)'
      BY <1>9 DEF InTable
    <3>. QED  BY <1>9, <3>1, <3>2
  <2>2. ASSUME NEW k \in 1..N + 1, pg.injected
        PROVE  lines'[L + k].line = Blank \/ InTable(L + k)'
    <3>1. TableRows(pg.lines)
      BY <1>3, <1>4, <2>2 DEF PagesOfFile
    <3>2. N > 1 /\ \A j \in 1..N : IsTableLine(pg.lines[j])
      BY <1>6, <3>1 DEF TableRows
    <3>3. \A j \in 1..N : j \in 1..N + 1 /\ s[j].line = pg.lines[j]
      BY <1>6, <1>8
    <3>4. \A j \in 1..N : L + j \in Positions' /\ IsTableLine(lines'[L + j].line)
      <4>1. ASSUME NEW j \in 1..N
            PROVE  L + j \in Positions' /\ IsTableLine(lines'[L + j].line)
        <5>1. L + j \in Positions' /\ lines'[L + j] = s[j] /\ s[j].line = pg.lines[j]
          BY <1>9, <3>3, <4>1
        <5>2. IsTableLine(pg.lines[j])
          BY <3>2, <4>1
        <5>3. lines'[L + j].line = pg.lines[j]
          BY <5>1
        <5>. QED  BY <5>1, <5>2, <5>3, Zenon
      <4>. QED  BY <4>1
    <3>5. CASE k = N + 1
      <4>1. s[k].line = Blank
        BY <1>6, <1>8, <3>5
      <4>. QED  BY <1>9, <4>1
    <3>6. CASE k < N
      <4>1. k \in 1..N /\ k + 1 \in 1..N /\ L + k + 1 = L + (k + 1)
        BY <1>6, <1>9, <3>6
      <4>. QED  BY <3>4, <4>1 DEF InTable
    <3>7. CASE k = N
      <4>1. k \in 1..N /\ k - 1 \in 1..N /\ L + k - 1 = L + (k - 1)
        BY <1>6, <1>9, <3>2, <3>7
      <4>2. L + k - 1 \in Positions' /\ IsTableLine(lines'[L + k - 1].line)
        BY <3>4, <4>1, Zenon
      <4>. QED  BY <3>4, <4>1, <4>2 DEF InTable
    <3>. QED  BY <1>6, <3>5, <3>6, <3>7
  <2>3. ASSUME NEW p \in Positions', Injected(p)'
        PROVE  lines'[p].line = Blank \/ InTable(p)'
    <3>1. CASE p \in Positions
      BY <1>10, <2>1, <2>3, <3>1
    <3>2. ASSUME NEW k \in 1..N + 1, p = L + k
          PROVE  lines'[p].line = Blank \/ InTable(p)'
      BY <1>11, <2>2, <2>3, <3>2
    <3>. QED  BY <1>9, <3>1, <3>2
  <2>. QED  BY <2>3 DEF TablesInjected
<1>. QED  BY <1>12, <1>13, <1>14, <1>15

LEMMA StepLines == IInv /\ PagesInOrder /\ LinesInPlace /\ [Next]_vars => LinesInPlace'
<1>. SUFFICES ASSUME IInv, PagesInOrder, LinesInPlace, [Next]_vars PROVE LinesInPlace'
  OBVIOUS
<1>1. ASSUME NEW m, lines' = lines, pages' = pages
      PROVE  /\ FromPages(m)' <=> FromPages(m)
             /\ PlacesRise' <=> PlacesRise
             /\ NoLineMissing(m)' <=> NoLineMissing(m)
             /\ TablesInjected' <=> TablesInjected
  BY <1>1 DEF FromPages, PlacesRise, NoLineMissing, TablesInjected, Injected, LineOfPage,
              PlaceOf, InTable, Positions
<1>2. ASSUME NEW m, Merged' = m
      PROVE  /\ FromPages(Merged)' <=> FromPages(m)'
             /\ NoLineMissing(Merged)' <=> NoLineMissing(m)'
  BY <1>2 DEF FromPages, NoLineMissing
<1>3. ASSUME NEW m, Merged' = m, pc' = "merge" => at' <= Len(pages'),
             Faithful' => FromPages(m)' /\ PlacesRise' /\ NoLineMissing(m)' /\ TablesInjected'
      PROVE  LinesInPlace'
  BY <1>2, <1>3 DEF LinesInPlace
<1>4. pages \in Seq(PageRecord) /\ at \in Nat /\ Len(pages) \in Nat
  BY DEF IInv, CodeTypes
<1>5. CASE Extract
  <2>1. lines = <<>>
    BY <1>5 DEF Extract, ReadPage, FitzEnds, FitzFails, PlumberEnds, InjectTable, TablesEnd,
                ReadText, IInv, Places, Extracting
  <2>2. lines' = lines
    BY <1>5 DEF Extract, ReadPage, FitzEnds, FitzFails, PlumberEnds, InjectTable, TablesEnd,
                ReadText
  <2>3. FromPages(0)' /\ PlacesRise' /\ NoLineMissing(0)' /\ TablesInjected'
    <3>1. Positions' = {} /\ 1..0 = {}
      BY <2>1, <2>2 DEF Positions
    <3>. QED  BY <3>1 DEF FromPages, PlacesRise, NoLineMissing, TablesInjected
  <2>4. CASE ReadPage \/ FitzEnds \/ FitzFails \/ InjectTable
    <3>1. Extracting'
      BY <2>4 DEF ReadPage, FitzEnds, FitzFails, InjectTable, Extracting
    <3>. QED  BY <3>1 DEF LinesInPlace
  <2>5. CASE TablesEnd
    <3>1. Merged' = 0 /\ at' = 0 /\ Len(pages') \in Nat
      BY <1>4, <2>5 DEF TablesEnd, Merged, reading
    <3>. QED  BY <1>3, <2>3, <3>1
  <2>6. CASE PlumberEnds
    <3>1. CASE pages = <<>>
      <4>1. Merged' = 0 /\ pc' = "done"
        BY <2>6, <3>1 DEF PlumberEnds, Merged, reading
      <4>. QED  BY <1>3, <2>3, <4>1
    <3>2. CASE pages # <<>>
      <4>1. Extracting'
        BY <2>6, <3>2 DEF PlumberEnds, Extracting
      <4>. QED  BY <4>1 DEF LinesInPlace
    <3>. QED  BY <3>1, <3>2
  <2>7. CASE ReadText
    <3>1. file' = file /\ file.kind = "text"
      BY <2>7 DEF ReadText, IInv, Places
    <3>. QED  BY <3>1 DEF LinesInPlace, Faithful
  <2>. QED  BY <1>5, <2>4, <2>5, <2>6, <2>7 DEF Extract
<1>6. CASE MergePage
  <2>1. /\ pc = "merge" /\ pc' = "merge" /\ at' = at + 1 /\ pages' = pages /\ file' = file
        /\ trouble' = trouble /\ at < Len(pages)
    BY <1>6 DEF MergePage, reading
  <2>2. Faithful' <=> Faithful
    BY <2>1 DEF Faithful
  <2>. DEFINE m == at + 1
  <2>3. m = at + 1 /\ Merged' = at' /\ at' = m /\ m <= Len(pages)
    BY <1>4, <2>1 DEF Merged
  <2>4. ASSUME NEW k, k = at + 1, NEW pg, pg = pages[at + 1],
               NEW N, N = Len(pg.lines), NEW L, L = Len(lines)
        PROVE  LinesInPlace'
    <3>1. Faithful => FromPages(k)' /\ PlacesRise' /\ NoLineMissing(k)' /\ TablesInjected'
      BY <1>6, <2>4, StepMergePage
    <3>. QED  BY <1>3, <2>1, <2>2, <2>3, <2>4, <3>1
  <2>. QED  BY <2>4
<1>7. CASE /\ lines' = lines /\ pages' = pages /\ file' = file /\ trouble' = trouble
           /\ ~Extracting /\ pc' # "merge"
           /\ pc = "merge" => at = Len(pages)
  <2>1. Faithful' <=> Faithful
    BY <1>7 DEF Faithful
  <2>2. ASSUME NEW k, k = Len(pages)
        PROVE  LinesInPlace'
    <3>1. Merged' = k /\ Merged = k
      BY <1>7, <2>2 DEF Merged
    <3>2. Faithful => FromPages(k) /\ PlacesRise /\ NoLineMissing(k) /\ TablesInjected
      BY <1>7, <3>1 DEF LinesInPlace
    <3>. QED  BY <1>1, <1>3, <1>7, <2>1, <3>1, <3>2
  <2>. QED  BY <2>2
<1>8. CASE MergeEnds
  <2>1. /\ lines' = lines /\ pages' = pages /\ file' = file /\ trouble' = trouble
        /\ pc = "merge" /\ pc' = "parse" /\ at = Len(pages)
    BY <1>8 DEF MergeEnds, reading
  <2>. QED  BY <1>7, <2>1 DEF Extracting
<1>9. CASE PopSection \/ ParseHeading \/ ParseBody \/ ParseEnds \/ Tables \/ Pack
  <2>1. lines' = lines /\ pages' = pages /\ file' = file /\ trouble' = trouble
    BY <1>9 DEF Tables, Pack, PopSection, ParseHeading, ParseBody, ParseEnds, ScanRow, ScanOther,
                SingleRow, TakeTable, StartSplit, SplitRow, SplitEnds, BlocksEnd, SkipNoSentence,
                PackOversized, PackOverflow, PackSentence, PackEnds, reading
  <2>2. pc \in {"parse", "blocks", "split", "pack"} /\ pc' # "merge"
    BY <1>9 DEF Tables, Pack, PopSection, ParseHeading, ParseBody, ParseEnds, ScanRow, ScanOther,
                SingleRow, TakeTable, StartSplit, SplitRow, SplitEnds, BlocksEnd, SkipNoSentence,
                PackOversized, PackOverflow, PackSentence, PackEnds, NextSentence, RunEnds
  <2>. QED  BY <1>7, <2>1, <2>2 DEF Extracting
<1>10. CASE UNCHANGED vars
  <2>1. /\ lines' = lines /\ pages' = pages /\ file' = file /\ trouble' = trouble
        /\ pc' = pc /\ at' = at
    BY <1>10 DEF vars
  <2>2. (Faithful' <=> Faithful) /\ (Extracting' <=> Extracting) /\ Merged' = Merged
    BY <2>1 DEF Faithful, Extracting, Merged
  <2>3. ASSUME NEW k, k = Merged
        PROVE  LinesInPlace'
    BY <1>1, <1>2, <2>1, <2>2, <2>3 DEF LinesInPlace
  <2>. QED  BY <2>3
<1>. QED  BY <1>5, <1>6, <1>8, <1>9, <1>10 DEF Next, Parse, Done

LEMMA LinesAlwaysInPlace == Spec => [](IInv /\ PagesInOrder /\ LinesInPlace)
<1>1. Init => LinesInPlace
  BY FilesAssumption DEF Init, LinesInPlace, Extracting
<1>. QED  BY <1>1, PagesAlwaysInOrder, StepLines, PTL DEF Spec

-----------------------------------------------------------------------------
(* The section of a text chunk: the outline                                *)

(* The headings up to position a that no later one has closed.             *)
Outline(a) ==
    {h \in 1..a : /\ Level(h) > 0
                  /\ \A g \in h + 1..a : Level(g) > 0 => Level(g) > Level(h)}

(* A section is its heading, if it has one, and the lines behind it, which *)
(* are no headings; the sections follow each other without a gap.          *)
Tiled(a) ==
    /\ nodes # <<>> => nodes[1].head = 0 /\ nodes[1].level = 0
    /\ \A n \in DOMAIN nodes :
          /\ n > 1 => /\ nodes[n].head > 0 /\ nodes[n].level = Level(nodes[n].head)
                      /\ nodes[n].level > 0
          /\ \A i \in DOMAIN nodes[n].lines : /\ nodes[n].lines[i] = nodes[n].head + i
                                              /\ Level(nodes[n].lines[i]) = 0
          /\ nodes[n].head + Len(nodes[n].lines)
                = IF n < Len(nodes) THEN nodes[n + 1].head - 1 ELSE a

(* The path of a section is the outline at its heading.                    *)
PathsAreOutlines ==
    \A n \in DOMAIN nodes :
        /\ Rising(nodes[n].path)
        /\ \A h : h \in Outline(nodes[n].head)
                     <=> \E m \in DOMAIN nodes[n].path : nodes[n].path[m] = h

(* The open sections go down, and their headings give the path.            *)
StackGoesDown ==
    /\ stack[1] = 1
    /\ \A i, j \in DOMAIN stack : i < j =>
          /\ nodes[stack[i]].level < nodes[stack[j]].level
          /\ nodes[stack[i]].head < nodes[stack[j]].head
    /\ \A i \in DOMAIN stack :
          /\ Len(nodes[stack[i]].path) = i - 1
          /\ \A m \in 1..i - 1 : nodes[stack[i]].path[m] = nodes[stack[m + 1]].head

(* They are the outline at the line reached, but for those that the        *)
(* heading at hand has closed already.                                     *)
AtHeading == at < Len(lines) /\ Heading > 0

StackIsOutline ==
    /\ Top = Len(nodes) \/ AtHeading
    /\ \A i \in DOMAIN stack : i > 1 => nodes[stack[i]].head \in Outline(at)
    /\ \A h \in Outline(at) : \/ \E i \in DOMAIN stack : i > 1 /\ nodes[stack[i]].head = h
                              \/ AtHeading /\ Level(h) >= Heading

Parsed == IF pc = "parse" THEN at ELSE Len(lines)

SectionsInPlace ==
    /\ Extracting \/ pc = "merge" => nodes = <<>>
    /\ nodes # <<>> => Tiled(Parsed) /\ PathsAreOutlines
    /\ pc = "parse" => at <= Len(lines) /\ StackGoesDown /\ StackIsOutline

(* A text chunk names its section's path and has sentences of the section. *)
SentenceOf(n, p) ==
    \E m \in DOMAIN nodes[n].lines : nodes[n].lines[m] = p /\ IsSentence(nodes[n].lines, m)

Sourced(cs) ==
    \A i \in DOMAIN cs : IsText(cs[i]) =>
        /\ cs[i].node \in DOMAIN nodes
        /\ cs[i].path = nodes[cs[i].node].path
        /\ \A k \in DOMAIN cs[i].body : SentenceOf(cs[i].node, cs[i].body[k])

TextsSourced ==
    /\ Sourced(chunks)
    /\ pc \notin {"pack", "blocks", "split", "done"} => chunks = <<>>
    /\ pc = "pack" => \A k \in DOMAIN cur.body : SentenceOf(node, cur.body[k])

(* The level of a line that has been merged. *)
LEMMA LevelType ==
    ASSUME lines \in Seq(LineRecord), NEW p \in Positions
    PROVE  Level(p) \in 0..4
<1>1. lines[p] \in LineRecord
  BY DEF Positions
<1>2. lines[p].line \in LineType
  BY <1>1, IngestionAssumption DEF LineRecord
<1>. QED  BY <1>2, HeadingLevel DEF Level

(* The next line leaves the outline as it is or, being a heading, closes   *)
(* what is not above it and joins.                                         *)
LEMMA OutlineAtBody ==
    ASSUME NEW a \in Nat, Level(a + 1) = 0
    PROVE  \A h : h \in Outline(a + 1) <=> h \in Outline(a)
<1>1. \A h \in 1..a : \A g : g \in h + 1..a + 1 <=> g \in h + 1..a \/ g = a + 1
  OBVIOUS
<1>2. \A h : h \in 1..a + 1 <=> h \in 1..a \/ h = a + 1
  OBVIOUS
<1>3. ~(Level(a + 1) > 0)
  OBVIOUS
<1>. QED  BY <1>1, <1>2, <1>3 DEF Outline

LEMMA OutlineAtHeading ==
    ASSUME NEW a \in Nat, Level(a + 1) > 0
    PROVE  \A h : h \in Outline(a + 1) <=> \/ h = a + 1
                                           \/ h \in Outline(a) /\ Level(a + 1) > Level(h)
<1>1. \A h \in 1..a : \A g : g \in h + 1..a + 1 <=> g \in h + 1..a \/ g = a + 1
  OBVIOUS
<1>2. \A h : h \in 1..a + 1 <=> h \in 1..a \/ h = a + 1
  OBVIOUS
<1>3. (a + 1) + 1..a + 1 = {} /\ a + 1 \notin 1..a
  OBVIOUS
<1>. QED  BY <1>1, <1>2, <1>3 DEF Outline

LEMMA OutlineIsBefore ==
    ASSUME NEW a \in Nat, NEW h \in Outline(a)
    PROVE  h \in 1..a /\ h \in Nat
BY DEF Outline

(* While lines and sections stay, so do outlines and tiling. *)
LEMMA SectionsFrame ==
    ASSUME lines' = lines, nodes' = nodes, NEW a
    PROVE  /\ Outline(a)' = Outline(a)
           /\ Tiled(a)' <=> Tiled(a)
           /\ PathsAreOutlines' <=> PathsAreOutlines
BY DEF Outline, Tiled, PathsAreOutlines, Level

LEMMA OutlineStays ==
    ASSUME lines' = lines, NEW a
    PROVE  Outline(a)' = Outline(a) /\ Level(a)' = Level(a)
BY DEF Outline, Level

(* A heading: its section has the outline that holds there as its path. *)
LEMMA StepHeading ==
    ASSUME IInv, SectionsInPlace, ParseHeading, NEW a, a = at, NEW b, b = a + 1
    PROVE  Tiled(b)' /\ PathsAreOutlines' /\ StackGoesDown' /\ StackIsOutline'
<1>0. SUFFICES ASSUME NEW n, n = Len(nodes), NEW k, k = Len(stack), NEW t, t = Top, NEW H, H = Heading,
                     NEW sec, sec = [level |-> H, head |-> b, page |-> lines[b].page,
                                     path |-> Append(nodes[t].path, b), lines |-> <<>>]
              PROVE  Tiled(b)' /\ PathsAreOutlines' /\ StackGoesDown' /\ StackIsOutline'
  OBVIOUS
<1>1. /\ pc = "parse" /\ a < Len(lines) /\ H > 0 /\ at' = b /\ lines' = lines
      /\ nodes' = Append(nodes, sec) /\ stack' = Append(stack, n + 1)
      /\ k = 1 \/ ~(k > 1) \/ ~(nodes[t].level >= H)
  BY <1>0 DEF ParseHeading, reading, Closes
<1>2. /\ nodes \in Seq(NodeRecord) /\ stack \in Seq(1..n) /\ lines \in Seq(LineRecord)
      /\ a \in Nat /\ stack # <<>> /\ nodes # <<>>
  BY <1>0, <1>1 DEF IInv, CodeTypes, Places
<1>3. /\ Tiled(a) /\ PathsAreOutlines /\ StackGoesDown /\ StackIsOutline
  BY <1>1, <1>2 DEF SectionsInPlace, Parsed
<1>4. n \in Nat /\ n > 0 /\ k \in Nat /\ k > 0 /\ b \in Nat /\ b \in Positions
  BY <1>0, <1>1, <1>2 DEF Positions
<1>5. t = stack[k] /\ t \in 1..n /\ nodes[t] \in NodeRecord /\ \A i \in 1..k : stack[i] \in 1..n
  BY <1>0, <1>2, <1>4 DEF Top
<1>6. \A i \in 1..n : /\ nodes[i] \in NodeRecord /\ nodes[i].level \in Nat /\ nodes[i].head \in Nat
                      /\ nodes[i].path \in Seq(Positions)
  <2>1. \A i \in 1..n : nodes[i] \in NodeRecord
    BY <1>0, <1>2
  <2>. QED  BY <2>1 DEF NodeRecord, Positions
<1>7. H = Level(b) /\ H \in Nat /\ H = Heading
  <2>1. H = Level(b)
    BY <1>0 DEF Heading, Level
  <2>2. Level(b) \in 0..4
    BY <1>2, <1>4, LevelType
  <2>. QED  BY <1>0, <2>1, <2>2
<1>8. /\ DOMAIN nodes = 1..n /\ Len(nodes) = n /\ DOMAIN nodes' = 1..n + 1 /\ Len(nodes') = n + 1
      /\ \A i \in 1..n : nodes'[i] = nodes[i] /\ i \in 1..n + 1
      /\ nodes'[n + 1] = sec /\ nodes' # <<>>
      /\ \A i \in 1..n + 1 : i \in 1..n \/ i = n + 1
  <2>1. Len(nodes) = n
    BY <1>0
  <2>. DEFINE S == NodeRecord \cup {sec}
  <2>2. nodes \in Seq(S) /\ sec \in S
    BY <1>2
  <2>. HIDE DEF S
  <2>3. nodes' \in Seq(S) /\ nodes' # <<>> /\ Len(nodes') = n + 1
    BY <1>1, <2>1, <2>2, Appended
  <2>4. (\A i \in 1..n : nodes'[i] = nodes[i]) /\ nodes'[n + 1] = sec
    BY <1>1, <2>1, <2>2, AppendedEnd
  <2>. QED  BY <1>2, <1>4, <2>1, <2>3, <2>4
<1>9. /\ DOMAIN stack = 1..k /\ DOMAIN stack' = 1..k + 1 /\ Len(stack') = k + 1
      /\ \A i \in 1..k : stack'[i] = stack[i] /\ i \in 1..k + 1
      /\ stack'[k + 1] = n + 1
      /\ \A i \in 1..k + 1 : i \in 1..k \/ i = k + 1
  <2>1. stack \in Seq(Nat) /\ n + 1 \in Nat
    BY <1>2, <1>4
  <2>2. Len(stack) = k
    BY <1>0
  <2>. QED  BY <1>1, <1>4, <2>1, <2>2
<1>10. sec.level = H /\ sec.head = b /\ sec.path = Append(nodes[t].path, b) /\ sec.lines = <<>>
  BY <1>0
<1>11. /\ nodes[1].head = 0 /\ nodes[1].level = 0 /\ stack[1] = 1 /\ 1 \in 1..k
       /\ \A i \in 1..k : i > 1 => /\ nodes[stack[i]].head > 0 /\ stack[i] # 1
                                   /\ nodes[stack[i]].level = Level(nodes[stack[i]].head)
                                   /\ nodes[stack[i]].head \in Outline(a)
                                   /\ nodes[stack[i]].head \in 1..a
                                   /\ H > nodes[stack[i]].level
  <2>1. nodes[1].head = 0 /\ nodes[1].level = 0 /\ stack[1] = 1 /\ 1 \in 1..k
    BY <1>2, <1>3, <1>4 DEF Tiled, StackGoesDown
  <2>2. ASSUME NEW i \in 1..k, i > 1
        PROVE  /\ nodes[stack[i]].head > 0 /\ stack[i] # 1
               /\ nodes[stack[i]].level = Level(nodes[stack[i]].head)
               /\ nodes[stack[i]].head \in Outline(a)
               /\ nodes[stack[i]].head \in 1..a
               /\ H > nodes[stack[i]].level
    <3>1. nodes[stack[i]].head > 0
      BY <1>3, <1>9, <2>1, <2>2 DEF StackGoesDown
    <3>2. stack[i] # 1 /\ stack[i] \in 1..n
      BY <1>5, <2>1, <3>1
    <3>3. nodes[stack[i]].level = Level(nodes[stack[i]].head)
      BY <1>3, <1>8, <3>2 DEF Tiled
    <3>4. nodes[stack[i]].head \in Outline(a)
      BY <1>3, <1>9, <2>2 DEF StackIsOutline
    <3>5. nodes[stack[i]].level <= nodes[t].level
      <4>1. CASE i = k
        BY <1>5, <1>6, <4>1
      <4>2. CASE i < k
        <5>1. i \in DOMAIN stack /\ k \in DOMAIN stack
          BY <1>4, <1>9
        <5>2. nodes[stack[i]].level < nodes[stack[k]].level
          BY <1>3, <4>2, <5>1 DEF StackGoesDown
        <5>3. nodes[stack[i]].level \in Nat /\ nodes[stack[k]].level \in Nat
          BY <1>5, <1>6, <3>2
        <5>. QED  BY <1>5, <5>2, <5>3
      <4>. QED  BY <1>4, <4>1, <4>2
    <3>6. ~(nodes[t].level >= H)
      BY <1>1, <1>4, <2>2
    <3>7. H > nodes[stack[i]].level
      BY <1>5, <1>6, <1>7, <3>2, <3>5, <3>6
    <3>. QED  BY <1>2, <3>1, <3>2, <3>3, <3>4, <3>7, OutlineIsBefore
  <2>. QED  BY <2>1, <2>2
<1>12. \A h : h \in Outline(b)' <=> h = b \/ \E i \in 1..k : i > 1 /\ nodes[stack[i]].head = h
  <2>1. Outline(b)' = Outline(b)
    BY <1>1, OutlineStays
  <2>2. \A h : h \in Outline(b) <=> h = b \/ (h \in Outline(a) /\ H > Level(h))
    BY <1>1, <1>2, <1>7, OutlineAtHeading
  <2>3. ASSUME NEW i \in 1..k, i > 1
        PROVE  nodes[stack[i]].head \in Outline(a) /\ H > Level(nodes[stack[i]].head)
    BY <1>11, <2>3
  <2>4. ASSUME NEW h \in Outline(a), H > Level(h)
        PROVE  \E i \in 1..k : i > 1 /\ nodes[stack[i]].head = h
    <3>1. h \in Positions
      <4>1. h \in 1..a /\ Len(lines) \in Nat
        BY <1>2, OutlineIsBefore
      <4>. QED  BY <1>1, <1>2, <4>1 DEF Positions
    <3>2. Level(h) \in Nat
      BY <1>2, <3>1, LevelType
    <3>3. ~(Level(h) >= H)
      BY <1>7, <2>4, <3>2
    <3>4. h \in Outline(at) /\ ~(Level(h) >= Heading)
      BY <1>7, <2>4, <3>3
    <3>5. \E i \in DOMAIN stack : i > 1 /\ nodes[stack[i]].head = h
      BY <1>3, <3>4 DEF StackIsOutline
    <3>. QED  BY <1>9, <3>5
  <2>. QED  BY <2>1, <2>2, <2>3, <2>4
<1>13. Tiled(b)'
  <2>1. ASSUME NEW i \in 1..n + 1
        PROVE  /\ i > 1 => /\ nodes'[i].head > 0
                           /\ nodes'[i].level = DetectHeading(lines'[nodes'[i].head].line)
                           /\ nodes'[i].level > 0
               /\ \A j \in DOMAIN nodes'[i].lines :
                     /\ nodes'[i].lines[j] = nodes'[i].head + j
                     /\ DetectHeading(lines'[nodes'[i].lines[j]].line) = 0
               /\ nodes'[i].head + Len(nodes'[i].lines)
                     = IF i < n + 1 THEN nodes'[i + 1].head - 1 ELSE b
    <3>0. \A p : DetectHeading(lines'[p].line) = Level(p)
      BY <1>1 DEF Level
    <3>1. CASE i = n + 1
      <4>1. nodes'[i].head = b /\ nodes'[i].level = H /\ nodes'[i].lines = <<>>
        BY <1>8, <1>10, <3>1
      <4>2. DOMAIN nodes'[i].lines = {} /\ Len(nodes'[i].lines) = 0
        BY <4>1
      <4>3. DetectHeading(lines'[nodes'[i].head].line) = H
        BY <1>7, <3>0, <4>1
      <4>4. ~(i < n + 1) /\ b + 0 = b /\ b > 0
        BY <1>2, <1>4, <3>1
      <4>. QED  BY <1>1, <4>1, <4>2, <4>3, <4>4
    <3>2. CASE i \in 1..n
      <4>1. nodes'[i] = nodes[i]
        BY <1>8, <3>2
      <4>2. /\ i > 1 => /\ nodes[i].head > 0 /\ nodes[i].level = Level(nodes[i].head)
                        /\ nodes[i].level > 0
            /\ \A j \in DOMAIN nodes[i].lines : /\ nodes[i].lines[j] = nodes[i].head + j
                                                /\ Level(nodes[i].lines[j]) = 0
            /\ nodes[i].head + Len(nodes[i].lines) = IF i < n THEN nodes[i + 1].head - 1 ELSE a
        BY <1>3, <1>8, <3>2 DEF Tiled
      <4>4. i < n => i + 1 \in 1..n /\ nodes'[i + 1] = nodes[i + 1]
        BY <1>4, <1>8, <3>2
      <4>5. i = n => nodes'[i + 1].head - 1 = a
        <5>1. nodes'[n + 1].head = b /\ b - 1 = a
          BY <1>2, <1>8, <1>10
        <5>. QED  BY <5>1
      <4>6. i < n + 1 /\ (i = n \/ i < n) /\ ~(i = n /\ i < n)
        BY <1>4, <3>2
      <4>8. /\ i > 1 => /\ nodes'[i].head > 0
                        /\ nodes'[i].level = DetectHeading(lines'[nodes'[i].head].line)
                        /\ nodes'[i].level > 0
            /\ \A j \in DOMAIN nodes'[i].lines :
                  /\ nodes'[i].lines[j] = nodes'[i].head + j
                  /\ DetectHeading(lines'[nodes'[i].lines[j]].line) = 0
        BY <1>1, <4>1, <4>2 DEF Level
      <4>9. nodes'[i].head + Len(nodes'[i].lines)
                     = IF i < n + 1 THEN nodes'[i + 1].head - 1 ELSE b
        BY <4>1, <4>2, <4>4, <4>5, <4>6
      <4>. QED  BY <4>8, <4>9
    <3>. QED  BY <1>8, <2>1, <3>1, <3>2
  <2>2. nodes'[1].head = 0 /\ nodes'[1].level = 0
    BY <1>4, <1>8, <1>11
  <2>3. ASSUME NEW i \in DOMAIN nodes'
        PROVE  /\ i > 1 => /\ nodes'[i].head > 0
                           /\ nodes'[i].level = DetectHeading(lines'[nodes'[i].head].line)
                           /\ nodes'[i].level > 0
               /\ \A j \in DOMAIN nodes'[i].lines :
                     /\ nodes'[i].lines[j] = nodes'[i].head + j
                     /\ DetectHeading(lines'[nodes'[i].lines[j]].line) = 0
               /\ nodes'[i].head + Len(nodes'[i].lines)
                     = IF i < Len(nodes') THEN nodes'[i + 1].head - 1 ELSE b
    BY <1>8, <2>1, <2>3
  <2>. QED  BY <2>2, <2>3, Zenon DEF Tiled, Level
<1>14. /\ sec.path \in Seq(Nat) /\ Len(sec.path) = k /\ sec.path[k] = b
       /\ \A m \in 1..k - 1 : sec.path[m] = nodes[stack[m + 1]].head
  <2>0. SUFFICES ASSUME NEW p, p = nodes[t].path
                PROVE  /\ sec.path \in Seq(Nat) /\ Len(sec.path) = k /\ sec.path[k] = b
                       /\ \A m \in 1..k - 1 : sec.path[m] = nodes[stack[m + 1]].head
    OBVIOUS
  <2>1. p \in Seq(Nat)
    <3>1. p \in Seq(Positions)
      BY <1>5, <1>6, <2>0
    <3>. QED  BY <3>1, PositionsAreNumbers
  <2>2. Len(p) = k - 1 /\ \A m \in 1..k - 1 : p[m] = nodes[stack[m + 1]].head
    <3>1. k \in DOMAIN stack /\ p = nodes[stack[k]].path
      BY <1>4, <1>5, <1>9, <2>0
    <3>. QED  BY <1>3, <3>1 DEF StackGoesDown
  <2>3. sec.path = Append(p, b)
    BY <1>10, <2>0
  <2>. QED  BY <1>4, <2>1, <2>2, <2>3
<1>15. PathsAreOutlines'
  <2>1. ASSUME NEW i \in 1..n, NEW c, c = nodes[i].head, NEW p, p = nodes[i].path
        PROVE  Rising(p) /\ \A h : h \in Outline(c) <=> \E m \in DOMAIN p : p[m] = h
    BY <1>3, <1>8, <2>1 DEF PathsAreOutlines
  <2>2. Rising(sec.path)
    <3>1. ASSUME NEW i \in 1..k, NEW j \in 1..k, i < j
          PROVE  sec.path[i] < sec.path[j]
      <4>1. i \in 1..k - 1 /\ i + 1 \in 1..k /\ sec.path[i] = nodes[stack[i + 1]].head
        BY <1>4, <1>14, <3>1
      <4>2. CASE j = k
        <5>1. nodes[stack[i + 1]].head \in 1..a
          BY <1>11, <4>1
        <5>2. sec.path[i] \in 1..a
          BY <4>1, <5>1
        <5>3. sec.path[j] = b
          BY <1>14, <4>2
        <5>4. \A h \in 1..a : h < b
          BY <1>2
        <5>. QED  BY <5>2, <5>3, <5>4
      <4>3. CASE j < k
        <5>1. j \in 1..k - 1 /\ j + 1 \in 1..k /\ sec.path[j] = nodes[stack[j + 1]].head /\ i + 1 < j + 1
          <6>1. j \in 1..k - 1 /\ j + 1 \in 1..k /\ i + 1 < j + 1
            BY <1>4, <3>1, <4>3
          <6>. QED  BY <1>14, <6>1
        <5>. QED  BY <1>3, <1>9, <4>1, <5>1 DEF StackGoesDown
      <4>. QED  BY <1>4, <4>2, <4>3
    <3>. QED  BY <1>4, <1>14, <3>1 DEF Rising
  <2>3. \A h : (\E i \in 1..k : i > 1 /\ nodes[stack[i]].head = h)
                  <=> \E m \in 1..k - 1 : sec.path[m] = h
    <3>1. ASSUME NEW i \in 1..k, i > 1
          PROVE  i - 1 \in 1..k - 1 /\ sec.path[i - 1] = nodes[stack[i]].head
      <4>1. i - 1 \in 1..k - 1 /\ (i - 1) + 1 = i
        BY <1>4, <3>1
      <4>. QED  BY <1>14, <4>1
    <3>2. ASSUME NEW m \in 1..k - 1
          PROVE  m + 1 \in 1..k /\ m + 1 > 1 /\ sec.path[m] = nodes[stack[m + 1]].head
      BY <1>4, <1>14
    <3>. QED  BY <3>1, <3>2
  <2>4. \A h : h \in Outline(b)' <=> \E m \in DOMAIN sec.path : sec.path[m] = h
    <3>1. DOMAIN sec.path = 1..k /\ k \in 1..k /\ \A m \in 1..k : m = k \/ m \in 1..k - 1
      BY <1>4, <1>14
    <3>2. \A m \in 1..k - 1 : m \in 1..k
      BY <1>4
    <3>. QED  BY <1>12, <1>14, <2>3, <3>1, <3>2
  <2>5. nodes'[n + 1].path = sec.path /\ nodes'[n + 1].head = b
    BY <1>8, <1>10
  <2>6. ASSUME NEW i \in 1..n + 1, NEW c, c = nodes'[i].head, NEW p, p = nodes'[i].path
        PROVE  Rising(p) /\ \A h : h \in Outline(c) <=> \E m \in DOMAIN p : p[m] = h
    <3>1. CASE i \in 1..n
      <4>1. c = nodes[i].head /\ p = nodes[i].path
        BY <1>8, <2>6, <3>1
      <4>. QED  BY <2>1, <3>1, <4>1
    <3>2. CASE i = n + 1
      <4>1. Outline(b)' = Outline(b)
        BY <1>1, OutlineStays
      <4>. QED  BY <2>2, <2>4, <2>5, <2>6, <3>2, <4>1
    <3>. QED  BY <1>8, <2>6, <3>1, <3>2
  <2>7. ASSUME NEW i \in DOMAIN nodes'
        PROVE  /\ Rising(nodes'[i].path)
               /\ \A h : h \in {g \in 1..nodes'[i].head :
                                  /\ DetectHeading(lines'[g].line) > 0
                                  /\ \A f \in g + 1..nodes'[i].head :
                                        DetectHeading(lines'[f].line) > 0
                                           => DetectHeading(lines'[f].line) > DetectHeading(lines'[g].line)}
                            <=> \E m \in DOMAIN nodes'[i].path : nodes'[i].path[m] = h
    <3>1. ASSUME NEW c
          PROVE  {g \in 1..c : /\ DetectHeading(lines'[g].line) > 0
                               /\ \A f \in g + 1..c :
                                     DetectHeading(lines'[f].line) > 0
                                        => DetectHeading(lines'[f].line) > DetectHeading(lines'[g].line)}
                    = Outline(c)
      BY <1>1 DEF Outline, Level
    <3>2. ASSUME NEW c, c = nodes'[i].head, NEW p, p = nodes'[i].path
          PROVE  Rising(p) /\ \A h : h \in Outline(c) <=> \E m \in DOMAIN p : p[m] = h
      BY <1>8, <2>6, <2>7, <3>2
    <3>. QED  BY <3>1, <3>2
  <2>. QED  BY <2>7, Zenon DEF PathsAreOutlines, Outline, Level
<1>16. StackGoesDown'
  <2>1. \A i \in 1..k : nodes'[stack'[i]] = nodes[stack[i]]
    BY <1>5, <1>8, <1>9
  <2>2. nodes'[stack'[k + 1]] = sec
    BY <1>8, <1>9
  <2>3. ASSUME NEW i \in 1..k
        PROVE  nodes[stack[i]].level < H /\ nodes[stack[i]].head < b
    <3>1. CASE i = 1
      <4>1. nodes[stack[i]].level = 0 /\ nodes[stack[i]].head = 0
        BY <1>11, <3>1
      <4>. QED  BY <1>1, <1>2, <1>7, <4>1
    <3>2. CASE i > 1
      <4>1. nodes[stack[i]].head \in 1..a /\ H > nodes[stack[i]].level
        BY <1>11, <3>2
      <4>. QED  BY <1>2, <1>5, <1>6, <1>7, <4>1
    <3>. QED  BY <1>4, <3>1, <3>2
  <2>4. ASSUME NEW i \in 1..k + 1, NEW j \in 1..k + 1, i < j
        PROVE  /\ nodes'[stack'[i]].level < nodes'[stack'[j]].level
               /\ nodes'[stack'[i]].head < nodes'[stack'[j]].head
    <3>1. i \in 1..k
      BY <1>4, <2>4
    <3>2. CASE j \in 1..k
      BY <1>3, <1>9, <2>1, <2>4, <3>1, <3>2 DEF StackGoesDown
    <3>3. CASE j = k + 1
      BY <1>10, <2>1, <2>2, <2>3, <3>1, <3>3
    <3>. QED  BY <1>9, <3>2, <3>3
  <2>5. ASSUME NEW i \in 1..k + 1
        PROVE  /\ Len(nodes'[stack'[i]].path) = i - 1
               /\ \A m \in 1..i - 1 : nodes'[stack'[i]].path[m] = nodes'[stack'[m + 1]].head
    <3>2. CASE i \in 1..k
      <4>1. /\ Len(nodes[stack[i]].path) = i - 1
            /\ \A m \in 1..i - 1 : nodes[stack[i]].path[m] = nodes[stack[m + 1]].head
        BY <1>3, <1>9, <3>2 DEF StackGoesDown
      <4>2. \A m \in 1..i - 1 : m + 1 \in 1..k
        BY <1>4, <3>2
      <4>. QED  BY <2>1, <3>2, <4>1, <4>2
    <3>3. CASE i = k + 1
      <4>1. i - 1 = k /\ nodes'[stack'[i]].path = sec.path
        BY <1>4, <2>2, <3>3
      <4>2. ASSUME NEW m \in 1..k
            PROVE  sec.path[m] = nodes'[stack'[m + 1]].head
        <5>1. CASE m = k
          BY <1>10, <1>14, <2>2, <5>1
        <5>2. CASE m \in 1..k - 1
          <6>1. m + 1 \in 1..k
            BY <1>4, <5>2
          <6>. QED  BY <1>14, <2>1, <5>2, <6>1
        <5>. QED  BY <1>4, <5>1, <5>2
      <4>. QED  BY <1>14, <4>1, <4>2
    <3>. QED  BY <1>9, <3>2, <3>3
  <2>6. stack'[1] = 1
    BY <1>9, <1>11
  <2>. QED  BY <1>9, <2>4, <2>5, <2>6 DEF StackGoesDown
<1>17. StackIsOutline'
  <2>1. Top' = n + 1 /\ Len(nodes') = n + 1
    BY <1>8, <1>9 DEF Top
  <2>2. ASSUME NEW i \in 1..k + 1
        PROVE  nodes'[stack'[i]].head = IF i = k + 1 THEN b ELSE nodes[stack[i]].head
    <3>1. CASE i = k + 1
      BY <1>8, <1>9, <1>10, <3>1
    <3>2. CASE i \in 1..k
      <4>1. nodes'[stack'[i]] = nodes[stack[i]] /\ i # k + 1
        BY <1>4, <1>5, <1>8, <1>9, <3>2
      <4>. QED  BY <4>1
    <3>. QED  BY <1>9, <3>1, <3>2
  <2>3. ASSUME NEW i \in 1..k + 1, i > 1
        PROVE  nodes'[stack'[i]].head \in Outline(b)'
    BY <1>9, <1>12, <2>2, <2>3
  <2>4. ASSUME NEW h \in Outline(b)'
        PROVE  \E i \in 1..k + 1 : i > 1 /\ nodes'[stack'[i]].head = h
    <3>1. CASE h = b
      <4>1. k + 1 \in 1..k + 1 /\ k + 1 > 1
        BY <1>4
      <4>. QED  BY <2>2, <3>1, <4>1
    <3>2. ASSUME NEW i \in 1..k, i > 1, nodes[stack[i]].head = h
          PROVE  \E j \in 1..k + 1 : j > 1 /\ nodes'[stack'[j]].head = h
      <4>1. i \in 1..k + 1 /\ i # k + 1
        BY <1>4, <1>9
      <4>. QED  BY <2>2, <3>2, <4>1
    <3>. QED  BY <1>12, <3>1, <3>2
  <2>5. Outline(at)' = Outline(b)'
    BY <1>1 DEF Outline, Level
  <2>. QED  BY <1>9, <2>1, <2>3, <2>4, <2>5 DEF StackIsOutline
<1>. QED  BY <1>13, <1>15, <1>16, <1>17

(* A body line joins the open section, which is the last one. *)
LEMMA StepBody ==
    ASSUME IInv, SectionsInPlace, ParseBody, NEW a, a = at, NEW b, b = a + 1
    PROVE  Tiled(b)' /\ PathsAreOutlines' /\ StackGoesDown' /\ StackIsOutline'
<1>0. SUFFICES ASSUME NEW n, n = Len(nodes), NEW old, old = nodes[n],
                      NEW ls, ls = Append(old.lines, b)
               PROVE  Tiled(b)' /\ PathsAreOutlines' /\ StackGoesDown' /\ StackIsOutline'
  OBVIOUS
<1>1. /\ pc = "parse" /\ a < Len(lines) /\ Level(b) = 0 /\ at' = b /\ lines' = lines
      /\ nodes' = [nodes EXCEPT ![Top].lines = Append(@, b)] /\ stack' = stack /\ ~AtHeading
  BY DEF ParseBody, reading, Heading, Level, AtHeading
<1>2. /\ nodes \in Seq(NodeRecord) /\ stack \in Seq(1..n) /\ lines \in Seq(LineRecord)
      /\ a \in Nat /\ stack # <<>> /\ nodes # <<>>
  BY <1>0, <1>1 DEF IInv, CodeTypes, Places
<1>3. /\ Tiled(a) /\ PathsAreOutlines /\ StackGoesDown /\ StackIsOutline /\ Top = n
  BY <1>0, <1>1, <1>2 DEF SectionsInPlace, Parsed, StackIsOutline
<1>4. n \in Nat /\ n > 0 /\ n \in 1..n /\ 1 \in 1..n /\ DOMAIN nodes = 1..n /\ old \in NodeRecord
  BY <1>0, <1>2
<1>5. old.lines \in Seq(Nat) /\ old.head \in Nat
  <2>1. old.lines \in Seq(Positions)
    BY <1>4 DEF NodeRecord
  <2>. QED  BY <1>4, <2>1, PositionsAreNumbers DEF NodeRecord, Positions
<1>6. /\ Len(ls) = Len(old.lines) + 1 /\ DOMAIN ls = 1..Len(old.lines) + 1
      /\ \A j \in 1..Len(old.lines) : ls[j] = old.lines[j]
      /\ ls[Len(old.lines) + 1] = b
      /\ Len(old.lines) \in Nat
  BY <1>0, <1>2, <1>5
<1>7. /\ DOMAIN nodes' = 1..n /\ Len(nodes') = n
      /\ \A i \in 1..n : i # n => nodes'[i] = nodes[i]
      /\ nodes'[n] = [old EXCEPT !.lines = ls]
  <2>1. nodes' = [nodes EXCEPT ![n].lines = Append(@, b)]
    BY <1>1, <1>3
  <2>2. nodes' = [nodes EXCEPT ![n] = [old EXCEPT !.lines = ls]]
    BY <1>0, <2>1
  <2>3. nodes = [i \in 1..n |-> nodes[i]] /\ DOMAIN nodes' = 1..n
    BY <1>0, <1>2, <1>4, <2>2
  <2>4. nodes' \in Seq(NodeRecord \cup {[old EXCEPT !.lines = ls]}) /\ Len(nodes') = Len(nodes)
    <3>. DEFINE S == NodeRecord \cup {[old EXCEPT !.lines = ls]}
    <3>1. nodes \in Seq(S) /\ [old EXCEPT !.lines = ls] \in S
      BY <1>2
    <3>. HIDE DEF S
    <3>2. ASSUME NEW e \in S
          PROVE  /\ [nodes EXCEPT ![n] = e] \in Seq(S)
                 /\ Len([nodes EXCEPT ![n] = e]) = Len(nodes)
      BY <1>0, <1>4, <3>1
    <3>3. nodes' \in Seq(S) /\ Len(nodes') = Len(nodes)
      BY <2>2, <3>1, <3>2
    <3>. QED  BY <3>3 DEF S
  <2>. QED  BY <1>0, <1>4, <2>2, <2>3, <2>4
<1>8. \A i \in 1..n : /\ nodes'[i].head = nodes[i].head /\ nodes'[i].level = nodes[i].level
                      /\ nodes'[i].path = nodes[i].path
                      /\ nodes'[i].lines = IF i = n THEN ls ELSE nodes[i].lines
  <2>1. old = [level |-> old.level, head |-> old.head, page |-> old.page,
               path |-> old.path, lines |-> old.lines]
    BY <1>4 DEF NodeRecord
  <2>2. /\ nodes'[n].head = old.head /\ nodes'[n].level = old.level
        /\ nodes'[n].path = old.path /\ nodes'[n].lines = ls
    BY <1>7, <2>1
  <2>. QED  BY <1>0, <1>7, <2>2
<1>9. \A p : DetectHeading(lines'[p].line) = Level(p)
  BY <1>1 DEF Level
<1>10. Tiled(b)'
  <2>1. ASSUME NEW i \in 1..n
        PROVE  /\ i > 1 => /\ nodes'[i].head > 0
                           /\ nodes'[i].level = DetectHeading(lines'[nodes'[i].head].line)
                           /\ nodes'[i].level > 0
               /\ \A j \in DOMAIN nodes'[i].lines :
                     /\ nodes'[i].lines[j] = nodes'[i].head + j
                     /\ DetectHeading(lines'[nodes'[i].lines[j]].line) = 0
               /\ nodes'[i].head + Len(nodes'[i].lines)
                     = IF i < n THEN nodes'[i + 1].head - 1 ELSE b
    <3>1. /\ i > 1 => /\ nodes[i].head > 0 /\ nodes[i].level = Level(nodes[i].head)
                      /\ nodes[i].level > 0
          /\ \A j \in DOMAIN nodes[i].lines : /\ nodes[i].lines[j] = nodes[i].head + j
                                              /\ Level(nodes[i].lines[j]) = 0
          /\ nodes[i].head + Len(nodes[i].lines) = IF i < n THEN nodes[i + 1].head - 1 ELSE a
      BY <1>0, <1>3, <1>4 DEF Tiled
    <3>2. i > 1 => /\ nodes'[i].head > 0
                   /\ nodes'[i].level = DetectHeading(lines'[nodes'[i].head].line)
                   /\ nodes'[i].level > 0
      BY <1>8, <1>9, <3>1
    <3>3. CASE i # n
      <4>1. i < n /\ i + 1 \in 1..n
        BY <1>4, <3>3
      <4>2. nodes'[i] = nodes[i] /\ nodes'[i + 1].head = nodes[i + 1].head
        BY <1>7, <1>8, <3>3, <4>1
      <4>. QED  BY <1>9, <3>1, <3>2, <4>1, <4>2
    <3>4. CASE i = n
      <4>1. nodes'[i].lines = ls /\ nodes'[i].head = old.head /\ ~(i < n)
        <5>1. nodes'[n].lines = ls /\ nodes'[n].head = nodes[n].head
          BY <1>4, <1>8
        <5>2. ~(n < n)
          BY <1>4
        <5>. QED  BY <1>0, <3>4, <5>1, <5>2
      <4>2. /\ \A j \in 1..Len(old.lines) : /\ old.lines[j] = old.head + j
                                            /\ Level(old.lines[j]) = 0
            /\ old.head + Len(old.lines) = a
        BY <1>0, <1>4, <1>5, <3>1, <3>4
      <4>3. old.head + (Len(old.lines) + 1) = b
        BY <1>2, <1>5, <1>6, <4>2
      <4>4. ASSUME NEW j \in DOMAIN ls
            PROVE  ls[j] = old.head + j /\ Level(ls[j]) = 0
        <5>1. CASE j = Len(old.lines) + 1
          BY <1>1, <1>6, <4>3, <5>1
        <5>2. CASE j \in 1..Len(old.lines)
          BY <1>6, <4>2, <5>2
        <5>. QED  BY <1>6, <5>1, <5>2
      <4>. QED  BY <1>6, <1>9, <3>2, <4>1, <4>3, <4>4
    <3>. QED  BY <3>3, <3>4
  <2>2. nodes'[1].head = 0 /\ nodes'[1].level = 0
    BY <1>2, <1>3, <1>4, <1>8 DEF Tiled
  <2>3. ASSUME NEW i \in DOMAIN nodes'
        PROVE  /\ i > 1 => /\ nodes'[i].head > 0
                           /\ nodes'[i].level = DetectHeading(lines'[nodes'[i].head].line)
                           /\ nodes'[i].level > 0
               /\ \A j \in DOMAIN nodes'[i].lines :
                     /\ nodes'[i].lines[j] = nodes'[i].head + j
                     /\ DetectHeading(lines'[nodes'[i].lines[j]].line) = 0
               /\ nodes'[i].head + Len(nodes'[i].lines)
                     = IF i < Len(nodes') THEN nodes'[i + 1].head - 1 ELSE b
    BY <1>7, <2>1, <2>3
  <2>. QED  BY <2>2, <2>3, Zenon DEF Tiled, Level
<1>11. PathsAreOutlines'
  <2>1. ASSUME NEW c
        PROVE  {g \in 1..c : /\ DetectHeading(lines'[g].line) > 0
                             /\ \A f \in g + 1..c :
                                   DetectHeading(lines'[f].line) > 0
                                      => DetectHeading(lines'[f].line) > DetectHeading(lines'[g].line)}
                  = Outline(c)
    BY <1>1 DEF Outline, Level
  <2>2. ASSUME NEW i \in DOMAIN nodes', NEW c, c = nodes'[i].head, NEW p, p = nodes'[i].path
        PROVE  Rising(p) /\ \A h : h \in Outline(c) <=> \E m \in DOMAIN p : p[m] = h
    <3>1. i \in DOMAIN nodes /\ c = nodes[i].head /\ p = nodes[i].path
      BY <1>4, <1>7, <1>8, <2>2
    <3>. QED  BY <1>3, <3>1 DEF PathsAreOutlines
  <2>3. ASSUME NEW i \in DOMAIN nodes'
        PROVE  /\ Rising(nodes'[i].path)
               /\ \A h : h \in {g \in 1..nodes'[i].head :
                                  /\ DetectHeading(lines'[g].line) > 0
                                  /\ \A f \in g + 1..nodes'[i].head :
                                        DetectHeading(lines'[f].line) > 0
                                           => DetectHeading(lines'[f].line) > DetectHeading(lines'[g].line)}
                            <=> \E m \in DOMAIN nodes'[i].path : nodes'[i].path[m] = h
    <3>1. ASSUME NEW c, c = nodes'[i].head, NEW p, p = nodes'[i].path
          PROVE  Rising(p) /\ \A h : h \in Outline(c) <=> \E m \in DOMAIN p : p[m] = h
      BY <2>2, <2>3, <3>1
    <3>. QED  BY <2>1, <3>1
  <2>. QED  BY <2>3, Zenon DEF PathsAreOutlines, Outline, Level
<1>12. /\ DOMAIN stack' = DOMAIN stack /\ Len(stack') = Len(stack)
       /\ \A i \in DOMAIN stack : /\ stack'[i] = stack[i]
                                  /\ nodes'[stack'[i]].head = nodes[stack[i]].head
                                  /\ nodes'[stack'[i]].level = nodes[stack[i]].level
                                  /\ nodes'[stack'[i]].path = nodes[stack[i]].path
  <2>1. \A i \in DOMAIN stack : stack[i] \in 1..n
    <3>1. stack \in Seq(1..n)
      BY <1>2
    <3>2. \A i \in 1..Len(stack) : stack[i] \in 1..n
      BY <1>4, <3>1
    <3>3. DOMAIN stack = 1..Len(stack)
      BY <3>1
    <3>. QED  BY <3>2, <3>3
  <2>. QED  BY <1>1, <1>8, <2>1
<1>13. StackGoesDown'
  <2>1. \A i \in DOMAIN stack : \A m \in 1..i - 1 : m + 1 \in DOMAIN stack
    BY <1>2
  <2>. QED  BY <1>1, <1>3, <1>12, <2>1 DEF StackGoesDown
<1>14. StackIsOutline'
  <2>1. Top' = Len(nodes')
    BY <1>1, <1>3, <1>7 DEF Top
  <2>2. \A h : h \in Outline(b)' <=> h \in Outline(a)
    <3>1. Outline(b)' = Outline(b)
      BY <1>1, OutlineStays
    <3>. QED  BY <1>1, <1>2, <3>1, OutlineAtBody
  <2>3. Outline(at)' = Outline(b)'
    BY <1>1 DEF Outline, Level
  <2>4. \A i \in DOMAIN stack : i > 1 => nodes[stack[i]].head \in Outline(a)
    BY <1>3 DEF StackIsOutline
  <2>5. \A h \in Outline(a) : \E i \in DOMAIN stack : i > 1 /\ nodes[stack[i]].head = h
    <3>1. \A h \in Outline(at) : \E i \in DOMAIN stack : i > 1 /\ nodes[stack[i]].head = h
      BY <1>1, <1>3 DEF StackIsOutline
    <3>. QED  BY <3>1
  <2>. QED  BY <1>12, <2>1, <2>2, <2>3, <2>4, <2>5 DEF StackIsOutline
<1>. QED  BY <1>10, <1>11, <1>13, <1>14

(* A closed section leaves a shorter outline. *)
LEMMA StepPop ==
    ASSUME IInv, SectionsInPlace, PopSection, NEW a, a = at
    PROVE  Tiled(a)' /\ PathsAreOutlines' /\ StackGoesDown' /\ StackIsOutline'
<1>0. SUFFICES ASSUME NEW n, n = Len(nodes), NEW k, k = Len(stack)
               PROVE  Tiled(a)' /\ PathsAreOutlines' /\ StackGoesDown' /\ StackIsOutline'
  OBVIOUS
<1>1. /\ pc = "parse" /\ a < Len(lines) /\ Heading > 0 /\ at' = at /\ lines' = lines /\ nodes' = nodes
      /\ stack' = SubSeq(stack, 1, k - 1) /\ k > 1 /\ nodes[Top].level >= Heading
  BY <1>0 DEF PopSection, reading, Closes
<1>2. /\ nodes \in Seq(NodeRecord) /\ stack \in Seq(1..n) /\ lines \in Seq(LineRecord)
      /\ a \in Nat /\ stack # <<>> /\ nodes # <<>>
  BY <1>0, <1>1 DEF IInv, CodeTypes, Places
<1>3. /\ Tiled(a) /\ PathsAreOutlines /\ StackGoesDown /\ StackIsOutline
  BY <1>1, <1>2 DEF SectionsInPlace, Parsed
<1>4. k \in Nat /\ DOMAIN stack = 1..k /\ \A i \in 1..k : stack[i] \in 1..n
  BY <1>0, <1>2
<1>5. /\ DOMAIN stack' = 1..k - 1
      /\ \A i \in 1..k - 1 : stack'[i] = stack[i] /\ i \in 1..k
      /\ 1 \in 1..k - 1 /\ \A i \in 1..k : i \in 1..k - 1 \/ i = k
  BY <1>0, <1>1, <1>2, <1>4
<1>6. Tiled(a)' /\ PathsAreOutlines'
  BY <1>1, <1>3, SectionsFrame
<1>7. StackGoesDown'
  <2>1. \A i \in 1..k - 1 : \A m \in 1..i - 1 : m + 1 \in 1..k - 1
    BY <1>4
  <2>2. stack'[1] = 1
    BY <1>3, <1>5 DEF StackGoesDown
  <2>3. ASSUME NEW i \in 1..k - 1
        PROVE  nodes'[stack'[i]] = nodes[stack[i]] /\ i \in DOMAIN stack
    BY <1>1, <1>4, <1>5
  <2>4. ASSUME NEW i \in 1..k - 1, NEW j \in 1..k - 1, i < j
        PROVE  /\ nodes'[stack'[i]].level < nodes'[stack'[j]].level
               /\ nodes'[stack'[i]].head < nodes'[stack'[j]].head
    BY <1>3, <2>3, <2>4 DEF StackGoesDown
  <2>5. ASSUME NEW i \in 1..k - 1
        PROVE  /\ Len(nodes'[stack'[i]].path) = i - 1
               /\ \A m \in 1..i - 1 : nodes'[stack'[i]].path[m] = nodes'[stack'[m + 1]].head
    <3>1. /\ Len(nodes[stack[i]].path) = i - 1
          /\ \A m \in 1..i - 1 : nodes[stack[i]].path[m] = nodes[stack[m + 1]].head
      BY <1>3, <2>3 DEF StackGoesDown
    <3>. QED  BY <2>1, <2>3, <3>1
  <2>. QED  BY <1>5, <2>2, <2>4, <2>5 DEF StackGoesDown
<1>8. StackIsOutline'
  <2>1. AtHeading' /\ Heading' = Heading
    BY <1>1 DEF AtHeading, Heading
  <2>2. \A h : (h \in Outline(at)' <=> h \in Outline(a)) /\ Level(h)' = Level(h)
    <3>1. Outline(a)' = Outline(a)
      BY <1>1, OutlineStays
    <3>2. Outline(at)' = Outline(a)'
      BY <1>1 DEF Outline, Level
    <3>. QED  BY <1>1, <3>1, <3>2 DEF Level
  <2>3. \A i \in 1..k : i > 1 => nodes[stack[i]].head \in Outline(a)
    BY <1>3, <1>4 DEF StackIsOutline
  <2>4. \A h \in Outline(a) : \/ \E i \in 1..k : i > 1 /\ nodes[stack[i]].head = h
                              \/ Level(h) >= Heading
    <3>1. \A h \in Outline(at) : \/ \E i \in 1..k : i > 1 /\ nodes[stack[i]].head = h
                                 \/ Level(h) >= Heading
      BY <1>3, <1>4 DEF StackIsOutline
    <3>. QED  BY <3>1
  <2>5. Level(nodes[stack[k]].head) >= Heading
    <3>1. nodes[1].head = 0 /\ stack[1] = 1 /\ nodes[stack[1]].head < nodes[stack[k]].head
      <4>1. 1 \in DOMAIN stack /\ k \in DOMAIN stack
        BY <1>1, <1>4
      <4>. QED  BY <1>1, <1>2, <1>3, <4>1 DEF Tiled, StackGoesDown
    <3>2. stack[k] # 1 /\ stack[k] \in 1..n /\ n \in Nat
      <4>1. stack[k] \in 1..n /\ n \in Nat
        BY <1>0, <1>1, <1>2, <1>4
      <4>2. stack[k] = 1 => FALSE
        BY <3>1
      <4>. QED  BY <4>1, <4>2
    <3>3. nodes[stack[k]].level = Level(nodes[stack[k]].head)
      <4>1. stack[k] > 1 /\ stack[k] \in DOMAIN nodes
        BY <1>0, <1>2, <3>2
      <4>. QED  BY <1>3, <4>1 DEF Tiled
    <3>4. Top = stack[k]
      BY <1>0 DEF Top
    <3>. QED  BY <1>1, <3>3, <3>4
  <2>6. \A h \in Outline(a) : \/ \E i \in 1..k - 1 : i > 1 /\ nodes[stack[i]].head = h
                              \/ Level(h) >= Heading
    BY <1>5, <2>4, <2>5
  <2>7. \A i \in 1..k - 1 : nodes'[stack'[i]].head = nodes[stack[i]].head
    BY <1>1, <1>5
  <2>8. \A i \in 1..k - 1 : i > 1 => nodes'[stack'[i]].head \in Outline(at)'
    BY <1>5, <2>2, <2>3, <2>7
  <2>9. ASSUME NEW h \in Outline(at)'
        PROVE  \/ \E i \in 1..k - 1 : i > 1 /\ nodes'[stack'[i]].head = h
               \/ AtHeading' /\ Level(h)' >= Heading'
    <3>1. h \in Outline(a) /\ Level(h)' = Level(h)
      BY <2>2, <2>9
    <3>. QED  BY <2>1, <2>6, <2>7, <3>1
  <2>. QED  BY <1>5, <2>1, <2>8, <2>9 DEF StackIsOutline
<1>. QED  BY <1>6, <1>7, <1>8

(* The parser keeps the sections in place; the walk leaves them alone. *)
LEMMA StepSections == IInv /\ SectionsInPlace /\ [Next]_vars => SectionsInPlace'
<1>. SUFFICES ASSUME IInv, SectionsInPlace, [Next]_vars PROVE SectionsInPlace'
  OBVIOUS
<1>0. lines \in Seq(LineRecord) /\ at \in Nat /\ Len(lines) \in Nat
  BY DEF IInv, CodeTypes
<1>1. ASSUME NEW b, Parsed' = b, nodes' # <<>> => Tiled(b)' /\ PathsAreOutlines',
             pc' = "parse" => at' <= Len(lines') /\ StackGoesDown' /\ StackIsOutline',
             ~(Extracting' \/ pc' = "merge")
      PROVE  SectionsInPlace'
  <2>1. Tiled(Parsed)' <=> Tiled(b)'
    BY <1>1 DEF Tiled
  <2>. QED  BY <1>1, <2>1 DEF SectionsInPlace
<1>2. CASE Extract \/ MergePage
  <2>1. nodes = <<>>
    BY <1>2 DEF Extract, ReadPage, FitzEnds, FitzFails, PlumberEnds, InjectTable, TablesEnd,
                ReadText, MergePage, IInv, Places, Extracting
  <2>2. nodes' = nodes /\ pc' # "parse"
    BY <1>2 DEF Extract, ReadPage, FitzEnds, FitzFails, PlumberEnds, InjectTable, TablesEnd,
                ReadText, MergePage
  <2>. QED  BY <2>1, <2>2 DEF SectionsInPlace
<1>3. CASE MergeEnds
  <2>. SUFFICES ASSUME NEW pg, pg = lines[1].page,
                       NEW root, root = [level |-> 0, head |-> 0, page |-> pg, path |-> <<>>, lines |-> <<>>]
                PROVE  SectionsInPlace'
    OBVIOUS
  <2>1. /\ lines' = lines /\ pc' = "parse" /\ at' = 0 /\ nodes' = <<root>> /\ stack' = <<1>>
    BY <1>3 DEF MergeEnds
  <2>2. /\ root.level = 0 /\ root.head = 0 /\ root.path = <<>> /\ root.lines = <<>>
        /\ Len(<<>>) = 0 /\ DOMAIN <<>> = {}
    OBVIOUS
  <2>3. /\ DOMAIN nodes' = {1} /\ Len(nodes') = 1 /\ nodes'[1] = root
        /\ DOMAIN stack' = {1} /\ Len(stack') = 1 /\ stack'[1] = 1
    BY <2>1
  <2>4. Tiled(0)'
    <3>1. ASSUME NEW i \in DOMAIN nodes'
          PROVE  /\ i > 1 => /\ nodes'[i].head > 0
                             /\ nodes'[i].level = DetectHeading(lines'[nodes'[i].head].line)
                             /\ nodes'[i].level > 0
                 /\ \A j \in DOMAIN nodes'[i].lines :
                       /\ nodes'[i].lines[j] = nodes'[i].head + j
                       /\ DetectHeading(lines'[nodes'[i].lines[j]].line) = 0
                 /\ nodes'[i].head + Len(nodes'[i].lines)
                       = IF i < Len(nodes') THEN nodes'[i + 1].head - 1 ELSE 0
      <4>1. i = 1 /\ nodes'[i] = root
        BY <2>3, <3>1
      <4>. QED  BY <2>2, <2>3, <4>1
    <3>2. nodes'[1].head = 0 /\ nodes'[1].level = 0
      BY <2>2, <2>3
    <3>. QED  BY <3>1, <3>2, Zenon DEF Tiled, Level
  <2>5. Outline(0)' = {}
    BY DEF Outline
  <2>6. PathsAreOutlines'
    <3>1. \A n \in DOMAIN nodes' : nodes'[n].path = <<>> /\ nodes'[n].head = 0
      BY <2>2, <2>3
    <3>2. Rising(<<>>) /\ DOMAIN <<>> = {}
      BY DEF Rising
    <3>3. ASSUME NEW n \in DOMAIN nodes'
          PROVE  /\ Rising(nodes'[n].path)
                 /\ \A h : h \in {g \in 1..nodes'[n].head :
                                  /\ DetectHeading(lines'[g].line) > 0
                                  /\ \A f \in g + 1..nodes'[n].head :
                                        DetectHeading(lines'[f].line) > 0
                                           => DetectHeading(lines'[f].line) > DetectHeading(lines'[g].line)}
                              <=> \E m \in DOMAIN nodes'[n].path : nodes'[n].path[m] = h
      BY <3>1, <3>2
    <3>. QED  BY <3>3, Zenon DEF PathsAreOutlines, Outline, Level
  <2>7. StackGoesDown'
    <3>1. nodes'[stack'[1]].path = <<>>
      BY <2>2, <2>3
    <3>. QED  BY <2>2, <2>3, <3>1 DEF StackGoesDown
  <2>8. StackIsOutline'
    <3>1. Top' = Len(nodes')
      BY <2>3 DEF Top
    <3>2. Outline(at)' = {}
      BY <2>1 DEF Outline
    <3>. QED  BY <2>3, <3>1, <3>2 DEF StackIsOutline
  <2>9. Parsed' = 0 /\ at' <= Len(lines') /\ ~Extracting'
    BY <1>0, <2>1 DEF Parsed, Extracting
  <2>. QED  BY <1>1, <2>1, <2>4, <2>6, <2>7, <2>8, <2>9
<1>4. CASE ParseHeading \/ ParseBody
  <2>1. pc = "parse" /\ pc' = "parse" /\ lines' = lines /\ at' = at + 1 /\ at < Len(lines)
    BY <1>4 DEF ParseHeading, ParseBody, reading
  <2>2. ASSUME NEW a, a = at, NEW b, b = a + 1
        PROVE  SectionsInPlace'
    <3>1. Tiled(b)' /\ PathsAreOutlines' /\ StackGoesDown' /\ StackIsOutline'
      BY <1>4, <2>2, StepHeading, StepBody
    <3>2. Parsed' = b /\ at' <= Len(lines') /\ ~Extracting' /\ pc' # "merge"
      BY <1>0, <2>1, <2>2 DEF Parsed, Extracting
    <3>. QED  BY <1>1, <3>1, <3>2
  <2>. QED  BY <2>2
<1>5. CASE PopSection
  <2>1. pc = "parse" /\ pc' = "parse" /\ lines' = lines /\ at' = at /\ at < Len(lines)
    BY <1>5 DEF PopSection, reading
  <2>2. ASSUME NEW a, a = at
        PROVE  SectionsInPlace'
    <3>1. Tiled(a)' /\ PathsAreOutlines' /\ StackGoesDown' /\ StackIsOutline'
      BY <1>5, <2>2, StepPop
    <3>2. Parsed' = a /\ at' <= Len(lines') /\ ~Extracting' /\ pc' # "merge"
      BY <1>0, <2>1, <2>2 DEF Parsed, Extracting
    <3>. QED  BY <1>1, <3>1, <3>2
  <2>. QED  BY <2>2
<1>6. CASE /\ lines' = lines /\ nodes' = nodes /\ Parsed' = Parsed
           /\ ~Extracting' /\ pc' # "merge" /\ pc' # "parse"
  <2>1. ASSUME NEW a, a = Parsed
        PROVE  SectionsInPlace'
    <3>1. nodes # <<>> => Tiled(a) /\ PathsAreOutlines
      BY <2>1 DEF SectionsInPlace
    <3>2. nodes' # <<>> => Tiled(a)' /\ PathsAreOutlines'
      BY <1>6, <3>1, SectionsFrame
    <3>. QED  BY <1>1, <1>6, <2>1, <3>2
  <2>. QED  BY <2>1
<1>7. CASE ParseEnds
  <2>1. /\ lines' = lines /\ nodes' = nodes /\ pc = "parse" /\ pc' = "blocks" /\ at = Len(lines)
    BY <1>7 DEF ParseEnds, reading
  <2>. QED  BY <1>6, <2>1 DEF Extracting, Parsed
<1>8. CASE Tables \/ Pack
  <2>1. lines' = lines /\ nodes' = nodes
    BY <1>8 DEF Tables, Pack, ScanRow, ScanOther, SingleRow, TakeTable, StartSplit, SplitRow,
                SplitEnds, BlocksEnd, SkipNoSentence, PackOversized, PackOverflow, PackSentence,
                PackEnds
  <2>2. pc \in {"blocks", "split", "pack"} /\ pc' \in {"blocks", "split", "pack", "done"}
    BY <1>8 DEF Tables, Pack, ScanRow, ScanOther, SingleRow, TakeTable, StartSplit, SplitRow,
                SplitEnds, BlocksEnd, SkipNoSentence, PackOversized, PackOverflow, PackSentence,
                PackEnds, NextSentence, RunEnds
  <2>. QED  BY <1>6, <2>1, <2>2 DEF Extracting, Parsed
<1>9. CASE UNCHANGED vars
  <2>1. /\ lines' = lines /\ nodes' = nodes /\ stack' = stack /\ pc' = pc /\ at' = at
    BY <1>9 DEF vars
  <2>2. ASSUME NEW a, a = Parsed
        PROVE  SectionsInPlace'
    <3>1. Parsed' = a
      BY <2>1, <2>2 DEF Parsed
    <3>2. Extracting \/ pc = "merge" => nodes = <<>>
      BY DEF SectionsInPlace
    <3>3. nodes # <<>> => Tiled(a) /\ PathsAreOutlines
      BY <2>2 DEF SectionsInPlace
    <3>4. nodes' # <<>> => Tiled(a)' /\ PathsAreOutlines'
      BY <2>1, <3>3, SectionsFrame
    <3>5. /\ Extracting' <=> Extracting
          /\ StackGoesDown' <=> StackGoesDown
          /\ StackIsOutline' <=> StackIsOutline
      BY <2>1 DEF Extracting, StackGoesDown, StackIsOutline, Outline, Level, Top, AtHeading, Heading
    <3>6. pc = "parse" => at <= Len(lines) /\ StackGoesDown /\ StackIsOutline
      BY DEF SectionsInPlace
    <3>7. Tiled(Parsed)' <=> Tiled(a)'
      BY <3>1 DEF Tiled
    <3>. QED  BY <2>1, <3>2, <3>4, <3>5, <3>6, <3>7 DEF SectionsInPlace
  <2>. QED  BY <2>2
<1>. QED  BY <1>2, <1>3, <1>4, <1>5, <1>7, <1>8, <1>9 DEF Next, Parse, Done

LEMMA SectionsAlwaysInPlace == Spec => [](IInv /\ SectionsInPlace)
<1>1. Init => SectionsInPlace
  BY DEF Init, SectionsInPlace
<1>. QED  BY <1>1, Invariance, StepSections, PTL DEF Spec

LEMMA SourcedFrame ==
    ASSUME lines' = lines, nodes' = nodes, NEW cs, NEW n, NEW p
    PROVE  (Sourced(cs)' <=> Sourced(cs)) /\ (SentenceOf(n, p)' <=> SentenceOf(n, p))
BY DEF Sourced, SentenceOf, IsSentence, InBlock

(* A chunk of sentences of the section is one more of its kind. *)
LEMMA SourcedMore ==
    ASSUME lines \in Seq(LineRecord), nodes \in Seq(NodeRecord), node \in 1..Len(nodes),
           NEW cs \in Seq(ChunkRecord), Sourced(cs),
           NEW piece \in PieceType, \A k \in DOMAIN piece.body : SentenceOf(node, piece.body[k]),
           NEW i, NEW ds, ds = cs \o TextChunks(i, piece)
    PROVE  ds \in Seq(ChunkRecord) /\ Sourced(ds)
<1>1. CASE TextChunks(i, piece) = <<>>
  <2>1. ds = cs
    BY <1>1, NothingMore
  <2>. QED  BY <2>1
<1>2. ASSUME NEW c \in ChunkRecord, TextChunks(i, piece) = <<c>>, IsText(c),
             c.node = node, c.body = piece.body, c.path = nodes[node].path
      PROVE  ds \in Seq(ChunkRecord) /\ Sourced(ds)
  <2>1. ds = cs \o <<c>>
    BY <1>2
  <2>2. /\ \A j \in DOMAIN ds : (j \in DOMAIN cs /\ ds[j] = cs[j]) \/ ds[j] = c
        /\ ds \in Seq(ChunkRecord)
    BY <2>1, OneMore
  <2>3. node \in DOMAIN nodes
    OBVIOUS
  <2>. QED  BY <1>2, <2>2, <2>3 DEF Sourced
<1>. QED  BY <1>1, <1>2, TextChunksOf

(* A table chunk is none of them. *)
LEMMA SourcedTables ==
    ASSUME lines \in Seq(LineRecord), nodes \in Seq(NodeRecord), node \in 1..Len(nodes),
           NEW cs \in Seq(ChunkRecord), Sourced(cs),
           NEW piece \in PieceType, NEW ds, ds = cs \o TableChunks(piece)
    PROVE  Sourced(ds)
<1>1. CASE TableChunks(piece) = <<>>
  <2>1. ds = cs
    BY <1>1, NothingMore
  <2>. QED  BY <2>1
<1>2. ASSUME NEW c \in ChunkRecord, TableChunks(piece) = <<c>>, c.type = "table"
      PROVE  Sourced(ds)
  <2>1. ds = cs \o <<c>>
    BY <1>2
  <2>2. \A j \in DOMAIN ds : (j \in DOMAIN cs /\ ds[j] = cs[j]) \/ ds[j] = c
    BY <2>1, OneMore
  <2>. QED  BY <1>2, <2>2 DEF Sourced, IsText
<1>. QED  BY <1>1, <1>2, TableChunksOf

LEMMA AtHandOfSection ==
    ASSUME IInv, pc = "pack", NEW p, NextSentence(p)
    PROVE  SentenceOf(node, p)
<1>1. Settled
  BY IsSettled DEF Walking
<1>2. Body \in Seq(Positions) /\ at \in Nat /\ at > 0
  BY <1>1, BodyType DEF Settled
<1>3. at \in DOMAIN nodes[node].lines
  BY <1>2 DEF NextSentence, Body
<1>. QED  BY <1>3 DEF SentenceOf, NextSentence, Body

LEMMA StepSourcedTables == IInv /\ TextsSourced /\ Tables => TextsSourced'
<1>. SUFFICES ASSUME IInv, TextsSourced, Tables PROVE TextsSourced'
  OBVIOUS
<1>0. pc \in {"blocks", "split"}
  BY DEF Tables, ScanRow, ScanOther, SingleRow, TakeTable, StartSplit, SplitRow,
         SplitEnds, BlocksEnd, RunEnds
<1>1. /\ lines \in Seq(LineRecord) /\ nodes \in Seq(NodeRecord) /\ node \in 1..Len(nodes)
      /\ chunks \in Seq(ChunkRecord) /\ cur \in PieceType
  BY <1>0, IsSettled DEF Settled, Walking
<1>2. Sourced(chunks)
  BY DEF TextsSourced
<1>3. /\ lines' = lines /\ nodes' = nodes /\ chunks' \in {chunks, chunks \o TableChunks(cur)}
      /\ pc' \in {"blocks", "split", "pack"}
      /\ pc' = "pack" => cur' = cur /\ cur.body = <<>>
  BY DEF Tables, ScanRow, ScanOther, SingleRow, TakeTable, StartSplit, SplitRow,
         SplitEnds, BlocksEnd, RunEnds, walk
<1>4. Sourced(chunks')
  BY <1>1, <1>2, <1>3, SourcedTables
<1>5. Sourced(chunks)'
  <2>1. ASSUME NEW cs, cs = chunks'
        PROVE  Sourced(chunks)'
    <3>1. Sourced(cs)'
      BY <1>3, <1>4, <2>1, SourcedFrame
    <3>. QED  BY <2>1, <3>1 DEF Sourced
  <2>. QED  BY <2>1
<1>6. pc' = "pack" => DOMAIN cur'.body = {}
  BY <1>3
<1>. QED  BY <1>3, <1>5, <1>6 DEF TextsSourced

LEMMA StepSourcedPack == IInv /\ TextsSourced /\ Pack => TextsSourced'
<1>. SUFFICES ASSUME IInv, TextsSourced, Pack PROVE TextsSourced'
  OBVIOUS
<1>0. pc = "pack"
  BY DEF Pack, SkipNoSentence, PackOversized, PackOverflow, PackSentence, PackEnds, NextSentence
<1>1. /\ nodes \in Seq(NodeRecord) /\ node \in 1..Len(nodes) /\ lines \in Seq(LineRecord)
      /\ chunks \in Seq(ChunkRecord) /\ cur \in PieceType /\ cur.body \in Seq(Nat)
  BY <1>0, IsSettled DEF Settled, Walking, PieceType
<1>2. Sourced(chunks) /\ \A k \in DOMAIN cur.body : SentenceOf(node, cur.body[k])
  BY <1>0 DEF TextsSourced
<1>. DEFINE full == chunks \o TextChunks(packed, cur)
<1>3. full \in Seq(ChunkRecord) /\ Sourced(full)
  <2>1. full = chunks \o TextChunks(packed, cur)
    OBVIOUS
  <2>. HIDE DEF full
  <2>. QED  BY <1>1, <1>2, <2>1, SourcedMore
<1>. HIDE DEF full
<1>4. lines' = lines /\ nodes' = nodes
  BY DEF Pack, SkipNoSentence, PackOversized, PackOverflow, PackSentence, PackEnds
<1>5. ASSUME NEW cs, cs = chunks', Sourced(cs), NEW b, b = cur'.body,
             pc' \in {"pack", "blocks", "done"},
             pc' = "pack" => node' = node /\ \A k \in DOMAIN b : SentenceOf(node, b[k])
      PROVE  TextsSourced'
  <2>1. Sourced(chunks)'
    <3>1. Sourced(cs)'
      BY <1>4, <1>5, SourcedFrame
    <3>. QED  BY <1>5, <3>1 DEF Sourced
  <2>2. pc' = "pack" => \A k \in DOMAIN cur'.body : SentenceOf(node, cur.body[k])'
    <3>1. ASSUME NEW n, n = node, NEW k \in DOMAIN b, pc' = "pack"
          PROVE  SentenceOf(node, cur.body[k])'
      <4>1. SentenceOf(n, b[k])'
        BY <1>4, <1>5, <3>1, SourcedFrame
      <4>. QED  BY <1>5, <3>1, <4>1 DEF SentenceOf
    <3>. QED  BY <1>5, <3>1
  <2>. QED  BY <1>5, <2>1, <2>2 DEF TextsSourced
<1>6. CASE SkipNoSentence
  <2>1. chunks' = chunks /\ cur' = cur /\ node' = node /\ pc' = pc
    BY <1>6 DEF SkipNoSentence, walk
  <2>. QED  BY <1>0, <1>2, <1>5, <2>1
<1>7. CASE PackOversized
  <2>1. PICK p \in 1..Len(lines) :
          /\ NextSentence(p)
          /\ cur' = EmptyPiece /\ pc' = pc /\ node' = node
          /\ chunks' = chunks \o (IF cur.body = <<>> THEN <<>> ELSE TextChunks(packed, cur))
                         \o TextChunks(IF cur.body = <<>> THEN packed ELSE packed + 1, Piece(p))
    BY <1>7 DEF PackOversized
  <2>2. Piece(p) \in PieceType /\ Piece(p).body = <<p>>
    BY <1>1, OneSentencePiece DEF Positions
  <2>3. \A k \in DOMAIN Piece(p).body : SentenceOf(node, Piece(p).body[k])
    <3>1. SentenceOf(node, p)
      BY <1>0, <2>1, AtHandOfSection
    <3>. QED  BY <2>2, <3>1
  <2>. DEFINE es == IF cur.body = <<>> THEN chunks ELSE full
              n == IF cur.body = <<>> THEN packed ELSE packed + 1
  <2>4. es \in Seq(ChunkRecord) /\ Sourced(es)
    BY <1>1, <1>2, <1>3
  <2>5. chunks' = es \o TextChunks(n, Piece(p))
    <3>1. chunks \o <<>> = chunks
      BY <1>1, NothingMore
    <3>. QED  BY <2>1, <3>1 DEF full, es, n
  <2>. HIDE DEF es, n
  <2>6. Sourced(chunks')
    BY <1>1, <2>2, <2>3, <2>4, <2>5, SourcedMore
  <2>7. DOMAIN cur'.body = {}
    BY <2>1, EmptyPieceType DEF EmptyPiece
  <2>. QED  BY <1>0, <1>5, <2>1, <2>6, <2>7
<1>8. CASE PackOverflow
  <2>1. PICK p \in 1..Len(lines) :
          /\ NextSentence(p) /\ cur.body # <<>>
          /\ cur' = Add(Piece(cur.body[Len(cur.body)]), p) /\ pc' = pc /\ node' = node
          /\ chunks' = full
    BY <1>8 DEF PackOverflow, Overflows, full
  <2>2. SentenceOf(node, p)
    BY <1>0, <2>1, AtHandOfSection
  <2>3. ASSUME NEW q, q = cur.body[Len(cur.body)]
        PROVE  TextsSourced'
    <3>1. Len(cur.body) \in DOMAIN cur.body
      BY <1>1, <2>1
    <3>2. SentenceOf(node, q) /\ q \in Nat /\ p \in Nat
      BY <1>1, <1>2, <2>3, <3>1
    <3>3. cur'.body = Append(<<q>>, p)
      BY <2>1, <2>3 DEF Add, Piece, EmptyPiece
    <3>4. ASSUME NEW b, b = cur'.body
          PROVE  Len(b) = 2 /\ b[1] = q /\ b[2] = p /\ DOMAIN b = {1, 2}
      <4>1. b \in Seq(Nat) /\ Len(b) = 2 /\ b[1] = q /\ b[2] = p
        BY <3>2, <3>3, <3>4, PairOf
      <4>. QED  BY <4>1
    <3>5. ASSUME NEW b, b = cur'.body, NEW k \in DOMAIN b
          PROVE  SentenceOf(node, b[k])
      BY <2>2, <3>2, <3>4, <3>5
    <3>. QED  BY <1>0, <1>3, <1>5, <2>1, <3>5
  <2>. QED  BY <2>3
<1>9. CASE PackSentence
  <2>1. PICK p \in 1..Len(lines) :
          /\ NextSentence(p)
          /\ cur' = Add(cur, p) /\ pc' = pc /\ node' = node /\ chunks' = chunks
    BY <1>9 DEF PackSentence
  <2>2. SentenceOf(node, p)
    BY <1>0, <2>1, AtHandOfSection
  <2>3. cur'.body = Append(cur.body, p) /\ p \in Nat
    BY <1>1, <2>1 DEF Add
  <2>4. ASSUME NEW b, b = cur'.body, NEW k \in DOMAIN b
        PROVE  SentenceOf(node, b[k])
    <3>1. (k \in DOMAIN cur.body /\ b[k] = cur.body[k]) \/ b[k] = p
      BY <1>1, <2>3, <2>4, AppendedElements
    <3>. QED  BY <1>2, <2>2, <3>1
  <2>. QED  BY <1>0, <1>2, <1>5, <2>1, <2>4
<1>10. CASE PackEnds
  <2>1. chunks' \in {chunks, full} /\ pc' \in {"blocks", "done"}
    BY <1>10 DEF PackEnds, full
  <2>. QED  BY <1>2, <1>3, <1>5, <2>1
<1>. QED  BY <1>6, <1>7, <1>8, <1>9, <1>10 DEF Pack

LEMMA StepSourced == IInv /\ TextsSourced /\ [Next]_vars => TextsSourced'
<1>. SUFFICES ASSUME IInv, TextsSourced, [Next]_vars PROVE TextsSourced'
  OBVIOUS
<1>1. ASSUME chunks' = <<>>, pc' # "pack"
      PROVE  TextsSourced'
  BY <1>1 DEF TextsSourced, Sourced
<1>2. CASE Extract \/ Parse
  <2>1. chunks = <<>>
    BY <1>2 DEF Extract, ReadPage, FitzEnds, FitzFails, PlumberEnds, InjectTable, TablesEnd,
                ReadText, Parse, MergePage, MergeEnds, PopSection, ParseHeading, ParseBody,
                ParseEnds, TextsSourced
  <2>2. chunks' = chunks /\ pc' # "pack"
    BY <1>2 DEF Extract, ReadPage, FitzEnds, FitzFails, PlumberEnds, InjectTable, TablesEnd,
                ReadText, Parse, MergePage, MergeEnds, PopSection, ParseHeading, ParseBody,
                ParseEnds, walk
  <2>. QED  BY <1>1, <2>1, <2>2
<1>3. CASE UNCHANGED vars
  <2>1. /\ lines' = lines /\ nodes' = nodes /\ node' = node /\ chunks' = chunks /\ cur' = cur
        /\ pc' = pc
    BY <1>3 DEF vars
  <2>. QED  BY <2>1 DEF TextsSourced, Sourced, SentenceOf, IsSentence, InBlock
<1>. QED  BY <1>2, <1>3, StepSourcedTables, StepSourcedPack DEF Next, Done

LEMMA TextsAlwaysSourced == Spec => [](IInv /\ TextsSourced)
<1>1. Init => TextsSourced
  BY DEF Init, TextsSourced, Sourced
<1>. QED  BY <1>1, Invariance, StepSourced, PTL DEF Spec

-----------------------------------------------------------------------------
(* The section of a text chunk: the places                                 *)

Headings == {h \in UNION {[page: {q}, from: DOMAIN file.pages[q]] : q \in DOMAIN file.pages} :
                DetectHeading(file.pages[h.page][h.from]) > 0}
Rank(h) == DetectHeading(file.pages[h.page][h.from])
Above(place) == {h \in Headings : Before(h, place)}

LEMMA OutlineOfPlace ==
    ASSUME NEW place
    PROVE  OutlineOf(place)
              = {h \in Above(place) : \A g \in Above(place) : Before(h, g) => Rank(g) > Rank(h)}
BY DEF OutlineOf, Above, Headings, Rank, Before

LEMMA HeadingIs ==
    /\ \A q \in DOMAIN file.pages : \A f \in DOMAIN file.pages[q] :
          DetectHeading(file.pages[q][f]) > 0 => [page |-> q, from |-> f] \in Headings
    /\ \A h \in Headings : /\ h.page \in DOMAIN file.pages /\ h.from \in DOMAIN file.pages[h.page]
                           /\ h = [page |-> h.page, from |-> h.from] /\ Rank(h) > 0
<1>1. ASSUME NEW q \in DOMAIN file.pages, NEW f \in DOMAIN file.pages[q],
             DetectHeading(file.pages[q][f]) > 0
      PROVE  [page |-> q, from |-> f] \in Headings
  <2>1. [page |-> q, from |-> f] \in [page: {q}, from: DOMAIN file.pages[q]]
    OBVIOUS
  <2>2. [page: {q}, from: DOMAIN file.pages[q]]
           \in {[page: {r}, from: DOMAIN file.pages[r]] : r \in DOMAIN file.pages}
    OBVIOUS
  <2>3. [page |-> q, from |-> f]
           \in UNION {[page: {r}, from: DOMAIN file.pages[r]] : r \in DOMAIN file.pages}
    BY <2>1, <2>2, Zenon
  <2>. QED  BY <1>1, <2>3 DEF Headings
<1>2. ASSUME NEW h \in Headings
      PROVE  /\ h.page \in DOMAIN file.pages /\ h.from \in DOMAIN file.pages[h.page]
             /\ h = [page |-> h.page, from |-> h.from] /\ Rank(h) > 0
  <2>1. PICK q \in DOMAIN file.pages : h \in [page: {q}, from: DOMAIN file.pages[q]]
    BY <1>2 DEF Headings
  <2>2. Rank(h) > 0
    BY <1>2 DEF Headings, Rank
  <2>3. h.page = q /\ h.from \in DOMAIN file.pages[q] /\ h = [page |-> h.page, from |-> h.from]
    BY <2>1
  <2>. QED  BY <2>2, <2>3
<1>. QED  BY <1>1, <1>2

(* Blank lines and table lines are no headings. *)
LEMMA NoHeadings ==
    /\ DetectHeading(Blank) = 0
    /\ \A l \in Lines : /\ DetectHeading(l) > 0 => l.kind # "blank"
                        /\ IsTableLine(l) => DetectHeading(l) = 0
<1>1. ASSUME NEW l \in Lines, l.shape = "none"
      PROVE  DetectHeading(l) = 0
  BY <1>1 DEF DetectHeading, PatternLevel
<1>2. Blank \in Lines /\ Blank.shape = "none"
  BY IngestionAssumption
<1>3. \A l \in Lines : l.kind = "blank" => l.shape = "none"
  BY IngestionAssumption
<1>4. \A l \in Lines : IsTableLine(l) => DetectHeading(l) = 0
  BY DEF DetectHeading
<1>5. ~(0 > 0)
  OBVIOUS
<1>. QED  BY <1>1, <1>2, <1>3, <1>4, <1>5

(* Between a section's heading and its line p there is no heading. *)
LEMMA OutlineOfSection ==
    ASSUME NEW n \in DOMAIN nodes, nodes[n].head \in Nat, nodes[n].lines \in Seq(Nat),
           \A i \in DOMAIN nodes[n].lines : /\ nodes[n].lines[i] = nodes[n].head + i
                                            /\ Level(nodes[n].lines[i]) = 0,
           NEW m \in DOMAIN nodes[n].lines, NEW p, p = nodes[n].lines[m]
    PROVE  \A h : h \in Outline(p) <=> h \in Outline(nodes[n].head)
<1>. SUFFICES ASSUME NEW d, d = nodes[n].head
              PROVE  \A h : h \in Outline(p) <=> h \in Outline(d)
  OBVIOUS
<1>1. d \in Nat /\ m \in Nat /\ p = d + m /\ p \in Nat /\ DOMAIN nodes[n].lines = 1..Len(nodes[n].lines)
      /\ Len(nodes[n].lines) \in Nat
  OBVIOUS
<1>2. ASSUME NEW g \in d + 1..p
      PROVE  ~(Level(g) > 0)
  <2>1. g - d \in DOMAIN nodes[n].lines /\ d + (g - d) = g
    <3>1. g - d \in 1..m /\ d + (g - d) = g
      <4>1. d \in Nat /\ m \in Nat /\ g \in d + 1..d + m
        BY <1>1
      <4>. QED  BY <4>1
    <3>2. 1..m \subseteq DOMAIN nodes[n].lines
      BY <1>1
    <3>. QED  BY <3>1, <3>2
  <2>2. Level(g) = 0
    BY <2>1
  <2>. QED  BY <2>2
<1>3. \A h \in 1..d : \A g : g \in h + 1..p <=> g \in h + 1..d \/ g \in d + 1..p
  BY <1>1
<1>4. \A h : h \in 1..p <=> h \in 1..d \/ h \in d + 1..p
  BY <1>1
<1>. QED  BY <1>2, <1>3, <1>4 DEF Outline

(* A sentence of a section is no line of an injected table: it would stand *)
(* in a block there, since a line of its table is beside it.               *)
LEMMA SentencesAreNotInjected ==
    ASSUME IInv, TablesInjected, Tiled(Len(lines)), NEW n \in DOMAIN nodes, NEW p, SentenceOf(n, p)
    PROVE  ~Injected(p)
<1>0. SUFFICES ASSUME Injected(p), NEW d, d = nodes[n].head, NEW s, s = nodes[n].lines,
                      NEW N, N = Len(s)
               PROVE  FALSE
  OBVIOUS
<1>1. nodes \in Seq(NodeRecord) /\ lines \in Seq(LineRecord) /\ n \in 1..Len(nodes) /\ Len(nodes) \in Nat
      /\ Len(lines) \in Nat /\ n \in Nat
  BY DEF IInv, CodeTypes
<1>2. nodes[n] \in NodeRecord
  BY <1>1
<1>3. d \in Nat /\ s \in Seq(Positions)
  BY <1>0, <1>1, <1>2 DEF NodeRecord, Positions
<1>4. N \in Nat /\ DOMAIN s = 1..N /\ \A i \in 1..N : s[i] \in Positions
  BY <1>0, <1>3
<1>5. PICK m \in 1..N : s[m] = p /\ IsSentence(s, m)
  BY <1>0, <1>4 DEF SentenceOf
<1>6. /\ \A i \in 1..N : s[i] = d + i
      /\ d + N = IF n < Len(nodes) THEN nodes[n + 1].head - 1 ELSE Len(lines)
      /\ n > 1 => Level(d) > 0
      /\ n = 1 => d = 0
  <2>1. nodes[1].head = 0
    BY <1>1 DEF Tiled
  <2>. QED  BY <1>0, <1>1, <1>4, <2>1 DEF Tiled
<1>7. /\ \A q \in Positions : lines[q].line \in Lines
      /\ \A q \in Positions : IsTableLine(lines[q].line) => ~(Level(q) > 0)
  <2>1. ASSUME NEW q \in Positions
        PROVE  lines[q].line \in Lines
    <3>1. lines[q] \in LineRecord
      BY <1>1 DEF Positions
    <3>. QED  BY <3>1 DEF LineRecord
  <2>. QED  BY <2>1, NoHeadings DEF Level
<1>8. p \in Positions /\ m \in Nat /\ p = d + m /\ p \in Nat
  BY <1>3, <1>4, <1>5, <1>6
<1>9. lines[p].line # Blank
  <2>1. Blank.kind = "blank" /\ lines[p].line.kind # "blank"
    BY <1>5, IngestionAssumption DEF IsSentence
  <2>. QED  BY <2>1
<1>10. InTable(p) /\ IsTableLine(lines[p].line)
  BY <1>0, <1>8, <1>9 DEF TablesInjected, InTable
<1>11. ~InBlock(s, m)
  BY <1>5 DEF IsSentence
<1>12. CASE p + 1 \in Positions /\ IsTableLine(lines[p + 1].line)
  <2>1. CASE m < N
    <3>1. m + 1 \in 1..N /\ d + (m + 1) = p + 1
      BY <1>3, <1>4, <1>8, <2>1
    <3>2. s[m + 1] = p + 1
      BY <1>6, <3>1
    <3>. QED  BY <1>0, <1>5, <1>10, <1>11, <1>12, <2>1, <3>2 DEF InBlock
  <2>2. CASE m = N
    <3>1. p = d + N
      BY <1>8, <2>2
    <3>2. n < Len(nodes)
      BY <1>1, <1>6, <1>12, <3>1 DEF Positions
    <3>3. n + 1 \in DOMAIN nodes /\ n + 1 > 1 /\ nodes[n + 1].head \in Nat
      <4>1. n + 1 \in 1..Len(nodes) /\ n + 1 > 1
        BY <1>1, <3>2
      <4>2. nodes[n + 1] \in NodeRecord
        BY <1>1, <4>1
      <4>. QED  BY <4>1, <4>2 DEF NodeRecord, Positions
    <3>4. nodes[n + 1].head = p + 1
      BY <1>6, <1>8, <3>1, <3>2, <3>3
    <3>5. Level(p + 1) > 0
      <4>1. nodes[n + 1].level = Level(nodes[n + 1].head) /\ nodes[n + 1].level > 0
        BY <3>3 DEF Tiled
      <4>. QED  BY <3>4, <4>1
    <3>. QED  BY <1>7, <1>12, <3>5
  <2>. QED  BY <1>4, <1>8, <2>1, <2>2
<1>13. CASE p - 1 \in Positions /\ IsTableLine(lines[p - 1].line)
  <2>1. CASE m > 1
    <3>1. m - 1 \in 1..N /\ d + (m - 1) = p - 1
      BY <1>3, <1>4, <1>8, <2>1
    <3>2. s[m - 1] = p - 1
      BY <1>6, <3>1
    <3>. QED  BY <1>5, <1>10, <1>11, <1>13, <2>1, <3>2 DEF InBlock
  <2>2. CASE m = 1
    <3>1. p - 1 = d
      BY <1>3, <1>8, <2>2
    <3>2. n > 1
      BY <1>1, <1>6, <1>13, <3>1 DEF Positions
    <3>. QED  BY <1>6, <1>7, <1>13, <3>1, <3>2
  <2>. QED  BY <1>4, <1>8, <2>1, <2>2
<1>. QED  BY <1>10, <1>12, <1>13 DEF InTable

(* The outline at a line of the file's own pages, seen from the file. *)
LEMMA OutlineInFile ==
    ASSUME IInv, PagesOfFile(pages), NoPageMissing(pages),
           FromPages(Len(pages)), PlacesRise, NoLineMissing(Len(pages)),
           NEW p \in Positions, ~Injected(p), Level(p) = 0
    PROVE  OutlineOf(PlaceOf(p)) = {PlaceOf(h) : h \in Outline(p)}
<1>1. /\ pages \in Seq(PageRecord) /\ lines \in Seq(LineRecord) /\ Len(pages) \in Nat
      /\ DOMAIN pages = 1..Len(pages) /\ Len(lines) \in Nat
  BY DEF IInv, CodeTypes
<1>2. /\ p \in Nat /\ \A q \in 1..p : q \in Positions /\ q \in Nat
  BY <1>1 DEF Positions
<1>3. ASSUME NEW q \in Positions
      PROVE  /\ lines[q].line \in Lines /\ lines[q].page \in Nat /\ lines[q].from \in Nat
             /\ PlaceOf(q).page = lines[q].page /\ PlaceOf(q).from = lines[q].from
  <2>1. lines[q] \in LineRecord
    BY <1>1 DEF Positions
  <2>. QED  BY <2>1 DEF LineRecord, PlaceOf
<1>4. \A q \in 1..p : ~Injected(q) /\ (q < p => Before(PlaceOf(q), PlaceOf(p)))
  <2>1. ASSUME NEW q \in 1..p
        PROVE  ~Injected(q) /\ (q < p => Before(PlaceOf(q), PlaceOf(p)))
    <3>1. CASE q = p
      BY <1>2, <3>1
    <3>2. CASE q < p
      BY <1>2, <3>2 DEF PlacesRise
    <3>. QED  BY <1>2, <3>1, <3>2
  <2>. QED  BY <2>1
<1>5. \A q, r \in 1..p : q < r => Before(PlaceOf(q), PlaceOf(r))
  BY <1>2, <1>4 DEF PlacesRise
<1>6. \A q, r \in Positions : Before(PlaceOf(q), PlaceOf(r)) => ~Before(PlaceOf(r), PlaceOf(q)) /\ q # r
  BY <1>3 DEF Before
<1>7. \A q, r \in 1..p : Before(PlaceOf(q), PlaceOf(r)) => q < r
  <2>1. ASSUME NEW q \in 1..p, NEW r \in 1..p, Before(PlaceOf(q), PlaceOf(r)), ~(q < r)
        PROVE  FALSE
    <3>1. q # r /\ ~Before(PlaceOf(r), PlaceOf(q))
      BY <1>2, <1>6, <2>1
    <3>2. r < q
      BY <1>2, <2>1, <3>1
    <3>. QED  BY <1>5, <3>1, <3>2
  <2>. QED  BY <2>1
(* A line of the pages, on its page. *)
<1>8. ASSUME NEW q \in 1..p
      PROVE  \E i \in 1..Len(pages) :
                /\ ~pages[i].injected /\ lines[q].page = pages[i].number
                /\ pages[i].number \in DOMAIN file.pages /\ pages[i].lines = file.pages[pages[i].number]
                /\ \E k \in 1..Len(pages[i].lines) + 1 : LineOfPage(q, i, k)
  <2>1. q \in Positions /\ ~Injected(q)
    BY <1>2, <1>4
  <2>2. PICK i \in 1..Len(pages) :
           ~pages[i].injected /\ \E k \in 1..Len(pages[i].lines) + 1 : LineOfPage(q, i, k)
    BY <2>1 DEF FromPages
  <2>3. lines[q].page = pages[i].number
    BY <2>2 DEF LineOfPage
  <2>4. pages[i].number \in DOMAIN file.pages /\ pages[i].lines = file.pages[pages[i].number]
    BY <1>1, <2>2 DEF PagesOfFile
  <2>. QED  BY <2>2, <2>3, <2>4
<1>9. ASSUME NEW q \in 1..p, Level(q) > 0
      PROVE  PlaceOf(q) \in Above(PlaceOf(p)) /\ Rank(PlaceOf(q)) = Level(q) /\ q < p
  <2>1. q < p
    <3>1. q # p
      BY <1>9
    <3>. QED  BY <1>2, <3>1
  <2>2. PICK i \in 1..Len(pages) :
                /\ ~pages[i].injected /\ lines[q].page = pages[i].number
                /\ pages[i].number \in DOMAIN file.pages /\ pages[i].lines = file.pages[pages[i].number]
                /\ \E k \in 1..Len(pages[i].lines) + 1 : LineOfPage(q, i, k)
    BY <1>8
  <2>3. PICK k \in 1..Len(pages[i].lines) + 1 : LineOfPage(q, i, k)
    BY <2>2
  <2>4. pages[i] \in PageRecord
    BY <1>1
  <2>5. pages[i].lines \in Seq(Lines) /\ Len(pages[i].lines) \in Nat
    BY <2>4 DEF PageRecord
  <2>6. k <= Len(pages[i].lines)
    <3>1. lines[q].line # Blank
      BY <1>9, NoHeadings DEF Level
    <3>. QED  BY <2>3, <3>1 DEF LineOfPage
  <2>7. k \in DOMAIN file.pages[pages[i].number] /\ lines[q].line = file.pages[pages[i].number][k]
        /\ lines[q].from = k
    BY <2>2, <2>3, <2>5, <2>6 DEF LineOfPage
  <2>8. PlaceOf(q) = [page |-> pages[i].number, from |-> k]
    BY <2>2, <2>7 DEF PlaceOf
  <2>9. DetectHeading(file.pages[pages[i].number][k]) = Level(q)
    BY <2>7 DEF Level
  <2>10. PlaceOf(q) \in Headings
    BY <1>9, <2>2, <2>7, <2>8, <2>9, HeadingIs
  <2>11. Rank(PlaceOf(q)) = Level(q)
    BY <2>8, <2>9 DEF Rank
  <2>. QED  BY <1>4, <2>1, <2>10, <2>11 DEF Above
<1>10. ASSUME NEW h \in Above(PlaceOf(p))
       PROVE  \E q \in 1..p : q < p /\ PlaceOf(q) = h /\ Level(q) = Rank(h) /\ Rank(h) > 0
  <2>1. h \in Headings /\ Before(h, PlaceOf(p))
    BY <1>10 DEF Above
  <2>2. /\ h.page \in DOMAIN file.pages /\ h.from \in DOMAIN file.pages[h.page]
        /\ h = [page |-> h.page, from |-> h.from] /\ Rank(h) > 0
    BY <2>1, HeadingIs
  <2>3. p \in 1..p
    BY <1>1, <1>2 DEF Positions
  <2>4. PICK i \in 1..Len(pages) :
                /\ ~pages[i].injected /\ lines[p].page = pages[i].number
                /\ pages[i].number \in DOMAIN file.pages /\ pages[i].lines = file.pages[pages[i].number]
                /\ \E k \in 1..Len(pages[i].lines) + 1 : LineOfPage(p, i, k)
    BY <1>8, <2>3
  <2>5. file.pages \in Seq(Seq(Lines))
    BY FilesAssumption DEF IInv
  <2>6. /\ file.pages[h.page] \in Seq(Lines) /\ file.pages[h.page][h.from] \in Lines
        /\ h.page \in Nat /\ h.from \in 1..Len(file.pages[h.page]) /\ h.from \in Nat /\ h.from # 0
    <3>1. file.pages[h.page] \in Seq(Lines) /\ h.page \in Nat
      BY <2>2, <2>5
    <3>. QED  BY <2>2, <3>1
  <2>7. HasText(file.pages[h.page])
    <3>1. file.pages[h.page][h.from].kind # "blank"
      BY <2>2, <2>6, NoHeadings DEF Rank
    <3>. QED  BY <2>2, <3>1 DEF HasText
  <2>8. \E j \in 1..Len(pages) : ~pages[j].injected /\ pages[j].number = h.page
    <3>1. CASE h.page = pages[i].number
      BY <2>4, <3>1
    <3>2. CASE h.page < pages[i].number
      BY <1>1, <2>2, <2>4, <2>7, <3>2 DEF NoPageMissing, HasPage
    <3>3. h.page = lines[p].page \/ h.page < lines[p].page
      BY <1>3, <2>1 DEF Before
    <3>. QED  BY <2>4, <3>1, <3>2, <3>3
  <2>9. PICK j \in 1..Len(pages) : ~pages[j].injected /\ pages[j].number = h.page
    BY <2>8
  <2>10. pages[j].lines = file.pages[h.page]
    BY <1>1, <2>9 DEF PagesOfFile
  <2>11. PICK q \in Positions : LineOfPage(q, j, h.from)
    BY <2>6, <2>9, <2>10 DEF NoLineMissing
  <2>12. /\ lines[q].page = h.page /\ lines[q].from = h.from
         /\ lines[q].line = file.pages[h.page][h.from]
    BY <2>6, <2>9, <2>10, <2>11 DEF LineOfPage
  <2>13. PlaceOf(q) = h /\ Level(q) = Rank(h) /\ ~Injected(q)
    BY <2>2, <2>6, <2>12 DEF PlaceOf, Level, Rank, Injected
  <2>14. q # p /\ ~Before(PlaceOf(p), PlaceOf(q))
    BY <1>6, <2>1, <2>13
  <2>15. q < p /\ q \in 1..p
    <3>1. q \in Nat /\ q > 0
      BY <1>1 DEF Positions
    <3>2. ~(p < q)
      BY <2>13, <2>14 DEF PlacesRise
    <3>. QED  BY <1>2, <2>14, <3>1, <3>2
  <2>. QED  BY <2>2, <2>13, <2>15
<1>11. ASSUME NEW q \in Outline(p)
       PROVE  PlaceOf(q) \in OutlineOf(PlaceOf(p))
  <2>1. q \in 1..p /\ Level(q) > 0 /\ \A g \in q + 1..p : Level(g) > 0 => Level(g) > Level(q)
    BY <1>11 DEF Outline
  <2>2. PlaceOf(q) \in Above(PlaceOf(p)) /\ Rank(PlaceOf(q)) = Level(q)
    BY <1>9, <2>1
  <2>3. ASSUME NEW g \in Above(PlaceOf(p)), Before(PlaceOf(q), g)
        PROVE  Rank(g) > Rank(PlaceOf(q))
    <3>1. PICK r \in 1..p : PlaceOf(r) = g /\ Level(r) = Rank(g) /\ Rank(g) > 0
      BY <1>10
    <3>2. q < r
      BY <1>7, <2>1, <2>3, <3>1
    <3>3. r \in q + 1..p
      BY <1>2, <2>1, <3>2
    <3>. QED  BY <2>1, <2>2, <3>1, <3>3
  <2>. QED  BY <2>2, <2>3, OutlineOfPlace
<1>12. ASSUME NEW h \in OutlineOf(PlaceOf(p))
       PROVE  \E q \in Outline(p) : h = PlaceOf(q)
  <2>1. h \in Above(PlaceOf(p)) /\ \A g \in Above(PlaceOf(p)) : Before(h, g) => Rank(g) > Rank(h)
    BY <1>12, OutlineOfPlace
  <2>2. PICK q \in 1..p : q < p /\ PlaceOf(q) = h /\ Level(q) = Rank(h) /\ Rank(h) > 0
    BY <1>10, <2>1
  <2>3. ASSUME NEW g \in q + 1..p, Level(g) > 0
        PROVE  Level(g) > Level(q)
    <3>1. g \in 1..p /\ q < g
      BY <1>2
    <3>2. PlaceOf(g) \in Above(PlaceOf(p)) /\ Rank(PlaceOf(g)) = Level(g)
      BY <1>9, <2>3, <3>1
    <3>3. Before(h, PlaceOf(g))
      BY <1>5, <2>2, <3>1
    <3>. QED  BY <2>1, <2>2, <3>2, <3>3
  <2>4. q \in Outline(p)
    BY <2>2, <2>3 DEF Outline
  <2>. QED  BY <2>2, <2>4
<1>. QED  BY <1>11, <1>12

(* chunker.py:391-413 with ingestion.py:42-69: a text chunk's path is the  *)
(* outline of the uploaded file at each of its sentences, for every file   *)
(* whose extraction PyMuPDF does not break off after a page.               *)
THEOREM TextStaysInItsSection == Spec => []TextKeepsItsSection
<1>1. IInv /\ PagesInOrder /\ LinesInPlace /\ SectionsInPlace /\ TextsSourced => TextKeepsItsSection
  <2>. SUFFICES ASSUME IInv, PagesInOrder, LinesInPlace, SectionsInPlace, TextsSourced, Faithful,
                       NEW i \in DOMAIN chunks, IsText(chunks[i]),
                       NEW path, path = chunks[i].path,
                       NEW k \in DOMAIN chunks[i].body, NEW p, p = chunks[i].body[k]
                PROVE  /\ {PlaceOf(path[m]) : m \in DOMAIN path} = OutlineOf(PlaceOf(p))
                       /\ \A m \in 1..Len(path) - 1 : path[m] < path[m + 1]
    BY DEF TextKeepsItsSection, Faithful, PlaceOf
  <2>. DEFINE n == chunks[i].node
  <2>1. n \in DOMAIN nodes /\ path = nodes[n].path /\ SentenceOf(n, p)
    BY DEF TextsSourced, Sourced
  <2>. HIDE DEF n
  <2>2. ~Extracting /\ pc # "merge" /\ nodes # <<>> /\ pc # "parse"
    <3>1. nodes # <<>> /\ chunks # <<>>
      BY <2>1
    <3>. QED  BY <3>1 DEF SectionsInPlace, TextsSourced
  <2>3. Tiled(Len(lines)) /\ PathsAreOutlines
    BY <2>2 DEF SectionsInPlace, Parsed
  <2>4. FromPages(Len(pages)) /\ PlacesRise /\ NoLineMissing(Len(pages)) /\ TablesInjected
    BY <2>2 DEF LinesInPlace, Merged
  <2>5. PagesOfFile(pages) /\ NoPageMissing(pages)
    BY DEF PagesInOrder
  <2>6. ~Injected(p)
    BY <2>1, <2>3, <2>4, SentencesAreNotInjected
  <2>7. /\ nodes \in Seq(NodeRecord) /\ nodes[n] \in NodeRecord
        /\ nodes[n].head \in Nat /\ nodes[n].lines \in Seq(Positions) /\ nodes[n].lines \in Seq(Nat)
        /\ path \in Seq(Positions)
    <3>1. nodes \in Seq(NodeRecord)
      BY DEF IInv, CodeTypes
    <3>2. nodes[n] \in NodeRecord
      BY <2>1, <3>1
    <3>3. nodes[n].head \in Nat /\ nodes[n].lines \in Seq(Positions) /\ nodes[n].path \in Seq(Positions)
      BY <3>2 DEF NodeRecord, Positions
    <3>. QED  BY <2>1, <3>1, <3>2, <3>3, PositionsAreNumbers
  <2>8. PICK m \in DOMAIN nodes[n].lines : nodes[n].lines[m] = p
    BY <2>1 DEF SentenceOf
  <2>9. \A j \in DOMAIN nodes[n].lines : /\ nodes[n].lines[j] = nodes[n].head + j
                                         /\ Level(nodes[n].lines[j]) = 0
    BY <2>1, <2>3 DEF Tiled
  <2>10. p \in Positions /\ Level(p) = 0
    BY <2>7, <2>8, <2>9
  <2>11. \A h : h \in Outline(p) <=> h \in Outline(nodes[n].head)
    BY <2>1, <2>7, <2>8, <2>9, OutlineOfSection
  <2>12. /\ Rising(path)
         /\ \A h : h \in Outline(p) <=> \E j \in DOMAIN path : path[j] = h
    <3>1. /\ Rising(nodes[n].path)
          /\ \A h : h \in Outline(nodes[n].head)
                       <=> \E j \in DOMAIN nodes[n].path : nodes[n].path[j] = h
      BY <2>1, <2>3, Zenon DEF PathsAreOutlines
    <3>. QED  BY <2>1, <2>11, <3>1
  <2>13. {PlaceOf(path[j]) : j \in DOMAIN path} = {PlaceOf(h) : h \in Outline(p)}
    BY <2>12
  <2>14. OutlineOf(PlaceOf(p)) = {PlaceOf(h) : h \in Outline(p)}
    BY <2>4, <2>5, <2>6, <2>10, OutlineInFile
  <2>15. \A j \in 1..Len(path) - 1 : path[j] < path[j + 1]
    BY <2>7, <2>12 DEF Rising
  <2>. QED  BY <2>13, <2>14, <2>15
<1>. QED  BY <1>1, LinesAlwaysInPlace, SectionsAlwaysInPlace, TextsAlwaysSourced, PTL

-----------------------------------------------------------------------------
(* The theorems                                                            *)

(* What a step records as dropped is a piece of the section at hand. *)
DroppedType == dropped \subseteq DroppedRecord

LEMMA StepDropped == IInv /\ DroppedType /\ [Next]_vars => DroppedType'
<1>. SUFFICES ASSUME IInv, dropped \subseteq DroppedRecord, [Next]_vars
              PROVE  dropped' \subseteq DroppedRecord
  BY DEF DroppedType, DroppedRecord
<1>1. node \in Nat /\ cur \in PieceType /\ lines \in Seq(LineRecord)
  BY DEF IInv, CodeTypes
<1>2. ASSUME NEW piece \in PieceType
      PROVE  DroppedText(piece) \cup DroppedTable(piece) \subseteq DroppedRecord
  <2>1. piece.body \in Seq(Nat) /\ piece.words \in Nat
    BY DEF PieceType
  <2>2. Dropped(piece) \in DroppedRecord
    BY <1>1, <2>1 DEF Dropped, DroppedRecord
  <2>. QED  BY <2>2 DEF DroppedText, DroppedTable
<1>3. CASE dropped' \subseteq dropped \cup DroppedText(cur) \cup DroppedTable(cur)
  BY <1>1, <1>2, <1>3
<1>4. CASE Extract
  BY <1>3, <1>4 DEF Extract, ReadPage, FitzEnds, FitzFails, PlumberEnds, InjectTable, TablesEnd,
                    ReadText, walk
<1>5. CASE Parse
  BY <1>3, <1>5 DEF Parse, MergePage, MergeEnds, PopSection, ParseHeading, ParseBody, ParseEnds,
                    walk
<1>6. CASE Tables
  BY <1>3, <1>6 DEF Tables, ScanRow, ScanOther, SingleRow, TakeTable, StartSplit, SplitRow,
                    SplitEnds, BlocksEnd, walk
<1>7. CASE PackOversized
  <2>1. PICK p \in 1..Len(lines) :
          dropped' \subseteq dropped \cup DroppedText(cur) \cup DroppedText(Piece(p))
    BY <1>7 DEF PackOversized
  <2>2. Piece(p) \in PieceType
    BY <1>1, OneSentencePiece DEF Positions
  <2>. QED  BY <1>1, <1>2, <2>1, <2>2
<1>8. CASE SkipNoSentence \/ PackOverflow \/ PackSentence \/ PackEnds
  BY <1>3, <1>8 DEF SkipNoSentence, PackOverflow, PackSentence, PackEnds, walk
<1>9. CASE UNCHANGED vars
  BY <1>3, <1>9 DEF vars
<1>. QED  BY <1>4, <1>5, <1>6, <1>7, <1>8, <1>9 DEF Next, Pack, Done

(* ingestion.py and chunker.py: the sections, pieces and chunks keep their *)
(* shape, whatever the file.                                               *)
THEOREM TypeCorrect == Spec => []TypeOK
<1>1. Init => DroppedType
  BY DEF Init, DroppedType
<1>2. IInv /\ DroppedType => TypeOK
  BY DEF IInv, DroppedType, TypeOK
<1>. QED  BY <1>1, <1>2, StepDropped, Invariance, PTL DEF Spec

(* chunker.py:447-537 and 284-311: whatever the budget and the file, every *)
(* emitted chunk, with the title in front of it, stays within the bound    *)
(* that ChunksFitBudget states, although the running count of a piece is   *)
(* below the count of the joined text, although the overlap may start a    *)
(* piece over the budget, and although the title is not counted.           *)
THEOREM EveryChunkFits == Spec => []ChunksFitBudget
BY Invariance, PTL DEF IInv
=============================================================================
