------------------------------ MODULE Passages ------------------------------
(***************************************************************************)
(* From a document to its chunks: a loader reads lines under a stack of    *)
(* headings and hands over segments, the chunker packs them to a budget    *)
(* and says of every chunk which pages and which heading path it is from.  *)
(*                                                                         *)
(* A document is read line by line, any document within the bounds.  A     *)
(* heading's title, and the document's name, count as one token or more;   *)
(* a title is the sequence of the lines it was put together from.          *)
(***************************************************************************)
EXTENDS Splitting, FiniteSets

CONSTANTS
    Settings,   \* [format, strategy, chunk, overlap, skew, name]: what a file and an organization bring
    Shapes,     \* bound: the lines, items and sheets, by what ends and follows each token
    Levels,     \* bound: levels of headings
    MaxLines,   \* bound: lines of a document
    MaxPages    \* bound: pages of a document

ChunkStrategy == {"semantic", "per-unit", "fixed"}

\* PUT /orgs/{id}/chunking accepts every overlap below the size.
ASSUME PassagesAssumption ==
    /\ Settings \subseteq [format : {"pdf", "md", "docx", "html", "txt", "json", "xlsx"},
                            strategy : ChunkStrategy, chunk : Nat \ {0}, overlap : Nat,
                            skew : Int, name : Nat]
    /\ \A s \in Settings : s.overlap < s.chunk
    /\ Shapes \subseteq Seq(BOOLEAN \X After) \ {<<>>} /\ Levels \subseteq Nat \ {0} /\ MaxLines \in Nat /\ MaxPages \in Nat \ {0}

VARIABLES
    set,                        \* the settings of this document
    doc,                        \* its lines so far: [kind, level, contents, shape, page]; an item is a line with a section of its own
    page,                       \* the page being read, 0 where the format has none
    stack, buffer, wrapped,     \* _SectionBuilder, and the level a heading may continue on
    segments,                   \* what the loader has handed over, in order
    pc,                         \* "load", "chunk" or "done"
    todo, pack, packTokens,     \* segments not packed yet, the pack and its running count
    chunks                      \* what is to be indexed, in order

passagesVars == <<set, doc, page, stack, buffer, wrapped, segments, pc, todo, pack, packTokens, chunks>>

Text    == Seq(Nat \X Nat \X BOOLEAN \X After)
Path    == Seq(Seq(Nat))
Segment == [text : Text, page : Nat, section : Path]
Chunk   == [text : Text, tokens : Nat, section : Path, page : Nat, pageEnd : Nat]

PassagesInit ==
    /\ set \in Settings
    /\ doc = <<>> /\ page = (IF set.format = "pdf" THEN 1 ELSE 0)
    /\ stack = <<>> /\ buffer = <<>> /\ wrapped = 0 /\ segments = <<>>
    /\ pc = "load" /\ todo = <<>> /\ pack = <<>> /\ packTokens = 0 /\ chunks = <<>>
-----------------------------------------------------------------------------
(***************************************************************************)
(* _SectionBuilder.                                                        *)
(***************************************************************************)
Section(st) == [i \in DOMAIN st |-> st[i].title]

\* A title is one of _CONTENTS_TITLES as it is with the last of its lines.
is_contents(section) == section # <<>> /\ doc[Last(section[1])].contents

flush ==
    /\ buffer' = <<>>
    /\ segments' = IF buffer = <<>> \/ is_contents(Section(stack)) THEN segments
                   ELSE Append(segments, [text |-> Followed(buffer, ""), page |-> page,
                                          section |-> Section(stack)])

Chunker == <<pc, todo, pack, packTokens, chunks>>
Line(kind, level, shape) ==
    [kind |-> kind, level |-> level, contents |-> FALSE, shape |-> shape, page |-> page]
Reads(line) == pc = "load" /\ Len(doc) < MaxLines /\ doc' = Append(doc, line)
NewWords(shape) ==
    [k \in DOMAIN shape |->
        <<Len(doc) + 1, k, shape[k][1], IF k = Len(shape) THEN "\n" ELSE shape[k][2]>>]

add_text(shape) ==
    /\ Reads(Line("text", 0, shape))
    /\ buffer' = buffer \o NewWords(shape)
    /\ wrapped' = 0
    /\ UNCHANGED <<set, page, stack, segments, Chunker>>

\* The headings a new one of this level is under: the others are popped.
Under(level) == SubSeq(stack, 1, Max({0} \cup {i \in DOMAIN stack : stack[i].level < level}))

HeadingLine(level, contents) == [Line("heading", level, <<>>) EXCEPT !.contents = contents]

heading(level, contents) ==
    /\ Reads(HeadingLine(level, contents))
    /\ flush
    /\ stack' = Append(Under(level), [level |-> level, title |-> <<Len(doc) + 1>>])
    /\ wrapped' = level
    /\ UNCHANGED <<set, page, Chunker>>

\* No title of a table of contents goes on as another.
extend_heading(level, contents) ==
    /\ contents => ~ Last(doc).contents
    /\ Reads(HeadingLine(level, contents))
    /\ stack' = [stack EXCEPT ![Len(stack)].title = Append(@, Len(doc) + 1)]
    /\ UNCHANGED <<set, page, buffer, wrapped, segments, Chunker>>
-----------------------------------------------------------------------------
(***************************************************************************)
(* The loaders, each reading one more line of its format.                  *)
(***************************************************************************)
AnyText == \E shape \in Shapes : add_text(shape)
AnyHeading == \E level \in Levels, contents \in BOOLEAN : heading(level, contents)

load_md == set.format = "md" /\ (AnyText \/ AnyHeading)

\* A paragraph styled as a heading, another, or the row of a table.
load_docx == set.format = "docx" /\ (AnyHeading \/ AnyText)

\* Text that stands in a container beside the structure it is searched for.
PassOver ==
    \E shape \in Shapes :
        /\ Reads(Line("lost", 0, shape))
        /\ wrapped' = 0
        /\ UNCHANGED <<set, page, stack, buffer, segments, Chunker>>

\* h1 to h6, the row of a table, or an element with no structure below.
html_walk == set.format = "html" /\ (AnyHeading \/ AnyText \/ PassOver)

TurnPage ==
    /\ pc = "load" /\ page < MaxPages /\ doc # <<>> /\ page = Last(doc).page
    /\ flush
    /\ page' = page + 1
    /\ UNCHANGED <<set, doc, stack, wrapped, Chunker>>

\* A line of the size of the heading just before it continues that heading.
load_pdf ==
    /\ set.format = "pdf"
    /\ \/ TurnPage \/ AnyText
       \/ \E level \in Levels, contents \in BOOLEAN :
            \/ wrapped = level /\ extend_heading(level, contents)
            \/ wrapped # level /\ heading(level, contents)

\* One text, its paragraphs kept.
load_txt ==
    /\ set.format = "txt"
    /\ \E shape \in Shapes, breaks \in BOOLEAN :
        /\ Reads(Line("text", 0, shape))
        /\ buffer' = buffer \o (IF breaks /\ buffer # <<>> THEN <<Break>> ELSE <<>>) \o NewWords(shape)
    /\ UNCHANGED <<set, page, stack, wrapped, segments, Chunker>>

\* An item, or a sheet, is a segment with its key, or its title, for a section.
LoadItem ==
    \E shape \in Shapes :
        /\ Reads(Line("item", 0, shape))
        /\ segments' = Append(segments, [text |-> Followed(NewWords(shape), ""), page |-> 0,
                                         section |-> <<<<Len(doc) + 1>>>>])
        /\ UNCHANGED <<set, page, stack, buffer, wrapped, Chunker>>

load_json == set.format = "json" /\ LoadItem
load_xlsx == set.format = "xlsx" /\ LoadItem
-----------------------------------------------------------------------------
(***************************************************************************)
(* The chunker.                                                            *)
(***************************************************************************)
\* The name of the document and the heading path, as tokens.
breadcrumb(section) == set.name + Length(section)
Prefix(section) == IF breadcrumb(section) = 0 THEN 0 ELSE breadcrumb(section) + 1

\* Mutant of budget_for: the breadcrumb is not taken out of the budget.
BudgetWhole(section) == larger(set.chunk, set.chunk \div 2)

budget_for(section) == larger(set.chunk - Prefix(section), set.chunk \div 2)

\* Mutant of common_section: the paths are compared by their ends.
CommonByLength(sections) ==
    SubSeq(sections[1], 1, Min({Len(sections[i]) : i \in DOMAIN sections}))

common_section(sections) ==
    LET shared == {n \in 0..Len(sections[1]) :
                      \A i \in DOMAIN sections :
                          n <= Len(sections[i]) /\ SubSeq(sections[i], 1, n) = SubSeq(sections[1], 1, n)}
    IN  SubSeq(sections[1], 1, Max(shared))

Sections(segs) == [i \in DOMAIN segs |-> segs[i].section]

appended(body, section, from, to) ==
    [text |-> body, tokens |-> Prefix(section) + Len(body), section |-> section,
     page |-> from, pageEnd |-> IF to = from THEN 0 ELSE to]

\* A body with its breadcrumb, if that fits; what it is cut into, if it does not.
Bodies(body, section) ==
    IF body = <<>> THEN <<>>
    ELSE IF Prefix(section) + Len(body) <= set.chunk THEN <<body>>
    ELSE split_text(body, budget_for(section), set.overlap, set.skew)

\* The chunks one call of emit adds.
emit(text, section, from, to) ==
    LET bodies == Bodies(strip(text), section)
    IN  [i \in DOMAIN bodies |-> appended(bodies[i], section, from, to)]

PiecesOf(segment) ==
    IF Len(segment.text) <= budget_for(segment.section) THEN <<segment.text>>
    ELSE split_text(segment.text, budget_for(segment.section), set.overlap, set.skew)
Sized(segment) ==
    LET pieces == PiecesOf(segment)
    IN  [i \in DOMAIN pieces |-> [segment EXCEPT !.text = pieces[i]]]
sized_segments(segs) == FlattenSeq([i \in DOMAIN segs |-> Sized(segs[i])])

Joined(segs) ==
    FlattenSeq([i \in DOMAIN segs |->
        IF i = Len(segs) THEN segs[i].text ELSE Append(Followed(segs[i].text, "\n"), Break)])

\* The last flush of the loader, and the strategy's first step; no segment, no chunk.
Hand(segs) ==
    /\ pc' = (IF segs = <<>> THEN "done" ELSE "chunk")
    /\ todo' = IF set.strategy = "semantic" THEN sized_segments(segs) ELSE segs
EndOfDocument ==
    /\ pc = "load" /\ doc # <<>>
    /\ flush /\ Hand(segments')
    /\ UNCHANGED <<set, doc, page, stack, wrapped, pack, packTokens, chunks>>

Loader == <<set, doc, page, stack, buffer, wrapped, segments>>

Flushed == emit(Joined(pack), common_section(Sections(pack)), pack[1].page, Last(pack).page)

costs_the_section(segment) ==
    LET current == common_section(Sections(pack))
    IN  current # <<>> /\ common_section(Append(Sections(pack), segment.section)) # current

Closes(segment) ==
    LET head == IF pack = <<>> THEN segment ELSE pack[1]
    IN  /\ pack # <<>>
        /\ \/ packTokens + Len(segment.text) + 2 > budget_for(head.section)
           \/ costs_the_section(segment) /\ packTokens >= set.chunk \div 2

chunk_semantic ==
    /\ pc = "chunk" /\ set.strategy = "semantic" /\ todo # <<>>
    /\ LET segment == Head(todo) IN
       IF Closes(segment)
       THEN /\ chunks' = chunks \o Flushed
            /\ pack' = <<segment>> /\ packTokens' = Len(segment.text)
       ELSE /\ pack' = Append(pack, segment)
            /\ packTokens' = packTokens + Len(segment.text) + (IF pack = <<>> THEN 0 ELSE 2)
            /\ UNCHANGED chunks
    /\ todo' = Tail(todo)
    /\ UNCHANGED <<Loader, pc>>

LastFlush ==
    /\ pc = "chunk" /\ set.strategy = "semantic" /\ todo = <<>>
    /\ chunks' = chunks \o Flushed
    /\ pack' = <<>> /\ packTokens' = 0 /\ pc' = "done"
    /\ UNCHANGED <<Loader, todo>>

chunk_per_unit ==
    /\ pc = "chunk" /\ set.strategy = "per-unit"
    /\ chunks' = chunks \o emit(Head(todo).text, Head(todo).section, Head(todo).page, 0)
    /\ todo' = Tail(todo) /\ pc' = (IF Len(todo) = 1 THEN "done" ELSE "chunk")
    /\ UNCHANGED <<Loader, pack, packTokens>>

chunk_fixed ==
    /\ pc = "chunk" /\ set.strategy = "fixed"
    /\ LET pieces == token_slice(Joined(todo), budget_for(<<>>), set.overlap)
       IN  chunks' = FlattenSeq([i \in DOMAIN pieces |-> emit(pieces[i], <<>>, 0, 0)])
    /\ todo' = <<>> /\ pc' = "done"
    /\ UNCHANGED <<Loader, pack, packTokens>>

PassagesNext ==
    \/ load_md \/ load_docx \/ html_walk \/ load_pdf \/ load_txt \/ load_json \/ load_xlsx
    \/ EndOfDocument
    \/ chunk_semantic \/ LastFlush \/ chunk_per_unit \/ chunk_fixed

PassagesSpec == PassagesInit /\ [][PassagesNext]_passagesVars
-----------------------------------------------------------------------------
PassagesTypeOK ==
    /\ set \in Settings /\ pc \in {"load", "chunk", "done"}
    /\ Len(doc) <= MaxLines /\ page \in 0..MaxPages /\ wrapped \in Levels \cup {0}
    /\ stack \in Seq([level : Levels, title : Seq(Nat)]) /\ buffer \in Text
    /\ segments \in Seq(Segment) /\ todo \in Seq(Segment) /\ pack \in Seq(Segment)
    /\ packTokens \in Nat /\ chunks \in Seq(Chunk)

(***************************************************************************)
(* What a line is under, read off the document and not off the stack.      *)
(***************************************************************************)
Headings == {k \in DOMAIN doc : doc[k].kind = "heading"}

\* A heading line that continues the heading line before it.
Continues(k) ==
    /\ set.format = "pdf" /\ k > 1 /\ {k - 1, k} \subseteq Headings /\ doc[k].level = doc[k - 1].level

TitleFrom(k) ==
    LET last == Max({j \in k..Len(doc) : \A i \in (k + 1)..j : Continues(i)})
    IN  [i \in 1..(last - k + 1) |-> k + i - 1]

\* The headings before line k with none as high or higher between.
Above(k) ==
    {h \in Headings : /\ h < k /\ ~ Continues(h)
                      /\ \A j \in Headings : h < j /\ j < k /\ ~ Continues(j) =>
                             doc[j].level > doc[h].level}

Ascending(S) == [i \in 1..Cardinality(S) |->
                    CHOOSE x \in S : Cardinality({y \in S : y < x}) = i - 1]

PathOf(k) ==
    IF doc[k].kind = "item" THEN <<<<k>>>>
    ELSE LET above == Ascending(Above(k)) IN [i \in DOMAIN above |-> TitleFrom(above[i])]

Indexed == {k \in DOMAIN doc : \/ doc[k].kind = "item"
                               \/ doc[k].kind = "text" /\ ~ is_contents(PathOf(k))}
TokensOfLine(k) == {<<k, i>> : i \in DOMAIN doc[k].shape}
Words == UNION {TokensOfLine(k) : k \in Indexed}
WordsOf(chunk) == {<<chunk.text[i][1], chunk.text[i][2]>> :
                      i \in {j \in DOMAIN chunk.text : chunk.text[j] # Break}}

\* A word goes on after this token of the document.
GoesOn(token) ==
    LET shape == doc[token[1]].shape
    IN  token # Break /\ token[2] < Len(shape) /\ shape[token[2]][2] = ""

(***************************************************************************)
(* The chunks hold every token of every line the loader took in, but for   *)
(* the tables of contents, and no other; and they keep its order: what     *)
(* comes first in the document is not first met in a later chunk.          *)
(***************************************************************************)
Precedes(w, v) == w[1] < v[1] \/ (w[1] = v[1] /\ w[2] < v[2])
HeldBefore(i) == UNION {WordsOf(chunks[j]) : j \in 1..(i - 1)}
WholeAndOrdered ==
    pc = "done" =>
        /\ UNION {WordsOf(chunks[i]) : i \in DOMAIN chunks} = Words
        /\ \A i \in DOMAIN chunks : LET held == HeldBefore(i) IN
              \A w \in WordsOf(chunks[i]) \ held, v \in held : ~ Precedes(w, v)

(***************************************************************************)
(* A chunk never claims a heading that some of its words are not under,    *)
(* and the pages it claims are where its words are.                        *)
(***************************************************************************)
HonestClaims ==
    \A i \in DOMAIN chunks : \A w \in WordsOf(chunks[i]) :
        LET c == chunks[i] IN
        /\ IsPrefix(c.section, PathOf(w[1]))
        /\ c.page # 0 => doc[w[1]].page \in c.page..larger(c.page, c.pageEnd)

(***************************************************************************)
(* No chunk is over the budget, unless its breadcrumb alone takes more     *)
(* than half of it; and then it is over by no more than the breadcrumb.    *)
(***************************************************************************)
WithinBudget ==
    \A i \in DOMAIN chunks :
        chunks[i].tokens <= larger(set.chunk, Prefix(chunks[i].section) + set.chunk \div 2)

(***************************************************************************)
(* What was apart in the document is apart in a chunk: cutting does not    *)
(* eat what was between two words.                                         *)
(***************************************************************************)
WordsStayApart ==
    \A i \in DOMAIN chunks : \A k \in 1..(Len(chunks[i].text) - 1) :
        LET token == chunks[i].text[k]
            next  == chunks[i].text[k + 1]
        IN  \/ token[4] # "" \/ Break \in {token, next}
            \/ GoesOn(token) /\ next[1] = token[1] /\ next[2] = token[2] + 1

(***************************************************************************)
(* No chunk ends inside a word, where each word has room in a chunk.       *)
(***************************************************************************)
WordsStayWhole == \A i \in DOMAIN chunks : ~ GoesOn(Last(chunks[i].text))

(***************************************************************************)
(* The visible text of a page is indexed wherever it stands.               *)
(***************************************************************************)
TextIsKept ==
    pc = "done" =>
        \A k \in DOMAIN doc :
            doc[k].kind \in {"text", "lost"} /\ ~ is_contents(PathOf(k)) =>
                TokensOfLine(k) \subseteq UNION {WordsOf(chunks[i]) : i \in DOMAIN chunks}
=============================================================================
