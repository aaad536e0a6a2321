----------------------------- MODULE Splitting ------------------------------
(***************************************************************************)
(* Cutting one piece of text to a budget of tokens: sources/chunking.py,   *)
(* split_text and what it calls.                                           *)
(*                                                                         *)
(* A text is a sequence of tokens, <<line, place, stop, after>>.  A word is *)
(* one of them or several: after is the blank or the line break that       *)
(* follows, and nothing inside a word; stop says that a full stop ends it. *)
(* The second line break of an empty line is a token of its own.           *)
(***************************************************************************)
EXTENDS Integers, Sequences, FiniteSetsExt, SequencesExt

After == {"", " ", "\n"}
Break == <<0, 0, FALSE, "\n">>

\* The last token, if it is of a word, followed by this.
Followed(text, after) ==
    [text EXCEPT ![Len(text)] = IF @ = Break THEN Break ELSE <<@[1], @[2], @[3], after>>]

\* str.strip(): no break at either end, and no blank after the last token.
strip(text) ==
    LET words == {i \in DOMAIN text : text[i] # Break}
    IN  IF words = {} THEN <<>> ELSE Followed(SubSeq(text, Min(words), Max(words)), "")

\* What is left of a text, unless nothing is.
Kept(text) == IF strip(text) = <<>> THEN <<>> ELSE <<strip(text)>>

larger(a, b) == IF a > b THEN a ELSE b
smaller(a, b) == IF a < b THEN a ELSE b
CeilDiv(a, b) == (a + b - 1) \div b
-----------------------------------------------------------------------------
\* The separator is this token, or follows it.
Separates(token, sep) ==
    \/ sep = "paragraph" /\ token = Break
    \/ sep = "line" /\ token[4] = "\n"
    \/ sep = "sentence" /\ token[3] /\ token[4] = " "
    \/ sep = "word" /\ token[4] = " "

\* A text cut after these of its tokens.
CutAfter(text, cuts) ==
    LET end == FlattenSeq([i \in DOMAIN text |->
                  IF i = Len(text) \/ i \in cuts THEN <<i>> ELSE <<>>])
    IN  [k \in DOMAIN end |-> SubSeq(text, IF k = 1 THEN 1 ELSE end[k - 1] + 1, end[k])]

split_keeping_separator(text, sep) == CutAfter(text, {i \in DOMAIN text : Separates(text[i], sep)})
slice_fixed(text, size) == CutAfter(text, {i \in DOMAIN text : i % size = 0})

Length(pieces) == FoldLeft(LAMBDA n, piece : n + Len(piece), 0, pieces)

\* The last piece is kept whole, however long it is.
tail_overlap(buf, overlap) ==
    IF overlap <= 0 THEN <<>>
    ELSE LET fits == {k \in 1..Len(buf) :
                         k = 1 \/ Length(SubSeq(buf, Len(buf) - k + 1, Len(buf))) <= overlap}
         IN  SubSeq(buf, Len(buf) - Max(fits) + 1, Len(buf))

Push(out, buf) == out \o Kept(FlattenSeq(buf))

merge_with_overlap(splits, budget, overlap) ==
    LET Add(m, piece) ==
            IF m.buf # <<>> /\ Length(m.buf) + Len(piece) > budget
            THEN [out |-> Push(m.out, m.buf),
                  buf |-> Append(tail_overlap(m.buf, overlap), piece)]
            ELSE [m EXCEPT !.buf = Append(@, piece)]
        all == FoldLeft(Add, [out |-> <<>>, buf |-> <<>>], splits)
    IN  Push(all.out, all.buf)

Divides(text, sep, budget) == Len(text) > budget /\ \E i \in DOMAIN text : Separates(text[i], sep)
Parts(text, sep, budget) ==
    IF Divides(text, sep, budget) THEN split_keeping_separator(text, sep) ELSE <<text>>
Rejoined(good, divided, budget, overlap) ==
    IF divided THEN merge_with_overlap(good, budget, overlap) ELSE good

\* At each separator if the text has it, at a finer one if not, and inside a word
\* if nothing else is left.
ByToken(text, budget, overlap) ==
    Rejoined(IF Len(text) > budget THEN slice_fixed(text, budget) ELSE <<text>>,
             Len(text) > budget, budget, overlap)

ByWord(text, budget, overlap) ==
    Rejoined(LET parts == Parts(text, "word", budget)
             IN  FlattenSeq([i \in DOMAIN parts |-> ByToken(parts[i], budget, overlap)]),
             Divides(text, "word", budget), budget, overlap)

BySentence(text, budget, overlap) ==
    Rejoined(LET parts == Parts(text, "sentence", budget)
             IN  FlattenSeq([i \in DOMAIN parts |-> ByWord(parts[i], budget, overlap)]),
             Divides(text, "sentence", budget), budget, overlap)

ByLine(text, budget, overlap) ==
    Rejoined(LET parts == Parts(text, "line", budget)
             IN  FlattenSeq([i \in DOMAIN parts |-> BySentence(parts[i], budget, overlap)]),
             Divides(text, "line", budget), budget, overlap)

recurse(text, budget, overlap) ==
    Rejoined(LET parts == Parts(text, "paragraph", budget)
             IN  FlattenSeq([i \in DOMAIN parts |-> ByLine(parts[i], budget, overlap)]),
             Divides(text, "paragraph", budget), budget, overlap)
-----------------------------------------------------------------------------
Slices(text, stride, size) ==
    LET starts == {k \in 0..Len(text) : \A j \in 0..(k - 1) : j * stride + size < Len(text)}
    IN  FlattenSeq([k \in 1..(Max(starts) + 1) |->
            Kept(SubSeq(text, (k - 1) * stride + 1,
                        smaller(Len(text), (k - 1) * stride + size)))])

\* Mutant of token_slice: the number of pieces is rounded down.
SliceRoundedDown(text, size, overlap) ==
    LET pieces == larger(1, Len(text) \div larger(1, size - overlap))
        even   == larger(1, CeilDiv(Len(text), pieces))
    IN  Slices(text, even, smaller(size, even + overlap))

\* Tokens are counted, not words: a piece may end inside one.
token_slice(text, size, overlap) ==
    LET pieces == larger(1, CeilDiv(Len(text), larger(1, size - overlap)))
        even   == larger(1, CeilDiv(Len(text), pieces))
    IN  Slices(text, even, smaller(size, even + overlap))

rebalance_tail(pieces, tokens, overlap) ==
    IF Len(pieces) < 2 \/ Len(Last(pieces)) >= tokens \div 4 THEN pieces
    ELSE SubSeq(pieces, 1, Len(pieces) - 2)
         \o token_slice(Followed(pieces[Len(pieces) - 1], " ") \o Last(pieces), tokens, overlap)

\* A budget of tokens as the first pass takes it, in characters by a measured
\* ratio: skew is by how much that ratio overshoots.
estimated(tokens, skew) == larger(1, tokens + skew)

Fitted(cut, tokens, overlap) ==
    FlattenSeq([i \in DOMAIN cut |-> IF Len(cut[i]) <= tokens THEN <<cut[i]>>
                                     ELSE token_slice(cut[i], tokens, overlap)])

split_text(text, tokens, overlap, skew) ==
    IF strip(text) = <<>> THEN <<>>
    ELSE rebalance_tail(Fitted(recurse(text, estimated(tokens, skew), overlap), tokens, overlap),
                        tokens, overlap)
=============================================================================
