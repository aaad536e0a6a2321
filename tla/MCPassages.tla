----------------------------- MODULE MCPassages -----------------------------
(* Small instances of Passages.  Chunks of ten tokens leave eight for the  *)
(* text with a short name, five with a long one; an overlap of two is the  *)
(* usual case and one of nine exceeds what the breadcrumb leaves.          *)
EXTENDS Passages

Of(format, strategy, overlap, name) ==
    [format |-> format, strategy |-> strategy, chunk |-> 10, overlap |-> overlap, skew |-> 1,
     name |-> name]

SomeSettings ==
    {Of("pdf", "semantic", 2, 1), Of("pdf", "per-unit", 2, 1), Of("md", "semantic", 2, 1),
     Of("docx", "semantic", 0, 6), Of("html", "fixed", 2, 1), Of("txt", "semantic", 2, 1),
     Of("json", "semantic", 2, 1), Of("xlsx", "semantic", 9, 1)}

NoOverlap == {Of("md", "semantic", 0, 1)}
Pages     == {Of("html", "semantic", 0, 1)}

\* A token that ends a word, one that does not, and one that ends a sentence.
Word  == <<FALSE, " ">>
Part  == <<FALSE, "">>
Stop  == <<TRUE, " ">>
Parts9 == [k \in 1..9 |-> Part]

\* One word; a sentence and two words; a sentence and a word no chunk has room for.
SomeShapes == {<<Word>>, <<Word, Part, Stop, Word, Word>>, <<Word, Stop>> \o Parts9 \o <<Word>>}

\* One word; six words of two tokens.
Paired == {<<Word>>, [k \in 1..12 |-> IF k % 2 = 1 THEN Part ELSE Word]}
=============================================================================
