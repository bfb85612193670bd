---------------------------- MODULE MCPageReads ----------------------------
EXTENDS PageReads

MCWhole(r) == {<<r, 1>>, <<r, 2>>, <<r, 3>>}
MCPart(r) == {<<r, 1>>, <<r, 2>>}
MCMisread(r) == {<<r, 1>>, <<-r, 2>>, <<r, 3>>}
MCBabble == {<<0, 1>>, <<0, 2>>, <<0, 3>>}

MCBlock(r, text, kind, sure) == [at |-> {r} \ {0}, kind |-> kind, text |-> text, sure |-> sure]
MCProse(r, texts, sures) == {<<>>} \union {<<MCBlock(r, t, "prose", s)>> : t \in texts, s \in sures}
MCJoin(A, B) == {a \o b : a \in A, b \in B}
MCReads(sequences, finishes, local) ==
    {[blocks |-> s, finish |-> f, local |-> local, targets |-> {0}] : s \in sequences, f \in finishes}

MCStray(text) == <<MCBlock(0, text, "prose", 1)>>

(* Two paragraphs, read in part, misread, in doubt, after babble, or cut.    *)
MCParagraphs ==
    LET texts(r) == {MCWhole(r), MCPart(r), MCMisread(r)}
        body(sures) == MCJoin(MCProse(1, texts(1), sures), MCProse(2, texts(2) \ {MCPart(2)}, {1}))
        starts == {<<>>, MCStray(MCBabble)}
    IN  [first |-> MCReads(MCJoin(starts, body({0, 1})), {"stop", "length"}, FALSE),
         again |-> MCReads(MCJoin({<<>>, MCStray(MCWhole(1))}, body({1})), {"stop"}, TRUE)
                   \union MCReads({<<>>}, {"length"}, TRUE),
         crops |-> <<texts(1), {MCMisread(2)}>>]

(* Four paragraphs, each read or left out.                                   *)
MCFour ==
    LET body == MCJoin(MCJoin(MCProse(1, {MCWhole(1)}, {1}), MCProse(2, {MCWhole(2)}, {1})),
                       MCJoin(MCProse(3, {MCWhole(3)}, {1}), MCProse(4, {MCWhole(4)}, {1})))
    IN  [first |-> MCReads(body, {"stop"}, FALSE),
         again |-> MCReads(body, {"stop"}, TRUE), crops |-> [r \in 1..4 |-> {MCWhole(r)}]]

(* Three paragraphs, the first of short words, which are read too long.      *)
MCShort ==
    LET body == MCJoin(MCJoin(MCProse(1, {MCWhole(1), MCMisread(1)}, {1}), MCProse(2, {MCWhole(2)}, {1})),
                       MCProse(3, {MCWhole(3), MCPart(3)}, {1}))
    IN  [first |-> MCReads(body, {"stop"}, FALSE),
         again |-> MCReads(body, {"stop"}, TRUE), crops |-> [r \in 1..3 |-> {MCWhole(r)}]]

(* Three paragraphs, which a read may take for one or for two.               *)
MCSpan(s, boxed) ==
    {<<>>, <<[at |-> IF boxed THEN s ELSE {}, kind |-> "prose", sure |-> 1,
              text |-> UNION {MCWhole(r) : r \in s}]>>}
MCSpans ==
    LET body == MCJoin(MCJoin(MCSpan({1}, TRUE), MCSpan({2}, TRUE)), MCSpan({3}, TRUE))
                \union MCJoin(MCSpan({1, 2}, TRUE), MCSpan({3}, TRUE))
                \union MCJoin(MCSpan({1}, TRUE), MCSpan({2, 3}, TRUE)) \union MCSpan(1..3, TRUE)
    IN  [first |-> MCReads(body, {"stop"}, FALSE),
         again |-> MCReads(body \union MCJoin(MCSpan({1, 2}, FALSE), MCSpan({3}, TRUE)), {"stop"}, TRUE),
         crops |-> [r \in 1..3 |-> {MCWhole(r)}]]

(* A formula between two paragraphs, the second of them read twice.          *)
MCFormula ==
    LET long == MCWhole(1) \union {<<1, 4>>}
        formula == {<<>>, <<MCBlock(2, {<<2, 1>>}, "formula", 1)>>}
        end(times) == {[n \in 1..t |-> MCBlock(3, MCWhole(3), "prose", 1)] : t \in times}
        body(times) == MCJoin(MCJoin(MCProse(1, {long}, {1}), formula), end(times))
    IN  [first |-> MCReads(body(0..2), {"stop"}, FALSE),
         again |-> MCReads(MCJoin({<<>>, MCStray(MCPart(1))}, body(0..1)), {"stop"}, TRUE),
         crops |-> <<{long}, {}, {MCWhole(3)}>>]

MCReadings ==
    [paragraphs |-> MCParagraphs, four |-> MCFour, short |-> MCShort, spans |-> MCSpans,
     formula |-> MCFormula, blank |-> MCFormula]

MCPapers ==
    LET prose(n) == [kinds |-> [r \in 1..n |-> "prose"], native |-> [r \in 1..n |-> MCWhole(r)],
                     short |-> {}, blank |-> {}, grouped |-> TRUE]
        formula == [prose(3) EXCEPT !.kinds[2] = "formula", !.native[1] = @ \union {<<1, 4>>},
                                    !.native[2] = {}]
    IN  [paragraphs |-> prose(2), four |-> prose(4), short |-> [prose(3) EXCEPT !.short = {1}],
         spans |-> prose(3), formula |-> formula, blank |-> [formula EXCEPT !.blank = {2}]]
=============================================================================
