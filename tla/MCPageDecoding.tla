--------------------------- MODULE MCPageDecoding ---------------------------
EXTENDS PageDecoding

MCPage(regions, words, evidence, scores, budget) ==
    [pages |-> 1, words |-> words, broken |-> {"x"}, openers |-> {"="}, furniture |-> {9} \intersect regions,
     evidence |-> [r \in regions |-> IF r = 1 THEN evidence ELSE <<>>],
     pageOf |-> [r \in regions |-> 1], below |-> {}, scores |-> scores, budget |-> budget]
MCPages ==
    { [MCPage({1, 2}, {"a"}, <<>>, {0, 2}, 6) EXCEPT !.below = {<<1, 2>>}],
      MCPage({1, 9}, {"a"}, <<"a", "a", "a", "a">>, {0}, 6),
      MCPage({1}, {"a", "x"}, <<"a", "a">>, {0, 2}, 6),
      MCPage({1}, {"a", "="}, <<>>, {0}, 7),
      [MCPage({1, 2}, {"a"}, <<"a">>, {0}, 5) EXCEPT !.pages = 2, !.pageOf[2] = 2, !.evidence[2] = <<"a", "a">>] }
=============================================================================
