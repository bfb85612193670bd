---------------------------- MODULE PageDecoding ----------------------------
(***************************************************************************)
(* One recognition of a page image by pages2md (ocr.py, decoding.py,         *)
(* block_decoding.py): a greedy decode under hard constraints, followed when *)
(* it fails by decodes from a fresh state.  A token is a word, the header    *)
(* that opens the block of a region, the mark between two pages, or the end. *)
(* The optical model is free: it gives any token the constraints leave; the  *)
(* soft steering only moves its preferences and leaves the model out.        *)
(***************************************************************************)
EXTENDS Integers, Sequences, FiniteSets, SequencesExt

CONSTANTS
    Untold,             \* no value
    NgramSize,          \* no n-gram of this size is repeated ...
    NgramWindow,        \* ... within this many tokens
    StartupGuard,       \* tokens after which a body must have begun
    LoopGuard,          \* tokens after which loops are looked for
    LoopSustained,      \* tokens a loop lasts before it is stopped
    LoopRepeats,        \* repetitions that make a loop
    RecentProgress,     \* tokens for which a supported word excuses a loop
    SourceReach,        \* words of the source that may be skipped
    ShortText,          \* words in a short text
    LongBlock,          \* words in a block that can be a duplicate
    DuplicateReach,     \* blocks searched back for the original
    Reserve,            \* tokens a retry must have left
    MaxRetries,         \* retries of a block
    ScoreTolerance,     \* loss of score a retry may have
    DecodingScenarios   \* [pages, words, broken, openers, furniture, evidence, pageOf,
                        \*  below (pairs of regions: a small box just below a box of
                        \*  its kind), scores (mean log-probabilities told apart), budget]

(* What a call may return for a scenario.                                    *)
Finishes == {"stop", "length", "ungrounded_guard", "repetition_guard", "failed"}
ReadsFor(s) ==
    [tokens : Seq([opens : DOMAIN s.evidence \union {0, -1}] \union [says : s.words]),
     finish : Finishes, score : s.scores \union {0}]

ASSUME DecodingAssumption ==
    /\ {NgramSize, NgramWindow, StartupGuard, LoopGuard, LoopSustained, LoopRepeats,
        ShortText, DuplicateReach, Reserve, MaxRetries, ScoreTolerance} \subseteq Nat
    /\ {RecentProgress, SourceReach, LongBlock} \subseteq Nat \ {0}
    /\ Untold \notin Finishes
    /\ \A s \in DecodingScenarios :
        /\ s.below \subseteq (DOMAIN s.evidence) \X (DOMAIN s.evidence)
        /\ Untold \notin ReadsFor(s)
        /\ {0, -1, Untold} \intersect DOMAIN s.evidence = {}
        /\ \A r \in DOMAIN s.evidence : s.evidence[r] \in Seq(s.words) /\ s.pageOf[r] \in 1..s.pages

VARIABLES
    page,      \* the scenario: the regions of the pages and what may be said
    stream,    \* the decode under way
    call,      \* the call of _generate_with_confidence it belongs to
    rescued,   \* the failed read being rescued, when this call is the rescue
    answer     \* what recognition returned

decodingVars == <<page, stream, call, rescued, answer>>

(***************************************************************************)
(* Tokens and blocks.                                                        *)
(***************************************************************************)
Opening(r) == [opens |-> r]
End == [opens |-> 0]
PageMark == [opens |-> -1]
Said(w) == [says |-> w]
Openers == {Said(w) : w \in page.openers}
Vocabulary == {Opening(r) : r \in DOMAIN page.evidence} \union {Said(w) : w \in page.words}
              \union {End} \union (IF page.pages > 1 THEN {PageMark} ELSE {})

Opens(token) == "opens" \in DOMAIN token /\ token \notin {End, PageMark}
Says(token) == "says" \in DOMAIN token
Words(tokens) == SelectSeq(tokens, Says)

(* A block is known by the place of its header.                              *)
Blocks(tokens) == {b \in DOMAIN tokens : Opens(tokens[b])}
RegionsOf(tokens) == {tokens[b].opens : b \in Blocks(tokens)}
BodyRegions(tokens) == RegionsOf(tokens) \ page.furniture

BlockEnd(tokens, b) ==
    LET later == {c \in Blocks(tokens) : b < c}
    IN  IF later = {} THEN Len(tokens) ELSE Min(later) - 1
BlockText(tokens, b) == Words(SubSeq(tokens, b + 1, BlockEnd(tokens, b)))
Substance(tokens, b) ==
    {i \in b + 1..BlockEnd(tokens, b) : Says(tokens[i]) /\ tokens[i] \notin Openers}

(* geometry_risk: the same region again, or a copy compressed below it.      *)
Risky(tokens, b, earlier) ==
    \/ tokens[b] = tokens[earlier]
    \/ <<tokens[earlier].opens, tokens[b].opens>> \in page.below

Repeats(tokens, b, earlier) ==
    /\ Risky(tokens, b, earlier)
    /\ BlockText(tokens, b) = BlockText(tokens, earlier)
    /\ PageMark \notin Range(SubSeq(tokens, earlier, b))
DuplicateBlocks(tokens) ==
    {b \in Blocks(tokens) :
        /\ tokens[b].opens \notin page.furniture
        /\ Cardinality(Substance(tokens, b)) >= LongBlock
        /\ \E earlier \in Blocks(tokens) :
             /\ earlier < b
             /\ Cardinality({c \in Blocks(tokens) : earlier <= c /\ c < b}) <= DuplicateReach
             /\ Repeats(tokens, b, earlier)}

MathErrors(tokens) == Cardinality({i \in DOMAIN tokens : tokens[i] \in {Said(w) : w \in page.broken}})

(* A text loops when it ends in the same few words over and over.            *)
Looping(words) ==
    \E size \in 1..Len(words) :
        /\ size * LoopRepeats <= Len(words)
        /\ \A i \in Len(words) - size * LoopRepeats + 1 .. Len(words) - size :
                words[i] = words[i + size]
LoopsSomewhere(words) == \E n \in DOMAIN words : Looping(SubSeq(words, 1, n))

(***************************************************************************)
(* The guide follows the text of the file: a word consumes an occurrence in  *)
(* the region being read.                                                    *)
(***************************************************************************)
FreshGuide == [page |-> 1, active |-> Untold, seen |-> FALSE, emitted |-> 0,
               cursor |-> [r \in DOMAIN page.evidence |-> 0], supported |-> -RecentProgress - 1]

SelectRegion(guide, r) ==
    IF page.evidence[r] # <<>> /\ page.pageOf[r] = guide.page THEN r ELSE Untold

Frontier(guide) ==
    {j \in DOMAIN page.evidence[guide.active] :
        /\ guide.cursor[guide.active] < j
        /\ j <= guide.cursor[guide.active] + SourceReach}

Consume(guide, word, at) ==
    LET matches == {j \in Frontier(guide) : page.evidence[guide.active][j] = word}
        heard == [guide EXCEPT !.emitted = @ + 1]
    IN  IF matches = {} THEN heard
        ELSE [heard EXCEPT !.cursor[guide.active] = Min(matches), !.supported = at]

Feed(guide, token, at) ==
    CASE Opens(token) ->
            [guide EXCEPT !.active = SelectRegion(guide, token.opens), !.seen = TRUE]
      [] token = PageMark ->
            [guide EXCEPT !.page = IF guide.seen \/ guide.emitted > 0 THEN @ + 1 ELSE @,
                          !.active = Untold, !.seen = FALSE]
      [] Says(token) /\ guide.seen /\ guide.active # Untold ->
            Consume(guide, token.says, at)
      [] OTHER -> guide

(* Faulty variant: the text of the file is not asked.                        *)
NoProgress(guide, at) == FALSE

RecentSourceProgress(guide, at) == at - guide.supported <= RecentProgress

(***************************************************************************)
(* What a decode may not say: an n-gram again, another first token than the  *)
(* marker when it is steered, another beginning than the one it replays, and *)
(* at the fork a token that was tried.                                       *)
(***************************************************************************)
EndsRepeated(tokens) ==
    /\ Len(tokens) >= NgramSize
    /\ \E i \in 1..Len(tokens) - NgramSize :
        /\ i >= Len(tokens) - NgramWindow
        /\ \A k \in 0..NgramSize - 1 : tokens[i + k] = tokens[Len(tokens) - NgramSize + 1 + k]

Legal(s, token) ==
    LET at == Len(s.tokens) + 1
    IN  /\ ~EndsRepeated(Append(s.tokens, token))
        /\ s.steered /\ at = 1 => Opens(token)
        /\ at <= Len(s.prefix) => token = s.prefix[at]
        /\ at = Len(s.prefix) + 1 => token \notin s.banned

FreshStream(steered, prefix, banned) ==
    [tokens |-> <<>>, guide |-> FreshGuide, steered |-> steered, prefix |-> prefix,
     banned |-> banned, loopSince |-> Untold, finish |-> Untold]

Single == page.pages = 1

Finish(s, loopSince) ==
    LET n == Len(s.tokens)
    IN  IF Single /\ ~s.steered /\ n >= StartupGuard /\ BodyRegions(s.tokens) = {}
        THEN "ungrounded_guard"
        ELSE IF loopSince # Untold /\ n - loopSince >= LoopSustained THEN "repetition_guard"
        ELSE IF Last(s.tokens) = End THEN "stop"
        ELSE IF n = page.budget THEN "length"
        ELSE Untold

LoopSince(s) ==
    LET n == Len(s.tokens)
    IN  IF n < LoopGuard THEN Untold
        ELSE IF RecentSourceProgress(s.guide, n) \/ ~Looping(Words(s.tokens)) THEN Untold
        ELSE IF s.loopSince # Untold THEN s.loopSince ELSE n

Take(s, token) ==
    LET next == [s EXCEPT !.tokens = Append(@, token), !.guide = Feed(@, token, Len(s.tokens) + 1)]
    IN  [next EXCEPT !.loopSince = LoopSince(next), !.finish = Finish(next, LoopSince(next))]

Decoding == answer = Untold /\ stream.finish = Untold

Emit ==
    /\ Decoding
    /\ \E token \in Vocabulary : Legal(stream, token) /\ stream' = Take(stream, token)
    /\ UNCHANGED <<page, call, rescued, answer>>

(***************************************************************************)
(* Judging a finished read.                                                  *)
(***************************************************************************)
ReadOf(s, score) == [tokens |-> s.tokens, finish |-> s.finish, score |-> score]

NeedsRescue(read) ==
    LET words == Words(read.tokens)
        stray == SelectInSeq(read.tokens, Opens) - 1
        grounded == RegionsOf(read.tokens) # {}
    IN  /\ BodyRegions(read.tokens) = {}
        /\ \/ read.finish # "stop"
           \/ LoopsSomewhere(words)
           \/ ~grounded /\ Len(words) < ShortText
           \/ grounded /\ stray >= ShortText

(* The first token of a duplicate's body, past the operators that open it.   *)
Fork(tokens) ==
    LET first == Min(DuplicateBlocks(tokens))
    IN  Min({i \in first + 1..Len(tokens) : tokens[i] \notin Openers})

Reference(tokens) == {tokens[b].opens : b \in Blocks(tokens) \ DuplicateBlocks(tokens)}

ScoreAfter(read, fork) == IF Len(read.tokens) > fork THEN read.score ELSE Untold

(* Faulty variant: a retry may leave out regions the first read had.         *)
CoversAnything(original, candidate) == TRUE

Covers(original, candidate) ==
    Reference(original.tokens) # {} /\ Reference(original.tokens) \subseteq RegionsOf(candidate.tokens)

Eligible(original, candidate, fork) ==
    /\ candidate.finish = "stop"
    /\ Cardinality(DuplicateBlocks(candidate.tokens)) < Cardinality(DuplicateBlocks(original.tokens))
    /\ Covers(original, candidate)
    /\ MathErrors(candidate.tokens) <= MathErrors(original.tokens)
    /\ ScoreAfter(candidate, fork) # Untold /\ ScoreAfter(original, fork) # Untold
    /\ ScoreAfter(candidate, fork) >= ScoreAfter(original, fork) - ScoreTolerance

Better(read, best, fork) ==
    LET duplicates(r) == Cardinality(DuplicateBlocks(r.tokens))
    IN  \/ duplicates(read) < duplicates(best)
        \/ /\ duplicates(read) = duplicates(best)
           /\ ScoreAfter(best, fork) = Untold \/ ScoreAfter(read, fork) > ScoreAfter(best, fork)

RescueWorked(read) ==
    /\ read.finish = "stop"
    /\ Opens(read.tokens[1])
    /\ ~LoopsSomewhere(Words(read.tokens))
    /\ DuplicateBlocks(read.tokens) = {}

(***************************************************************************)
(* A call: its first read, and the retries of the block it repeated.         *)
(***************************************************************************)
NoRead == [tokens |-> <<>>, finish |-> "failed", score |-> 0]
NoCall == [first |-> Untold, best |-> Untold, fork |-> 0, tried |-> <<>>]

Return(read) ==
    /\ answer' = IF rescued = Untold \/ RescueWorked(read) THEN read ELSE rescued
    /\ stream' = FreshStream(FALSE, <<>>, {})
    /\ UNCHANGED <<page, call, rescued>>

StartRescue(read) ==
    /\ rescued' = read
    /\ stream' = FreshStream(TRUE, <<>>, {})
    /\ UNCHANGED <<page, call, answer>>

StartRetries(read, fork) ==
    /\ call' = [first |-> read, best |-> read, fork |-> fork, tried |-> <<>>]
    /\ stream' = FreshStream(rescued # Untold, SubSeq(read.tokens, 1, fork - 1), {read.tokens[fork]})
    /\ UNCHANGED <<page, rescued, answer>>

ReadsOf(s) == {ReadOf(s, score) : score \in IF DuplicateBlocks(s.tokens) = {} THEN {0} ELSE page.scores}

FinishFirst ==
    /\ answer = Untold /\ stream.finish # Untold /\ call = NoCall
    /\ \E read \in ReadsOf(stream) :
        IF ~Single THEN Return(read)
        ELSE IF rescued = Untold /\ NeedsRescue(read) THEN StartRescue(read)
        ELSE IF DuplicateBlocks(read.tokens) = {} THEN Return(read)
        ELSE IF Fork(read.tokens) > page.budget - Reserve THEN Return(read)
        ELSE StartRetries(read, Fork(read.tokens))

(* Faulty variant: the token a retry took at the fork may be taken again.    *)
BanFirstOnly(read, fork) == {}

Explored(read, fork) == {read.tokens[i] : i \in {fork} \cap DOMAIN read.tokens}

FinishRetry ==
    /\ answer = Untold /\ stream.finish # Untold /\ call # NoCall
    /\ \E score \in page.scores :
        LET read == ReadOf(stream, score)
            eligible == Eligible(call.first, read, call.fork)
            best == IF eligible /\ Better(read, call.best, call.fork) THEN read ELSE call.best
            banned == stream.banned \union Explored(read, call.fork)
        IN  /\ call' = [call EXCEPT !.best = best, !.tried = Append(@, SubSeq(stream.tokens, 1, call.fork))]
            /\ IF \/ eligible /\ DuplicateBlocks(read.tokens) = {}
                  \/ Len(call.tried) + 1 = MaxRetries
               THEN /\ answer' = IF rescued = Untold \/ RescueWorked(best) THEN best ELSE rescued
                    /\ stream' = FreshStream(FALSE, <<>>, {})
               ELSE /\ stream' = FreshStream(stream.steered, stream.prefix, banned)
                    /\ UNCHANGED answer
    /\ UNCHANGED <<page, rescued>>

(* No legal token is left: the page's read fails, unless there is one to     *)
(* fall back on.                                                             *)
Stuck ==
    /\ Decoding
    /\ Len(stream.tokens) >= Len(stream.prefix)
    /\ answer' = IF call # NoCall
                 THEN IF rescued = Untold \/ RescueWorked(call.best) THEN call.best ELSE rescued
                 ELSE IF rescued # Untold THEN rescued ELSE NoRead
    /\ stream' = FreshStream(FALSE, <<>>, {})
    /\ UNCHANGED <<page, call, rescued>>

DecodingInit ==
    /\ page \in DecodingScenarios
    /\ stream = FreshStream(FALSE, <<>>, {})
    /\ call = NoCall
    /\ rescued = Untold
    /\ answer = Untold

DecodingNext == Emit \/ FinishFirst \/ FinishRetry \/ Stuck

DecodingSpec == DecodingInit /\ [][DecodingNext]_decodingVars

(***************************************************************************)
(* What recognition promises.                                                *)
(***************************************************************************)
FirstRead == IF rescued # Untold THEN rescued ELSE call.first

(* A failed retry or rescue never costs what the first read had of its own:  *)
(* the read returned has the regions of its body, but for those where it     *)
(* only repeated what it had read before (a copy below a block stands in a   *)
(* region of its own, which a retry may lose with it), no more repeated      *)
(* blocks, and when it is another read it came to its end (ocr.py            *)
(* _generate_with_confidence and _recover_startup, one nested in the other); *)
(* and every retry of a block follows the first read to the fork and leaves  *)
(* it there by a way no read before it took (ReplayBranchProcessor).         *)
ReadsNeverWorsen ==
    answer # Untold /\ FirstRead # Untold =>
        /\ Reference(FirstRead.tokens) \ page.furniture \subseteq BodyRegions(answer.tokens)
        /\ Cardinality(DuplicateBlocks(answer.tokens)) <= Cardinality(DuplicateBlocks(FirstRead.tokens))
        /\ answer.tokens # FirstRead.tokens =>
            answer.finish = "stop"

RetriesBranchApart ==
    LET ways == IF call = NoCall THEN <<>>
                ELSE <<SubSeq(call.first.tokens, 1, call.fork)>> \o call.tried
    IN  \A m, n \in DOMAIN ways : m < n =>
            /\ Len(ways[n]) = call.fork
            /\ Front(ways[n]) = Front(ways[m])
            /\ Last(ways[n]) # Last(ways[m])

RetriesOnlyImprove == ReadsNeverWorsen /\ RetriesBranchApart

(* A text that repeats itself on the page is not taken for a loop of the     *)
(* model: a read whose block follows the text of the file, as far as it has  *)
(* come, is not cut (decoding.py recent_source_progress).                    *)
FaithfulReadsAreNotCut ==
    LET tokens == stream.tokens
        current == Max(Blocks(tokens))
        told == page.evidence[tokens[current].opens]
        text == {i \in current + 1..Len(tokens) : tokens[i] # End}
    IN  stream.finish = "repetition_guard" /\ Single /\ Blocks(tokens) # {} =>
            ~(/\ \A b \in Blocks(tokens) \ {current} : tokens[b] # tokens[current]
              /\ text # {}
              /\ \A i \in text : /\ i - current \in DOMAIN told
                                /\ tokens[i] = Said(told[i - current]))
=============================================================================
