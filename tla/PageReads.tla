----------------------------- MODULE PageReads -----------------------------
(***************************************************************************)
(* The reads of one page by pages2md (native.py, pipeline.py                 *)
(* _collect_page_candidates, region_recovery.py): a doubtful first read is   *)
(* read again in detail and then as a page of its own, the reads are         *)
(* reconciled with the text the file carries, and what the page still lacks  *)
(* is taken from the reads and from crops, block by block.                   *)
(*                                                                           *)
(* A page has regions of one height, numbered from top to bottom.  The words *)
(* of region r are <<r, slot>>; a misread one is <<-r, slot>>, a made-up one *)
(* <<0, slot>> (babble).  A block is [at, kind, text, sure]: at are the      *)
(* regions its box takes in, {} without a box, text is a set of words, sure  *)
(* from 0 (uncertain spans) up.  A read is [blocks, finish, local, targets]: *)
(* local when it is of this page alone, targets the blocks of the first read *)
(* in doubt.                                                                 *)
(***************************************************************************)
EXTENDS Integers, Sequences, FiniteSets, SequencesExt

CONSTANTS
    Unread,        \* no read
    Papers,        \* [name -> [kinds, native, short, blank, grouped]]
    Readings       \* [name -> [first, again, crops]]: what reads of it may return

VARIABLES
    paper,    \* the page's name
    first,    \* its part of the group's read
    detail,   \* the detailed read of it
    base,     \* the read of it alone
    result,   \* its blocks, once reconciled
    owed,     \* the regions for which a crop is read
    readStage

readVars == <<paper, first, detail, base, result, owed, readStage>>

Paper == Papers[paper]
Reading == Readings[paper]
Regions == DOMAIN Paper.kinds
Native(r) == Paper.native[r]
NativeIn(at) == UNION {Native(r) : r \in at}
WholeNative == NativeIn(Regions)
Geometric == WholeNative # {}

BoxedAt(blocks, r) == {i \in DOMAIN blocks : r \in blocks[i].at}
Boxed(b) == b.at # {}
Top(b) == CHOOSE r \in b.at : \A s \in b.at : r <= s
Bottom(b) == CHOOSE r \in b.at : \A s \in b.at : s <= r
TextOf(blocks) == UNION {blocks[i].text : i \in DOMAIN blocks}
TextAt(blocks, r) == UNION {blocks[i].text : i \in BoxedAt(blocks, r)}

(* A word of 21 letters, where the region has short ones 6.  A short word is *)
(* misread as a longer one, 3 letters before or after it.                    *)
Place(w) == <<IF w[1] < 0 THEN -w[1] ELSE w[1], w[2]>>
Letters(text) ==
    LET short == {w \in text : Place(w)[1] \in Paper.short}
    IN  21 * Cardinality(text \ short) + 6 * Cardinality(short)
            + 3 * Cardinality({w \in short : w[1] < 0})
Characters(text) == IF text = {} THEN 0 ELSE Letters(text) + Cardinality(text) - 1

(***************************************************************************)
(* Measures, in percent: of boxes (bbox_iou and bbox_coverage) and of texts. *)
(***************************************************************************)
Overlap(a, b) == (100 * Cardinality(a \cap b)) \div Cardinality(a \union b)
Coverage(a, by) == (100 * Cardinality(a \cap by)) \div Cardinality(a)

AtLeast(percent, part, whole) == 100 * part >= percent * whole
Similar(percent, a, b) ==
    a \union b # {} /\ AtLeast(percent, 2 * Cardinality(a \cap b), Cardinality(a) + Cardinality(b))
Support(text, evidence) ==
    IF text \union evidence = {} THEN 0
    ELSE (200 * Cardinality(text \cap evidence)) \div (Cardinality(text) + Cardinality(evidence))

Precise(percent, text, evidence) ==
    /\ text # {} \/ percent = 0
    /\ AtLeast(percent, Cardinality(text \cap evidence), Cardinality(text))

Agreement(text, evidence) ==
    LET shared == Cardinality(text \cap evidence)
        share(n) == IF n = 0 THEN 0 ELSE (100 * shared) \div n
    IN  IF share(Cardinality(text)) <= share(Cardinality(evidence))
        THEN share(Cardinality(text)) ELSE share(Cardinality(evidence))

(***************************************************************************)
(* Bad reads: cut, empty, babbling, or with one region read twice.           *)
(***************************************************************************)
Babble(text) == text \cap {<<0, slot>> : slot \in 1..3} # {}
RegionRepeated(blocks) ==
    \E i, j \in DOMAIN blocks :
        /\ i < j /\ Boxed(blocks[i]) /\ Boxed(blocks[j]) /\ blocks[i].kind = blocks[j].kind
        /\ Characters(blocks[i].text) >= 64 /\ Characters(blocks[j].text) >= 64
        /\ Overlap(blocks[i].at, blocks[j].at) >= 85
        /\ Similar(85, blocks[i].text, blocks[j].text)
Severe(read) ==
    \/ read.blocks = <<>>
    \/ read.finish # "stop"
    \/ Babble(TextOf(read.blocks))
    \/ RegionRepeated(read.blocks)

(***************************************************************************)
(* What the text of the file supports.                                       *)
(***************************************************************************)
Supported(b) ==
    Boxed(b) /\ Cardinality(b.text) >= 3 /\ Precise(60, b.text, NativeIn(b.at))

Preserves(b, blocks) ==
    LET supported == b.text \cap NativeIn(b.at)
        there == {i \in DOMAIN blocks :
                    /\ Boxed(blocks[i])
                    /\ Coverage(blocks[i].at, b.at) >= 50 \/ Coverage(b.at, blocks[i].at) >= 50}
        local == UNION {blocks[i].text : i \in there}
    IN  Cardinality(supported) >= 3 =>
            AtLeast(90, Cardinality(supported \cap local), Cardinality(supported))

PreservesNonprose(blocks) ==
    \A i \in DOMAIN first.blocks :
        LET b == first.blocks[i]
        IN  (b.kind # "prose" /\ ~(Boxed(b) /\ b.at \subseteq Paper.blank)) =>
                \E j \in DOMAIN blocks :
                    /\ Boxed(b) /\ Boxed(blocks[j]) /\ blocks[j].kind = b.kind
                    /\ Overlap(b.at, blocks[j].at) >= 80

(* A made-up beginning without a box is left out of a read whose body is     *)
(* supported.                                                                *)
FirstBoxed(blocks) ==
    IF \E i \in DOMAIN blocks : Boxed(blocks[i])
    THEN CHOOSE i \in DOMAIN blocks : Boxed(blocks[i]) /\ \A j \in 1..i - 1 : ~Boxed(blocks[j])
    ELSE 1
Salvaged(read) ==
    LET start == FirstBoxed(read.blocks)
        body == SubSeq(read.blocks, start, Len(read.blocks))
        kept == SelectSeq(SubSeq(read.blocks, 1, start - 1),
                    LAMBDA b : Precise(20, b.text, WholeNative))
    IN  IF Cardinality({i \in DOMAIN body : Supported(body[i])}) < 2 THEN read
        ELSE [read EXCEPT !.blocks = kept \o body]

(* A supported opening of a first read that repeats a region is kept when    *)
(* the read that replaces it begins just below.                              *)
Reopened(read) ==
    LET start == FirstBoxed(read.blocks)
        body == SubSeq(read.blocks, start, Len(read.blocks))
        prefix == TextOf(SubSeq(read.blocks, 1, start - 1))
        openings == {i \in DOMAIN first.blocks :
                        /\ Boxed(first.blocks[i]) /\ Bottom(first.blocks[i]) < Top(body[1])
                        /\ first.blocks[i].kind = "prose"
                        /\ Cardinality(first.blocks[i].text) >= 4
                        /\ Precise(90, first.blocks[i].text, NativeIn(first.blocks[i].at))}
        opening == first.blocks[CHOOSE i \in openings : \A j \in openings :
                        \/ Top(first.blocks[i]) < Top(first.blocks[j])
                        \/ (Top(first.blocks[i]) = Top(first.blocks[j]) /\ i <= j)]
    IN  IF \/ ~read.local \/ \A i \in DOMAIN read.blocks : ~Boxed(read.blocks[i])
        THEN read
        ELSE IF /\ openings # {}
                /\ Bottom(opening) = Top(body[1]) - 1
                /\ \A i \in DOMAIN body : Boxed(body[i]) => Overlap(opening.at, body[i].at) < 20
                /\ prefix # {} => /\ 2 * Cardinality(prefix) <= 3 * Cardinality(opening.text)
                                  /\ Precise(40, prefix, opening.text)
             THEN [read EXCEPT !.blocks = <<opening>> \o body]
             ELSE read

Primary == IF Geometric THEN Salvaged(first) ELSE first
Again(read) ==
    IF ~Geometric THEN read
    ELSE IF RegionRepeated(Primary.blocks) THEN Reopened(Salvaged(read)) ELSE Salvaged(read)
Rereads ==
    [i \in 1..Len(SelectSeq(<<detail, base>>, LAMBDA r : r # Unread)) |->
        Again(SelectSeq(<<detail, base>>, LAMBDA r : r # Unread)[i])]

(* Faulty variant: agreement with the whole page is enough.                  *)
PreservesNothing(read) == TRUE

PreservesSupported(read) ==
    \A i \in DOMAIN Primary.blocks :
        Supported(Primary.blocks[i]) => Preserves(Primary.blocks[i], read.blocks)

(* A page is replaced as a whole by a read the file supports much better.    *)
WholeReplacements(rereads) ==
    LET score == Agreement(TextOf(Primary.blocks), WholeNative)
    IN  {i \in DOMAIN rereads :
            /\ Geometric /\ rereads[i].local /\ ~Severe(rereads[i])
            /\ PreservesSupported(rereads[i])
            /\ PreservesNonprose(rereads[i].blocks)
            /\ Precise(65, TextOf(rereads[i].blocks), WholeNative)
            /\ AtLeast(70, Cardinality(TextOf(rereads[i].blocks) \cap WholeNative), Cardinality(WholeNative))
            /\ Agreement(TextOf(rereads[i].blocks), WholeNative) >= score + 18
            /\ Cardinality({k \in DOMAIN rereads[i].blocks : Supported(rereads[i].blocks[k])}) >= 2}

(***************************************************************************)
(* Aligning the blocks of two reads.                                         *)
(***************************************************************************)
Compatible(a, b) ==
    /\ a.kind = b.kind
    /\ IF Boxed(a) /\ Boxed(b) THEN Overlap(a.at, b.at) >= 20 ELSE a.text # {} /\ b.text # {}
AlignmentScore(a, b) ==
    (3 * Support(a.text, b.text) + (IF Boxed(a) /\ Boxed(b) THEN Overlap(a.at, b.at) ELSE 50)) \div 4
BestMatch(block, blocks, used) ==
    LET fit == {k \in DOMAIN blocks \ used : Compatible(block, blocks[k])}
    IN  IF fit = {} THEN 0
        ELSE CHOOSE k \in fit : \A m \in fit :
                \/ AlignmentScore(block, blocks[k]) > AlignmentScore(block, blocks[m])
                \/ (AlignmentScore(block, blocks[k]) = AlignmentScore(block, blocks[m]) /\ k <= m)

(* The words of one place, and what taking those of the other read there     *)
(* makes of a text.                                                          *)
InSlot(text, slot) == {w \in text : Place(w) = slot}
WithSlot(base_, other, slot) == (base_ \ InSlot(base_, slot)) \union InSlot(other, slot)
BetterSlots(old, new, evidence) ==
    {slot \in {Place(w) : w \in old \union new} :
        Support(WithSlot(old, new, slot), evidence) > Support(old, evidence)}
MergedSpans(old, new, evidence) ==
    IF evidence = {} THEN old
    ELSE LET slots == BetterSlots(old, new, evidence)
         IN  {w \in old : Place(w) \notin slots} \union {w \in new : Place(w) \in slots}

KeepsSupported(block, candidate) == Preserves(block, <<candidate>>)

DetailOf(block, candidate) ==
    LET evidence == IF NativeIn(block.at) # {} THEN NativeIn(block.at) ELSE WholeNative
        gain == Support(candidate.text, evidence) - Support(block.text, evidence)
        preferred == /\ KeepsSupported(block, candidate)
                     /\ (gain > 0 \/ candidate.sure > block.sure)
        spans == MergedSpans(block.text, candidate.text, evidence)
        merged == IF KeepsSupported(block, [block EXCEPT !.text = spans]) THEN spans ELSE block.text
        partial == merged # block.text /\ merged # candidate.text
    IN  IF candidate.text = block.text THEN [block EXCEPT !.sure = 1]
        ELSE IF preferred /\ ~partial THEN [candidate EXCEPT !.at = block.at]
        ELSE IF merged # block.text THEN [block EXCEPT !.text = merged]
        ELSE IF gain < 0 \/ (gain = 0 /\ block.sure > candidate.sure) THEN [block EXCEPT !.sure = 1]
        ELSE block

WithDetail(blocks, read) ==
    LET step[n \in 0..Len(blocks)] ==
            IF n = 0 THEN [out |-> <<>>, used |-> {}]
            ELSE LET so == step[n - 1]
                     k == BestMatch(blocks[n], read.blocks, so.used)
                 IN  IF k = 0 THEN [so EXCEPT !.out = Append(@, blocks[n])]
                     ELSE IF AlignmentScore(blocks[n], read.blocks[k]) < 55
                          THEN [so EXCEPT !.out = Append(@, blocks[n])]
                     ELSE [out |-> Append(so.out, DetailOf(blocks[n], read.blocks[k])),
                           used |-> so.used \union {k}]
    IN  step[Len(blocks)].out

(* Without a detailed read a block gives way to a longer one, when it is     *)
(* brief or the first read is bad.                                           *)
Brief(b) == Characters(b.text) < 24
WithLonger(blocks, read, bad) ==
    LET step[n \in 0..Len(blocks)] ==
            IF n = 0 THEN [out |-> <<>>, used |-> {}]
            ELSE LET so == step[n - 1]
                     k == BestMatch(blocks[n], read.blocks, so.used)
                     kept == [so EXCEPT !.out = Append(@, blocks[n])]
                 IN  IF k = 0 THEN kept
                     ELSE IF /\ AlignmentScore(blocks[n], read.blocks[k]) >= 65
                             /\ Characters(read.blocks[k].text) > Characters(blocks[n].text)
                             /\ bad \/ Brief(blocks[n])
                          THEN [out |-> Append(so.out, [blocks[n] EXCEPT !.text = read.blocks[k].text]),
                                used |-> so.used \union {k}]
                     ELSE kept
    IN  step[Len(blocks)].out

(***************************************************************************)
(* Blocks that stand where the file has text and no block is yet.            *)
(***************************************************************************)
UncoveredMatch(b, blocks) ==
    LET open == {r \in Regions : /\ Native(r) # {} /\ BoxedAt(blocks, r) = {}
                                 /\ Support(b.text, Native(r)) >= 45}
    IN  IF open = {} THEN {}
        ELSE {CHOOSE r \in open : \A s \in open :
                \/ Support(b.text, Native(r)) > Support(b.text, Native(s))
                \/ (Support(b.text, Native(r)) = Support(b.text, Native(s)) /\ r <= s)}

InsertByPlace(blocks, b) ==
    LET below == {i \in DOMAIN blocks : Boxed(blocks[i]) /\ Top(blocks[i]) > Top(b)}
        at == IF below = {} THEN Len(blocks) + 1 ELSE CHOOSE i \in below : \A k \in below : i <= k
    IN  SubSeq(blocks, 1, at - 1) \o <<b>> \o SubSeq(blocks, at, Len(blocks))

(* Faulty variant: a block is taken wherever it stands.                      *)
NeverCovered(blocks, at) == FALSE

(* One block takes in a good third of the place (the overlap is never more). *)
Covered(blocks, at) ==
    \E i \in DOMAIN blocks : Boxed(blocks[i]) /\ Coverage(at, blocks[i].at) >= 35

AdoptUncovered(blocks, b) ==
    LET place == IF Boxed(b) /\ Support(b.text, NativeIn(b.at)) >= 45 THEN b.at
                 ELSE UncoveredMatch(b, blocks)
    IN  IF \/ b.text = {} \/ Babble(b.text)
           \/ \E i \in DOMAIN blocks : blocks[i].kind = b.kind /\ Similar(82, blocks[i].text, b.text)
           \/ place = {}
        THEN blocks
        ELSE IF Covered(blocks, place) THEN blocks
        ELSE InsertByPlace(blocks, [b EXCEPT !.at = place])

RecoverUncovered(blocks, rereads) ==
    IF ~Geometric THEN blocks
    ELSE FoldLeft(LAMBDA so, read : FoldLeft(AdoptUncovered, so, read.blocks), blocks, rereads)

(* A bad first read gives way to a sound one that has as much of its text.   *)
ReplacesCorrupt(read) ==
    /\ PreservesNonprose(read.blocks)
    /\ Severe(Primary) /\ ~Severe(read)
    /\ LET old == TextOf(Primary.blocks)
           new == TextOf(read.blocks)
           least == IF Cardinality(old) <= Cardinality(new) THEN Cardinality(old) ELSE Cardinality(new)
       IN  \/ (Babble(old) /\ Primary.finish = "length")
           \/ Primary.blocks = <<>>
           \/ (least > 0 /\ AtLeast(35, Cardinality(old \cap new), least))

Grounded(blocks, b) ==
    IF ~Boxed(b) /\ Geometric
    THEN [b EXCEPT !.at = UncoveredMatch(b, blocks)] ELSE b

Locally(blocks, read) ==
    IF Severe(read) THEN blocks
    ELSE IF ReplacesCorrupt(read)
         THEN FoldLeft(LAMBDA so, b : Append(so, Grounded(so, b)), <<>>, read.blocks)
    ELSE IF Severe(Primary) /\ blocks = <<>> THEN read.blocks
    ELSE WithLonger(blocks, read, Severe(Primary))

Reconciled(rereads) ==
    LET whole == WholeReplacements(rereads)
        winner == CHOOSE i \in whole : \A j \in whole :
                    LET score(k) == Agreement(TextOf(rereads[k].blocks), WholeNative)
                    IN  score(i) > score(j) \/ (score(i) = score(j) /\ i <= j)
        sound == SelectSeq(rereads, LAMBDA r : r.targets # {0} /\ ~Severe(r))
    IN  IF whole # {} THEN rereads[winner].blocks
        ELSE IF (\E i \in DOMAIN rereads : rereads[i].targets # {0}) /\ ~Severe(Primary)
             THEN RecoverUncovered(FoldLeft(WithDetail, Primary.blocks, sound), rereads)
        ELSE RecoverUncovered(FoldLeft(Locally, Primary.blocks, rereads), rereads)

(***************************************************************************)
(* Whether a page is read again.                                             *)
(***************************************************************************)
CoverageGap(blocks) ==
    \E r \in Regions : /\ Native(r) # {}
                       /\ ~AtLeast(65, Cardinality(TextAt(blocks, r) \cap Native(r)), Cardinality(Native(r)))
Doubtful(read) == {i \in DOMAIN read.blocks : read.blocks[i].sure = 0 /\ Boxed(read.blocks[i])}
Structural == Severe(first) \/ CoverageGap(first.blocks)
Disagrees == Cardinality(WholeNative) >= 8 /\ ~Similar(75, TextOf(first.blocks), WholeNative)
NeedsRecovery == Structural \/ Disagrees \/ Doubtful(first) # {}
DetailFailed ==
    IF detail = Unread THEN TRUE
    ELSE \/ detail.blocks = <<>> \/ detail.finish # "stop" \/ Babble(TextOf(detail.blocks))
         \/ CoverageGap(first.blocks) /\ CoverageGap(first.blocks \o detail.blocks)
NeedsBase ==
    /\ Structural \/ Disagrees
    /\ DetailFailed \/ RegionRepeated(first.blocks)
    /\ Paper.grouped

RereadDetail ==
    /\ readStage = "first"
    /\ IF ~NeedsRecovery THEN detail' = Unread /\ readStage' = "read"
       ELSE /\ readStage' = "detail"
            /\ \/ \E read \in Reading.again :
                    detail' = [read EXCEPT !.targets = Doubtful(first)]
               \/ detail' = Unread
    /\ UNCHANGED <<paper, first, base, result, owed>>

RereadAlone ==
    /\ readStage = "detail"
    /\ readStage' = "read"
    /\ IF ~NeedsBase THEN base' = Unread
       ELSE base' \in Reading.again \union {Unread}
    /\ UNCHANGED <<paper, first, detail, result, owed>>

(***************************************************************************)
(* The regions of the file the blocks leave without their words are filled   *)
(* from the reads, then from crops: one block at a time, when no word that   *)
(* was there is lost.                                                        *)
(***************************************************************************)
(* A misread short word has the letters of the right one. *)
Glyphs(b) ==
    {w \in NativeIn(b.at) : w \in b.text \/ (w[1] \in Paper.short /\ <<-w[1], w[2]>> \in b.text)}
AllGlyphs(blocks) == UNION {Glyphs(blocks[i]) : i \in DOMAIN blocks}
Unsupported(b) ==
    \/ Babble(b.text)
    \/ /\ NativeIn(b.at) # {} /\ Letters(b.text) >= 24
       /\ ~AtLeast(55, Cardinality(Glyphs(b)), Cardinality(b.text))
Unresolved(blocks) ==
    {r \in Regions : /\ Cardinality(Native(r)) >= 3
                     /\ ~AtLeast(80, Cardinality(AllGlyphs(blocks) \cap Native(r)), Cardinality(Native(r)))}
Errors(blocks) == Cardinality({i \in DOMAIN blocks : Babble(blocks[i].text)})
Findings(blocks) ==
    Cardinality(Unresolved(blocks)) + Cardinality({i \in DOMAIN blocks : Unsupported(blocks[i])})

(* The place of an insertion is known between the two blocks around it.      *)
Gap(blocks, b) ==
    {i \in 2..Len(blocks) : /\ Boxed(blocks[i - 1]) /\ Boxed(blocks[i])
                            /\ Bottom(blocks[i - 1]) < Top(b) /\ Bottom(b) < Top(blocks[i])}

KeepsCoverage(before, after) == AllGlyphs(before) \subseteq AllGlyphs(after)

TakeCandidate(blocks, b) ==
    LET there == {i \in DOMAIN blocks : Boxed(blocks[i]) /\ Coverage(blocks[i].at, b.at) >= 70}
        others == DOMAIN blocks \ there
        place == IF there # {} THEN CHOOSE i \in there : TRUE
                 ELSE CHOOSE i \in Gap(blocks, b) : TRUE
        proposal == IF there # {} THEN [blocks EXCEPT ![place] = b]
                    ELSE SubSeq(blocks, 1, place - 1) \o <<b>> \o SubSeq(blocks, place, Len(blocks))
    IN  IF ~Boxed(b) \/ b.text = {} \/ Cardinality(there) > 1 THEN blocks
        ELSE IF \E i \in others : \/ blocks[i].at \cap b.at # {}
                                  \/ Glyphs(blocks[i]) \cap Glyphs(b) # {}
             THEN blocks
        ELSE IF there = {} /\ Cardinality(Gap(blocks, b)) # 1 THEN blocks
        ELSE IF /\ KeepsCoverage(blocks, proposal)
                /\ Cardinality(AllGlyphs(proposal)) > Cardinality(AllGlyphs(blocks))
                /\ Errors(proposal) <= Errors(blocks)
                /\ Errors(proposal) = Errors(blocks) => Findings(proposal) <= Findings(blocks)
                /\ ~Unsupported(b)
                /\ Unresolved(proposal) \subseteq Unresolved(blocks)
             THEN proposal
             ELSE blocks

SelectCandidates(blocks, reads) ==
    IF Findings(blocks) = 0 THEN blocks
    ELSE FoldLeft(LAMBDA so, read :
            IF Babble(TextOf(read.blocks)) THEN so ELSE FoldLeft(TakeCandidate, so, read.blocks),
         blocks, reads)

GivenReads == SelectSeq(<<first, detail, base>>, LAMBDA r : r # Unread)

Reconcile ==
    /\ readStage = "read"
    /\ \E blocks \in {Reconciled(Rereads)} :
        \E taken \in {SelectCandidates(blocks, GivenReads)} :
            /\ result' = taken
            /\ owed' = Unresolved(taken)
    /\ readStage' = "crops"
    /\ UNCHANGED <<paper, first, detail, base>>

ReadCrop ==
    /\ readStage = "crops" /\ owed # {}
    /\ \E r \in owed :
        /\ \A s \in owed : r <= s
        /\ owed' = owed \ {r}
        /\ \E text \in Reading.crops[r] :
            result' = SelectCandidates(result,
                <<[blocks |-> <<[at |-> {r}, kind |-> Paper.kinds[r], text |-> text, sure |-> 1]>>,
                   finish |-> "stop", local |-> TRUE, targets |-> {0}]>>)
    /\ UNCHANGED <<paper, first, detail, base, readStage>>

ReadsInit ==
    /\ paper \in DOMAIN Papers
    /\ first \in Reading.first
    /\ detail = Unread /\ base = Unread /\ result = Unread /\ owed = {}
    /\ readStage = "first"

ReadsNext == RereadDetail \/ RereadAlone \/ Reconcile \/ ReadCrop

(***************************************************************************)
(* What reconciliation promises.                                             *)
(***************************************************************************)
(* Words of the first read the file corroborates are still where they were,  *)
(* whatever the reads after it said, unless the first read was bad; or the   *)
(* block is brief, no detailed read came, and the page read alone has a      *)
(* longer one there, which is taken unseen.                                  *)
SupportedTextIsKept ==
    result # Unread /\ ~Severe(Primary) =>
        \A i \in DOMAIN Primary.blocks :
            Supported(Primary.blocks[i]) =>
                \/ Preserves(Primary.blocks[i], result)
                \/ Brief(Primary.blocks[i]) /\ detail = Unread /\ base # Unread

(* When the first read tells where its text stands, and no read says or      *)
(* frames anything twice, then text is in the page twice only where one      *)
(* block says that of several regions, and of two boxes that meet a good     *)
(* third of one is free of the other: what is recovered stands where no      *)
(* block was, and what replaces a block says no more than it.                *)
LocatedTextIsReadOnce ==
    LET same(a, b) == a.text \cap b.text \cap WholeNative # {}
        broad(b) == Cardinality({Place(w)[1] : w \in b.text}) > 1
        once(blocks) == \A i, j \in DOMAIN blocks :
            i # j => ~same(blocks[i], blocks[j]) /\ blocks[i].at \cap blocks[j].at = {}
    IN  /\ result # Unread
        /\ \A i \in DOMAIN GivenReads : once(GivenReads[i].blocks)
        /\ \A i \in DOMAIN first.blocks : Boxed(first.blocks[i])
        => \A i, j \in DOMAIN result : i # j =>
            /\ same(result[i], result[j]) => broad(result[i]) \/ broad(result[j])
            /\ result[i].at \cap result[j].at # {} =>
                \/ Coverage(result[i].at, result[j].at) < 35
                \/ Coverage(result[j].at, result[i].at) < 35
=============================================================================
