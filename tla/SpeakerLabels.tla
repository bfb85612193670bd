--------------------------- MODULE SpeakerLabels ---------------------------
(***************************************************************************)
(* speech2md: who speaks.  A hint [who, start, end] says that somebody speaks *)
(* in a range of a track.  Hints decide where a generation is repeated with   *)
(* forced labels, and anchor the labels of the windows to identities; voice   *)
(* samples carry the identities to the rest of the recording.                *)
(*                                                                          *)
(* A label is [window, label, run]; run is 0 until the contiguous uses of a   *)
(* label in a window are told apart.  Similarities are percentages.          *)
(***************************************************************************)
EXTENDS SpeechWindows

CONSTANTS MinSample, MaxSample, MaxSamples,      \* of clean speech, per run
          SimilarityThreshold, SimilarityMargin

Nobody == 0

(***************************************************************************)
(* The segments a hint speaks of: those whose middle it is the first to      *)
(* cover or, for a hint without one, those it overlaps most.                 *)
(***************************************************************************)
Covers(h, s) == 2 * h.start <= s.start + s.end /\ s.start + s.end < 2 * h.end
Centered(segments, hints, h) ==
    {n \in DOMAIN segments :
        /\ Covers(hints[h], segments[n])
        /\ \A g \in 1 .. (h - 1) : ~ Covers(hints[g], segments[n])}

OverlapOf(segments, S, hint, speaker) ==
    FoldFunctionOnSet(LAMBDA a, b : a + b, 0,
        [n \in S |-> IF segments[n].speaker = speaker
                     THEN Most(0, Overlap(segments[n], hint)) ELSE 0], S)

(* Faulty variant: whoever speaks first in a hint has the most of it. *)
SpeaksFirst(segments, S, hint) ==
    {segments[n].speaker : n \in {m \in S : \A o \in S : segments[m].start <= segments[o].start}}

Dominant(segments, S, hint) ==
    LET speakers == {segments[n].speaker : n \in S}
    IN {x \in speakers : \A y \in speakers :
            OverlapOf(segments, S, hint, y) <= OverlapOf(segments, S, hint, x)}

(* A start that was rounded to a second may take in the end of a neighbour.  *)
PreferDominant(segments, S, hint) ==
    LET starting == {segments[n].speaker : n \in {m \in S : /\ hint.start <= segments[m].start
                                                            /\ segments[m].start < hint.start + Second}}
        dominant == Dominant(segments, S, hint)
    IN IF hint.start % Second = 0 /\ Cardinality(starting) >= 2 /\ Cardinality(dominant) = 1
       THEN {n \in S : segments[n].speaker \in dominant} ELSE S

(* A function of the hints, {} for one that speaks of nothing.               *)
SelectHintSegments(segments, hints) ==
    LET n == Len(hints)
        centered == Eager([h \in 1 .. n |->
                        PreferDominant(segments, Centered(segments, hints, h), hints[h])])
        step[h \in 0 .. n] ==
            IF h = 0 THEN centered
            ELSE LET before == step[h - 1]
                     taken == UNION {before[g] : g \in 1 .. n}
                     overlapping == {m \in DOMAIN segments \ taken : Overlap(segments[m], hints[h]) > 0}
                     best == {m \in overlapping : \A o \in overlapping :
                                Overlap(segments[o], hints[h]) <= Overlap(segments[m], hints[h])}
                 IN IF Centered(segments, hints, h) # {} THEN before
                    ELSE [before EXCEPT ![h] = PreferDominant(segments, best, hints[h])]
    IN step[n]

(***************************************************************************)
(* Forced labels: where a label of a window stands for two identities, the   *)
(* first keeps it and the others get labels that are free at that point.     *)
(***************************************************************************)
Uses(segments, hints) ==     \* [label, who, n]: segment n is one of the hints of who
    LET selected == SelectHintSegments(segments, hints)
    IN UNION {{[label |-> segments[n].speaker.label, who |-> hints[h].who, n |-> n] :
                  n \in selected[h]} : h \in 1 .. Len(hints)}

(* [label, who, first]: where the label is first used for who.               *)
Claims(segments, uses) ==
    {[label |-> u.label, who |-> u.who,
      first |-> Min({segments[v.n].start : v \in {w \in uses : w.label = u.label /\ w.who = u.who}})] :
        u \in uses}

(* Of two at once, one: the code's order of them is that of a set of names.  *)
ClaimedFirst(c, d) == \/ c.first < d.first
                      \/ c.first = d.first /\ c.who < d.who
Moved(claims) ==
    {c \in claims : \E d \in claims : d.label = c.label /\ d.who # c.who /\ ClaimedFirst(d, c)}

UnusedLabel(segments, before, allocated) ==
    Min((1 .. 99) \ (allocated \cup
        {segments[n].speaker.label : n \in {m \in DOMAIN segments : segments[m].start < before}}))

(* One label for each identity, whatever labels it is moved from.            *)
Allocated(segments, moved) ==
    FoldLeft(LAMBDA given, c :
                 IF c.who \in DOMAIN given THEN given
                 ELSE given @@ (c.who :> UnusedLabel(segments, c.first, Range(given))),
             <<>>,
             SetToSortSeq(moved, LAMBDA c, d : \/ c.label < d.label
                                               \/ c.label = d.label /\ ClaimedFirst(c, d)))
Forces(segments, uses, moved, allocated, offset) ==
    {[start |-> segments[u.n].start - offset, speaker |-> allocated[u.who]] :
        u \in {v \in uses : /\ \E c \in moved : c.label = v.label /\ c.who = v.who
                            /\ allocated[v.who] # v.label}}
PlanSpeakerForces(segments, hints, offset) ==
    UNION {LET moved == Moved(Claims(segments, uses))
           IN Forces(segments, uses, moved, Allocated(segments, moved), offset) :
              uses \in {Uses(segments, hints)}}

(***************************************************************************)
(* Runs, their anchors and their voice samples.                              *)
(***************************************************************************)
SplitSpeakerRuns(segments) ==
    LET run[n \in 0 .. Len(segments)] ==
            IF n = 0 THEN 0
            ELSE IF n > 1 /\ segments[n].speaker = segments[n - 1].speaker THEN run[n - 1]
            ELSE run[n - 1] + 1
    IN Eager([n \in DOMAIN segments |-> [segments[n] EXCEPT !.speaker.run = run[n]]])

Inside(s, h) == h.start <= s.start /\ s.end <= h.end

(* The runs a hint anchors, {} when it cannot tell which.                    *)
AnchoredBy(segments, S, hint) ==
    LET speakers == {segments[n].speaker : n \in S}
    IN IF Cardinality(speakers) = 1 \/ \A n \in S : Inside(segments[n], hint) THEN speakers
       ELSE IF Cardinality(Dominant(segments, S, hint)) = 1 THEN Dominant(segments, S, hint) ELSE {}

(* Anchors as a set of [speaker, who]; a set that is no function, a hint     *)
(* that anchors nothing and whose identity nothing else anchors are errors.  *)
Anchors(segments, hints) ==
    LET selected == SelectHintSegments(segments, hints)
    IN UNION {{[speaker |-> x, who |-> hints[h].who] : x \in AnchoredBy(segments, selected[h], hints[h])} :
                 h \in {g \in 1 .. Len(hints) : selected[g] # {}}}
AnchorsFail(segments, hints) ==
    LET selected == SelectHintSegments(segments, hints)
        anchors == Anchors(segments, hints)
    IN \/ \E a, b \in anchors : a.speaker = b.speaker /\ a.who # b.who
       \/ \E h \in 1 .. Len(hints) :
            \/ selected[h] # {} /\ AnchoredBy(segments, selected[h], hints[h]) = {}
            \/ selected[h] = {} /\ ~ \E a \in anchors : a.who = hints[h].who

(* Samples of a run: pieces of segments nobody else speaks in, spread over   *)
(* the run.                                                                  *)
CleanIntervals(segments, speaker) ==
    LET clean == {n \in DOMAIN segments :
                    /\ segments[n].speaker = speaker
                    /\ \A m \in DOMAIN segments : \/ segments[m].speaker = speaker
                                                  \/ Overlap(segments[n], segments[m]) <= 0}
        pieces == UNION {{[start |-> segments[n].start + k * MaxSample,
                           end |-> Least(segments[n].end, segments[n].start + (k + 1) * MaxSample),
                           of |-> segments[n].said.of] :
                              k \in {j \in 0 .. (segments[n].end - segments[n].start) \div MaxSample :
                                        segments[n].end - segments[n].start - j * MaxSample >= MinSample}} :
                            n \in clean}
        ordered == SetToSortSeq(pieces, LAMBDA a, b : \/ a.start + a.end < b.start + b.end
                                                      \/ a.start + a.end = b.start + b.end /\ a.of < b.of)
        count == Len(ordered)
        chosen == IF count <= MaxSamples THEN 1 .. count
                  ELSE IF MaxSamples = 1 THEN {count \div 2 + 1}
                  ELSE {1 + (2 * i * (count - 1) + MaxSamples - 1) \div (2 * (MaxSamples - 1)) :
                           i \in 0 .. (MaxSamples - 1)}
    IN {ordered[i] : i \in chosen}

(***************************************************************************)
(* Reconciliation.  A profile is [who, voices]; accumulated are the          *)
(* assignment of the runs, the profiles and the last profile of each label   *)
(* of a window.  similarity[v, w] compares the voices of two samples.        *)
(***************************************************************************)
ProfileSimilarity(voices, profile, similarity) ==
    LET best == [v \in voices |-> Max({similarity[v, w] : w \in profile})]
    IN FoldFunctionOnSet(LAMBDA a, b : a + b, 0, best, voices) \div Cardinality(voices)

(* One profile for each anchored identity, old or new.                       *)
WithIdentities(profiles, anchors) ==
    LET missing == {a.who : a \in anchors} \ {profiles[p].who : p \in DOMAIN profiles}
        order == SetToSortSeq(missing, LAMBDA a, b : a < b)
    IN profiles \o [k \in DOMAIN order |-> [who |-> order[k], voices |-> {}]]
ProfileOf(profiles, who) == CHOOSE p \in DOMAIN profiles : profiles[p].who = who

AnchoredState(profiles, anchors, voices) ==
    LET all == WithIdentities(profiles, anchors)
    IN [mapping |-> [x \in {a.speaker : a \in anchors} |->
                        ProfileOf(all, (CHOOSE a \in anchors : a.speaker = x).who)],
        profiles |-> Eager([p \in DOMAIN all |->
            [all[p] EXCEPT !.voices = @ \cup
                UNION {voices[a.speaker] : a \in {b \in anchors : b.who = all[p].who}}]]),
        latest |-> <<>>]

(* One run: its anchor, a confident match of its voice, what the label stood *)
(* for before, or somebody new.                                              *)
ReconcileRun(state, speaker, voices, similarity) ==
    LET known == {p \in DOMAIN state.profiles : state.profiles[p].voices # {} /\ voices # {}}
        Score(p) == ProfileSimilarity(voices, state.profiles[p].voices, similarity)
        best == CHOOSE p \in known : \A q \in known : Score(q) <= Score(p)
        confident == /\ known # {}
                     /\ Score(best) >= SimilarityThreshold
                     /\ \A q \in known \ {best} : Score(best) - Score(q) >= SimilarityMargin
        original == [speaker EXCEPT !.run = 0]
        anchored == speaker \in DOMAIN state.mapping
        assigned == IF anchored THEN state.mapping[speaker]
                    ELSE IF confident THEN best
                    ELSE IF original \in DOMAIN state.latest THEN state.latest[original]
                    ELSE Len(state.profiles) + 1
        fresh == assigned = Len(state.profiles) + 1
    IN [mapping |-> (speaker :> assigned) @@ state.mapping,
        profiles |-> IF fresh THEN Append(state.profiles, [who |-> Nobody, voices |-> voices])
                     ELSE IF confident /\ ~ anchored
                     THEN [state.profiles EXCEPT ![assigned].voices = @ \cup voices]
                     ELSE state.profiles,
        latest |-> (original :> assigned) @@ state.latest]

(* The runs of all windows in the order they begin.                          *)
RunsOf(byWindow) ==
    LET all == FlattenSeq([i \in DOMAIN byWindow |->
                  [n \in DOMAIN byWindow[i] |-> byWindow[i][n].speaker]])
    IN FoldLeft(LAMBDA runs, x : IF x \in Range(runs) THEN runs ELSE Append(runs, x), <<>>, all)

ReconcileSpeakerRuns(byWindow, profiles, anchors, voices, similarity) ==
    FoldLeft(LAMBDA state, x : ReconcileRun(state, x, voices[x], similarity),
             AnchoredState(profiles, anchors, voices), RunsOf(byWindow))
============================================================================
