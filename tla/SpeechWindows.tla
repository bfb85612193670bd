--------------------------- MODULE SpeechWindows ---------------------------
(***************************************************************************)
(* speech2md: how a long track is cut into windows, what a generation of the *)
(* model is, how it is read, and how the windows are joined again.           *)
(*                                                                          *)
(* Times are integers, Second of them to a second.  A track is [duration,    *)
(* silences, energy, speech]: centres of silences, the energy at each time,  *)
(* and utterances [start, end, voice, doubt] in the order of their starts.   *)
(* A generation is a sequence of tokens: times, labels and words; a word     *)
(* says which utterance, how much of it, and under which prompt.             *)
(***************************************************************************)
EXTENDS Integers, Sequences, FiniteSets, SequencesExt, TLC

CONSTANTS Second,            \* units of time in a second
          TargetPart, WindowOverlap, HardOverlap, SilenceSearch,
          TimestampTolerance, TokenThreshold, RecoveryOverlap,
          MinProgress, MaxRecoveries

Least(a, b) == IF a < b THEN a ELSE b
Most(a, b) == IF a < b THEN b ELSE a
Ordered(S, n) == SelectSeq([i \in 1 .. n |-> i], LAMBDA i : i \in S)   \* S \subseteq 1 .. n
Eager(s) == s \o <<>>     \* s; TLC evaluates each element once
Overlap(a, b) == Least(a.end, b.end) - Most(a.start, b.start)

(***************************************************************************)
(* Windows.  The k-th of n parts ends ideally at k * duration / n; distances *)
(* from it are compared multiplied by n.                                     *)
(***************************************************************************)
Parts(track) == (track.duration + TargetPart - 1) \div TargetPart
OffIdeal(track, k, t) ==
    LET off == t * Parts(track) - k * track.duration IN IF off < 0 THEN -off ELSE off
Within(track, k, S) == {t \in S : OffIdeal(track, k, t) <= SilenceSearch * Parts(track)}
Nearest(track, k, S) ==
    CHOOSE t \in S : \A u \in S : \/ OffIdeal(track, k, t) < OffIdeal(track, k, u)
                                  \/ OffIdeal(track, k, t) = OffIdeal(track, k, u) /\ t <= u

(* The quietest moment near the ideal boundary.                              *)
MinEnergyBoundary(track, k) ==
    LET near == Within(track, k, 1 .. (track.duration - 1))
        quietest == {t \in near : \A u \in near : track.energy[t] <= track.energy[u]}
    IN Nearest(track, k, quietest)

Boundary(track, k) ==
    LET nearby == Within(track, k, track.silences)
    IN IF nearby # {}
       THEN [at |-> Nearest(track, k, nearby), overlap |-> WindowOverlap]
       ELSE [at |-> MinEnergyBoundary(track, k), overlap |-> HardOverlap]

PlanWindows(track) ==
    LET n == Parts(track)
        b == [k \in 1 .. (n - 1) |-> Boundary(track, k)]
    IN [k \in 1 .. n |->
          [start |-> IF k = 1 THEN 0 ELSE Most(0, b[k - 1].at - b[k - 1].overlap \div 2),
           end |-> IF k = n THEN track.duration
                   ELSE Least(track.duration, b[k].at + b[k].overlap \div 2)]]

(***************************************************************************)
(* The model.  It hears what of an utterance lies in the span it is given,   *)
(* gives the voices it can tell apart labels in their order, and may stop    *)
(* in the middle once it has produced many tokens.  Where it doubts that a   *)
(* voice is one it has heard, a fresh label has `doubt` percent.             *)
(***************************************************************************)
Clip(u, span) == [u EXCEPT !.start = Most(u.start, span.start), !.end = Least(u.end, span.end)]
HeardIn(track, span) ==
    {i \in 1 .. Len(track.speech) : Overlap(track.speech[i], span) > 0}

Time(t) == [k |-> "time", v |-> t]
Label(l) == [k |-> "label", v |-> l]
Word(i, size, prompt) == [k |-> "word", v |-> 0, said |-> [of |-> i, size |-> size, prompt |-> prompt]]

(* The label sampled after "[S0": a fresh one takes the place of a used one  *)
(* the model is not sure of.                                                 *)
SpeakerDecision(top, doubt, used) ==
    LET fresh == {l \in 1 .. 9 : l \notin used}
    IN IF top \in used /\ fresh # {} /\ doubt >= 10 /\ doubt * 10 >= 100 - doubt
       THEN Min(fresh) ELSE top

(* Labels of the utterances heard, in their order; forces is a set of        *)
(* [start, speaker], start relative to the span; alike[v] is the class of    *)
(* voices the model takes for one.                                           *)
Labelled(track, span, forces, alike) ==
    LET heard == Ordered(HeardIn(track, span), Len(track.speech))
        label[k \in 0 .. Len(heard)] ==
            IF k = 0 THEN <<>>
            ELSE LET before == label[k - 1]
                     u == track.speech[heard[k]]
                     own == {j \in 1 .. (k - 1) : track.speech[heard[j]].voice = u.voice}
                     same == {j \in 1 .. (k - 1) : alike[track.speech[heard[j]].voice] = alike[u.voice]}
                     used == {before[j] : j \in 1 .. (k - 1)}
                     top == IF own # {} THEN before[Max(own)]
                            ELSE IF same # {} THEN before[Max(same)] ELSE Min((1 .. 9) \ used)
                     at == Clip(u, span).start - span.start
                     forced == {f \in forces : f.start = at}
                 IN Append(before, IF forced # {} THEN (CHOOSE f \in forced : TRUE).speaker
                                   ELSE SpeakerDecision(top, u.doubt, used))
    IN label[Len(heard)]

FullText(track, span, prompt, forces, alike) ==
    LET heard == Ordered(HeardIn(track, span), Len(track.speech))
        label == Labelled(track, span, forces, alike)
    IN FlattenSeq([k \in 1 .. Len(heard) |->
          LET u == Clip(track.speech[heard[k]], span)
          IN << Time(u.start - span.start), Label(label[k]),
                Word(heard[k], u.end - u.start, prompt), Time(u.end - span.start) >>])

(* What a call of the model may return: the text, or a prefix of it that is  *)
(* TokenThreshold tokens or more; a forced boundary it did not come to is an *)
(* error.                                                                    *)
Generations(track, span, prompt, forces, alike) ==
    LET full == FullText(track, span, prompt, forces, alike)
        cuts == {Len(full)} \cup {n \in TokenThreshold .. Len(full) : n < Len(full)}
    IN {SubSeq(full, 1, n) : n \in cuts}
MissedForces(text, forces) ==
    {f \in forces : ~ \E i \in 1 .. (Len(text) - 1) : /\ text[i] = Time(f.start)
                                                      /\ text[i + 1].k = "label"}

(***************************************************************************)
(* Reading a generation.                                                     *)
(***************************************************************************)
ItemStarts(text) == {i \in 1 .. (Len(text) - 1) : text[i].k = "time" /\ text[i + 1].k = "label"}
ItemEnd(text, i) ==   \* the token before the next item
    LET later == {j \in ItemStarts(text) : j > i} IN IF later = {} THEN Len(text) ELSE Min(later) - 1

(* A complete item has a last timestamp, nothing after it, and words.        *)
IsItem(text, i) ==
    LET last == ItemEnd(text, i)
    IN /\ last >= i + 3
       /\ text[last].k = "time"
       /\ text[last].v >= text[i].v

ParseTranscript(text) ==
    LET kept == Ordered({i \in ItemStarts(text) : IsItem(text, i)}, Len(text))
    IN Eager([n \in 1 .. Len(kept) |->
          [start |-> text[kept[n]].v, end |-> text[ItemEnd(text, kept[n])].v,
           speaker |-> text[kept[n] + 1].v, said |-> text[kept[n] + 2].said]])

ParseStatus(text) ==
    IF text = <<>> THEN "empty"
    ELSE IF ParseTranscript(text) = <<>> THEN "invalid"
    ELSE IF Len(ParseTranscript(text)) < Cardinality(ItemStarts(text)) THEN "partial" ELSE "ok"

(* Items that cannot be in the span they were asked of are an error.         *)
OutOfSpan(items, duration) ==
    \E n \in DOMAIN items : \/ items[n].start > duration
                            \/ items[n].end - duration >= TimestampTolerance
ParseSegments(items, window, span) ==
    Eager([n \in DOMAIN items |->
       [start |-> span.start + items[n].start,
        end |-> span.start + Least(items[n].end, span.end - span.start),
        said |-> items[n].said,
        speaker |-> [window |-> window, label |-> items[n].speaker, run |-> 0]]])

CoverageEnd(segments, span) == Max({span.start} \cup {segments[n].end : n \in DOMAIN segments})

(***************************************************************************)
(* Joining the windows that were transcribed, which recoveries may have cut  *)
(* short: a segment belongs to the window its middle lies in.                *)
(***************************************************************************)
Earlier(a, b) == \/ a.start < b.start
                 \/ a.start = b.start /\ a.end < b.end

(* A stable sort: what is equal stays in its order.                          *)
SortSegments(s, Before(_, _)) ==
    LET n == Len(s)
        order == SortSeq([i \in 1 .. n |-> i],
                         LAMBDA i, j : \/ Before(s[i], s[j])
                                       \/ ~ Before(s[j], s[i]) /\ i < j)
    IN Eager([i \in 1 .. n |-> s[order[i]]])

(* Faulty variant: a window keeps what starts in it. *)
OwnsStart(windows, i, s) ==
    /\ i > 1 => windows[i - 1].end + windows[i].start <= 2 * s.start
    /\ i < Len(windows) => 2 * s.start < windows[i].end + windows[i + 1].start

Owns(windows, i, s) ==
    /\ i > 1 => windows[i - 1].end + windows[i].start <= s.start + s.end
    /\ i < Len(windows) => s.start + s.end < windows[i].end + windows[i + 1].start

TrimOverlaps(byWindow, windows) ==
    SortSegments(FlattenSeq([i \in 1 .. Len(byWindow) |->
                     SelectSeq(byWindow[i], LAMBDA s : Owns(windows, i, s))]), Earlier)

(* Two readings of one utterance that overlap by half a second, and of which *)
(* 65 percent agree: the longer stays, the first of two that are as long.    *)
IsRepeat(a, b) ==
    /\ b.start < a.end
    /\ a.speaker = b.speaker
    /\ 2 * Overlap(a, b) >= Second
    /\ a.said.of = b.said.of
    /\ 200 * Overlap(a, b) >= 65 * (a.said.size + b.said.size)
DeduplicateBoundaries(segments) ==
    LET n == Len(segments)
        InOrder(i, dropped) ==    \* i against what follows it
            LET step[j \in i .. n] ==
                IF j = i THEN dropped
                ELSE LET d == step[j - 1]
                     IN IF i \in d \/ j \in d \/ ~ IsRepeat(segments[i], segments[j]) THEN d
                        ELSE d \cup {IF segments[i].said.size >= segments[j].said.size THEN j ELSE i}
            IN step[n]
        dropped == FoldLeft(LAMBDA d, i : IF i \in d THEN d ELSE InOrder(i, d), {}, [i \in 1 .. n |-> i])
        kept == Ordered((1 .. n) \ dropped, n)
    IN Eager([k \in DOMAIN kept |-> segments[kept[k]]])
============================================================================
