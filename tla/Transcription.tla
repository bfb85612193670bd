--------------------------- MODULE Transcription ---------------------------
(***************************************************************************)
(* speech2md `transcribe`: a recording document is transcribed again and     *)
(* again while its audio, hotwords, hints and edits change.  Raw generations *)
(* are kept in a cache beside the transcript and replayed.                   *)
(*                                                                          *)
(* A document is [audio, prompt, hints, edits]: audio is a sequence of        *)
(* [role, track], a hint is [who, start, end, role], an edit [of, start, end, *)
(* role] replaces a word.  A generation is [text, made]; made says what it    *)
(* was decoded from and is history, the code does not store it.  A cache      *)
(* entry is [result, base, forces], a cache [metadata, tracks].               *)
(***************************************************************************)
EXTENDS SpeakerLabels

CONSTANTS Missing,          \* a file that is not there
          Tracks,           \* the recordings there are, by name
          SpeechScenarios   \* [documents, alike, similar, runs, faults]

VARIABLES
    spoken,       \* the scenario
    version,      \* the document as it is now: index of spoken.documents
    cache,        \* transcript.moss.npz
    transcript,   \* transcript.md: [version, said]
    voiceprints,  \* transcript.voiceprints.json: [version, names]
    run,          \* the running transcription
    reguided,     \* history: a recovered window was replayed under other forces
    speechBudget

speechVars == <<spoken, version, cache, transcript, voiceprints, run, reguided, speechBudget>>

NoRun == [phase |-> "none"]
Document == spoken.documents[run.version]
SpeechSimilarity == [v, w \in DOMAIN spoken.alike |-> IF v = w THEN 100 ELSE spoken.similar]

(***************************************************************************)
(* The cache.                                                                *)
(***************************************************************************)
Recordings(document) == Range(document.audio)

CacheMetadata(document) == [prompt |-> document.prompt, sources |-> Recordings(document)]
LoadCache(document) ==
    IF cache = Missing THEN <<>>
    ELSE IF cache.metadata # CacheMetadata(document) THEN <<>> ELSE cache.tracks

(***************************************************************************)
(* Hints and edits.                                                          *)
(***************************************************************************)
HintsOf(document, role) == SelectSeq(document.hints, LAMBDA h : h.role = role)
ValidHints(document) ==
    /\ \A h \in Range(document.hints) :
         \E a \in Recordings(document) : a.role = h.role /\ h.end <= Tracks[a.track].duration
    /\ \A g, h \in Range(document.hints) :
         g.role = h.role /\ g.who # h.who => Overlap(g, h) <= 0

EditMatches(segments, e) ==
    {n \in DOMAIN segments : /\ segments[n].role = e.role
                             /\ Overlap(segments[n], e) > 0
                             /\ segments[n].said.of = e.of}
EditsFail(segments, edits) == \E e \in Range(edits) : Cardinality(EditMatches(segments, e)) # 1
ApplyEdits(segments, edits) ==
    Eager([n \in DOMAIN segments |->
       IF \E e \in Range(edits) : n \in EditMatches(segments, e)
       THEN [segments[n] EXCEPT !.said.prompt = -1] ELSE segments[n]])

(***************************************************************************)
(* Speakers are numbered in the order they speak; a profile with an identity *)
(* gives its name, the numbers of the others are their names.                *)
(***************************************************************************)
ByTime(a, b) == \/ Earlier(a, b)
                \/ a.start = b.start /\ a.end = b.end /\ a.role < b.role
Handles(segments) ==
    FoldLeft(LAMBDA order, s : IF s.speaker \in Range(order) THEN order ELSE Append(order, s.speaker),
             <<>>, SortSegments(segments, ByTime))
NameOf(segments, profiles, p) ==
    IF profiles[p].who # Nobody THEN profiles[p].who
    ELSE CHOOSE n \in DOMAIN Handles(segments) : Handles(segments)[n] = p
Canonical(segments, profiles) ==
    SortSegments(Eager([n \in DOMAIN segments |->
        [segments[n] EXCEPT !.speaker = NameOf(segments, profiles, @)]]), ByTime)

(* Runs of one speaker without a gap of more than a second and a quarter.    *)
SegmentRuns(segments) ==
    FoldLeft(LAMBDA runs, s :
        LET last == runs[Len(runs)]
        IN IF /\ runs # <<>>
              /\ last[Len(last)].speaker = s.speaker
              /\ last[Len(last)].role = s.role
              /\ 4 * (s.start - Max({t.end : t \in Range(last)})) <= 5 * Second
           THEN [runs EXCEPT ![Len(runs)] = Append(@, s)]
           ELSE Append(runs, <<s>>), <<>>, SortSegments(segments, Earlier))
CoalesceSegments(segments) ==
    LET runs == SegmentRuns(segments)
    IN [n \in DOMAIN runs |->
          [start |-> runs[n][1].start, end |-> Max({s.end : s \in Range(runs[n])}),
           speaker |-> runs[n][1].speaker, role |-> runs[n][1].role,
           said |-> [i \in DOMAIN runs[n] |-> runs[n][i].said]]]

(***************************************************************************)
(* A pass over one track: planned windows, the one it is in, where the       *)
(* submitted span starts, recoveries so far, the cached generations left.    *)
(***************************************************************************)
NewPass(track, cached, guided) ==
    [windows |-> PlanWindows(track), at |-> 1, start |-> PlanWindows(track)[1].start,
     attempt |-> 1, covered |-> -1, cached |-> cached # Missing,
     left |-> IF cached = Missing THEN <<>> ELSE cached, guided |-> guided,
     entries |-> <<>>, spans |-> <<>>, effective |-> <<>>, byWindow |-> <<>>]

Role == run.sources[run.at].role
Track == Tracks[run.sources[run.at].track]
Cached(r) == LET key == r.sources[r.at]
             IN IF key \in DOMAIN r.known THEN r.known[key] ELSE Missing

(* The next track; the model is loaded when it has no generations.           *)
Beginning(r) ==
    [r EXCEPT !.pass = NewPass(Tracks[r.sources[r.at].track], Cached(r), FALSE),
              !.engine = @ \/ Cached(r) = Missing]

(* Tracks with hints are first.                                              *)
SourceOrder(document) ==
    LET Hinted(a) == HintsOf(document, a.role) # <<>>
    IN SelectSeq(document.audio, Hinted) \o SelectSeq(document.audio, LAMBDA a : ~ Hinted(a))

Begin(required) ==
    LET document == spoken.documents[version]
        known == LoadCache(document)
    IN /\ run.phase = "none"
       /\ speechBudget.runs > 0
       /\ speechBudget' = [speechBudget EXCEPT !.runs = @ - 1]
       /\ run' = IF ValidHints(document)
                    /\ required => Recordings(document) \subseteq DOMAIN known
                 THEN Beginning([phase |-> "decoding", version |-> version, required |-> required,
                                 sources |-> SourceOrder(document), at |-> 1, known |-> known,
                                 generated |-> known, engine |-> FALSE, pass |-> NoRun,
                                 segments |-> <<>>, profiles |-> <<>>])
                 ELSE NoRun
       /\ UNCHANGED <<spoken, version, cache, transcript, voiceprints, reguided>>

Planned == run.pass.windows[run.pass.at]
Span == [start |-> run.pass.start, end |-> Planned.end]
Inference == Len(run.pass.entries) + 1
Made(forces) == [track |-> run.sources[run.at], span |-> Span, prompt |-> Document.prompt, forces |-> forces]
Decoded(forces) ==
    {[text |-> text, made |-> Made(forces)] :
        text \in Generations(Track, Span, Document.prompt, forces, spoken.alike)}
Segments(generation) ==
    ParseSegments(ParseTranscript(generation.text), Inference, Span)
Unreadable(generation) ==
    OutOfSpan(ParseTranscript(generation.text), Span.end - Span.start)
ForcesFor(base) ==
    PlanSpeakerForces(Segments(base), HintsOf(Document, Role), Span.start)
Inferring == run.phase = "decoding" /\ run.pass.at <= Len(run.pass.windows)
InferenceUnchanged == UNCHANGED <<spoken, version, cache, transcript, voiceprints, speechBudget>>

(* An error that ends the run; what is in the cache stays.                   *)
Abort == run' = NoRun

(* A result is taken into the pass: the window ends, or it looks truncated   *)
(* and is continued a little before its last timestamp.                      *)
Recovered(p, coverage) ==
    [p EXCEPT !.covered = coverage, !.attempt = @ + 1,
              !.start = Most(p.windows[p.at].start, coverage - RecoveryOverlap)]
NextWindow(p) ==
    [p EXCEPT !.at = @ + 1, !.attempt = 1, !.covered = -1,
              !.start = IF p.at < Len(p.windows) THEN p.windows[p.at + 1].start ELSE @]
Accept(result, base, forces, left) ==
    LET p == run.pass
        segments == Segments(result)
        coverage == CoverageEnd(segments, Span)
        suspect == Len(result.text) >= TokenThreshold
        stalled == p.covered # -1 /\ coverage - p.covered < MinProgress
        noted == [p EXCEPT
            !.left = left,
            !.entries = Append(@, [result |-> result, base |-> base, forces |-> forces]),
            !.spans = Append(@, Span),
            !.byWindow = Append(@, segments),
            !.effective = Append(@, [start |-> Span.start, end |-> IF suspect THEN coverage ELSE Span.end])]
    IN IF \/ Unreadable(result)
          \/ ParseStatus(result.text) = "invalid"
          \/ suspect /\ (segments = <<>> \/ stalled \/ p.attempt > MaxRecoveries)
       THEN Abort
       ELSE run' = [run EXCEPT !.pass = IF suspect THEN Recovered(noted, coverage) ELSE NextWindow(noted)]

(* A window of a track without cached generations.                           *)
Transcribe ==
    /\ Inferring /\ ~ run.pass.cached
    /\ \E base \in Decoded({}) :
         LET forces == ForcesFor(base)
         IN IF forces = {} THEN Accept(base, base, {}, <<>>)
            ELSE \E result \in Decoded(forces) :
                   IF MissedForces(result.text, forces) # {} THEN Abort
                   ELSE Accept(result, base, forces, <<>>)
    /\ InferenceUnchanged /\ UNCHANGED reguided

(* The track again, without its cache; a second pass that was begun for the  *)
(* sake of guidance has nobody to catch this.                                *)
DiscardCache ==
    IF run.pass.guided THEN Abort
    ELSE run' = [run EXCEPT !.engine = TRUE, !.pass = NewPass(Track, Missing, FALSE)]

CacheEnded ==
    /\ Inferring /\ run.pass.cached /\ run.pass.left = <<>>
    /\ DiscardCache
    /\ InferenceUnchanged /\ UNCHANGED reguided

(* Faulty variant: a guided generation is replayed without its forces being compared. *)
SameForcesAsked(entry, forces) == entry.forces # {} /\ forces # {}

(* Forces are compared by start and label.                                   *)
SameForces(entry, forces) == entry.forces = forces

(* History: what looked truncated, or does so now, is decoded under other     *)
(* forces.                                                                    *)
Reguides(entry, forces, texts) ==
    reguided' = (reguided \/ /\ forces # entry.forces
                             /\ \E g \in {entry.base, entry.result} \cup texts :
                                  Len(g.text) >= TokenThreshold)

Guided(entry, forces) ==      \* a cached window that has to be decoded again
    LET p == run.pass
    IN IF ~ run.engine
       THEN /\ IF run.required THEN Abort
               ELSE run' = [run EXCEPT !.engine = TRUE, !.pass = NewPass(Track, Cached(run), TRUE)]
            /\ Reguides(entry, forces, {})
       ELSE \E result \in Decoded(forces) :
              /\ IF MissedForces(result.text, forces) # {} THEN Abort
                 ELSE Accept(result, entry.base, forces, Tail(p.left))
              /\ Reguides(entry, forces, {result})

Replay ==
    /\ Inferring /\ run.pass.cached /\ run.pass.left # <<>>
    /\ LET entry == Head(run.pass.left)
           forces == IF Unreadable(entry.base) THEN {} ELSE ForcesFor(entry.base)
       IN IF forces = {} \/ SameForces(entry, forces)
          THEN /\ IF Unreadable(entry.base) THEN Abort
                  ELSE IF forces = {} THEN Accept(entry.base, entry.base, {}, Tail(run.pass.left))
                  ELSE Accept(entry.result, entry.base, forces, Tail(run.pass.left))
               /\ Reguides(entry, forces, {})
          ELSE Guided(entry, forces)
    /\ InferenceUnchanged

(***************************************************************************)
(* The end of a pass, of a run, and the three files.                         *)
(***************************************************************************)
PassDone == run.phase = "decoding" /\ run.pass.at > Len(run.pass.windows)

CacheUnused ==
    /\ PassDone /\ run.pass.left # <<>>
    /\ DiscardCache
    /\ InferenceUnchanged /\ UNCHANGED reguided

RunVoices ==
    [x \in Range(RunsOf(run.pass.byWindow)) |->
        {Track.speech[i.of].voice : i \in CleanIntervals(run.pass.byWindow[x.window], x)}]

(* The generations are saved before the speakers are reconciled.             *)
FinishTrack ==
    /\ PassDone /\ run.pass.left = <<>>
    /\ LET key == run.sources[run.at]
           generated == [k \in DOMAIN run.generated \cup {key} |->
                           IF k = key THEN run.pass.entries ELSE run.generated[k]]
       IN /\ cache' = [metadata |-> CacheMetadata(Document), tracks |-> generated]
          /\ run' = [run EXCEPT !.phase = "reconciling", !.generated = generated,
                        !.pass.byWindow = Eager([i \in DOMAIN @ |-> SplitSpeakerRuns(@[i])])]
    /\ UNCHANGED <<spoken, version, transcript, voiceprints, reguided, speechBudget>>

Named(byWindow, mapping) ==
    Eager([i \in DOMAIN byWindow |-> Eager([n \in DOMAIN byWindow[i] |->
        [byWindow[i][n] EXCEPT !.speaker = mapping[@]]])])
Selected(p, mapping) ==
    DeduplicateBoundaries(TrimOverlaps(Named(p.byWindow, mapping), p.effective))
WithTrack(r, segments, profiles) ==
    [r EXCEPT !.profiles = profiles,
              !.segments = @ \o [n \in DOMAIN segments |-> segments[n] @@ [role |-> Role]]]

Reconcile ==
    /\ run.phase = "reconciling"
    /\ \E trimmed \in {TrimOverlaps(run.pass.byWindow, run.pass.effective)} :
         LET hints == HintsOf(Document, Role)
         IN IF AnchorsFail(trimmed, hints) THEN Abort
            ELSE \E r \in {ReconcileSpeakerRuns(run.pass.byWindow, run.profiles,
                               Anchors(trimmed, hints), RunVoices, SpeechSimilarity)} :
                 \E done \in {WithTrack(run, Selected(run.pass, r.mapping), r.profiles)} :
                   run' = IF run.at < Len(run.sources)
                          THEN Beginning([done EXCEPT !.at = @ + 1, !.phase = "decoding"])
                          ELSE [done EXCEPT !.phase = "rendering"]
    /\ UNCHANGED <<spoken, version, cache, transcript, voiceprints, reguided, speechBudget>>

Render ==
    /\ run.phase = "rendering"
    /\ run' = IF EditsFail(run.segments, Document.edits) THEN NoRun
              ELSE [run EXCEPT !.phase = "publishing",
                               !.segments = Canonical(ApplyEdits(@, Document.edits), run.profiles)]
    /\ UNCHANGED <<spoken, version, cache, transcript, voiceprints, reguided, speechBudget>>

Spoke == {run.segments[n].speaker : n \in DOMAIN run.segments}
PublishVoiceprints ==
    /\ run.phase = "publishing"
    /\ voiceprints' = [version |-> run.version, names |-> Spoke]
    /\ run' = [run EXCEPT !.phase = "published"]
    /\ UNCHANGED <<spoken, version, cache, transcript, reguided, speechBudget>>
PublishTranscript ==
    /\ run.phase = "published"
    /\ transcript' = [version |-> run.version, segments |-> run.segments,
                      said |-> CoalesceSegments(run.segments)]
    /\ run' = NoRun
    /\ UNCHANGED <<spoken, version, cache, voiceprints, reguided, speechBudget>>

(***************************************************************************)
(* The author and the machine.                                               *)
(***************************************************************************)
EditDocument ==
    /\ run.phase = "none"
    /\ \E v \in DOMAIN spoken.documents \ {version} : version' = v
    /\ UNCHANGED <<spoken, cache, transcript, voiceprints, run, reguided, speechBudget>>
StopRun ==
    /\ run.phase # "none" /\ speechBudget.faults > 0
    /\ speechBudget' = [speechBudget EXCEPT !.faults = @ - 1]
    /\ run' = NoRun
    /\ UNCHANGED <<spoken, version, cache, transcript, voiceprints, reguided>>

SpeechInit ==
    /\ spoken \in SpeechScenarios
    /\ version = 1
    /\ cache = Missing /\ transcript = Missing /\ voiceprints = Missing
    /\ run = NoRun /\ reguided = FALSE
    /\ speechBudget = [runs |-> spoken.runs, faults |-> spoken.faults]

SpeechNext ==
    \/ \E required \in BOOLEAN : Begin(required)
    \/ Transcribe \/ Replay \/ CacheEnded \/ CacheUnused
    \/ FinishTrack \/ Reconcile \/ Render \/ PublishVoiceprints \/ PublishTranscript
    \/ EditDocument \/ StopRun

SpeechSpec == SpeechInit /\ [][SpeechNext]_speechVars

(***************************************************************************)
(* Properties.                                                               *)
(***************************************************************************)

(* What a pass builds on was decoded from this track, under this prompt and   *)
(* with the labels its own text asks to be forced; and from the very span it  *)
(* stands for, unless a window that was continued after a suspected           *)
(* truncation was replayed under other forces.  (Cached generations do not    *)
(* say which span they are of.)                                              *)
GenerationsAreReusedForTheirInputs ==
    run.phase = "decoding" =>
        \A n \in DOMAIN run.pass.entries :
            LET e == run.pass.entries[n]
            IN /\ \A g \in {e.result, e.base} :
                    /\ g.made.track = run.sources[run.at]
                    /\ g.made.prompt = Document.prompt
                    /\ ~ reguided => g.made.span = run.pass.spans[n]
               /\ e.result.made.forces = e.forces

(* Every utterance of the recording, half of it at least in one piece, is in  *)
(* the transcript, whatever windows, truncations, joins and repeats did to it.*)
UtterancesAreKept(t) ==
    \A a \in Recordings(spoken.documents[t.version]) :
        \A i \in DOMAIN Tracks[a.track].speech :
            \E s \in Range(t.said) :
                /\ s.role = a.role
                /\ \E w \in Range(s.said) :
                     /\ w.of = i
                     /\ 2 * w.size >= Tracks[a.track].speech[i].end - Tracks[a.track].speech[i].start

(* What a hint may leave to somebody else: less of its range than is its      *)
(* person's, and only where it cannot mean all it takes in, because some of   *)
(* that sticks out of it, or because its start was rounded to a second in     *)
(* which two speakers start.                                                  *)
LeavesOnlyTheLesser(segments, here, hint) ==
    LET others == {n \in here : segments[n].speaker # hint.who}
    IN others # {} =>
         /\ \A n \in others : Overlap(segments[n], hint) < OverlapOf(segments, here, hint, hint.who)
         /\ \/ \E n \in here : ~ Inside(segments[n], hint)
            \/ /\ hint.start % Second = 0
               /\ Cardinality({n \in here : /\ hint.start <= segments[n].start
                                            /\ segments[n].start < hint.start + Second}) >= 2

(* What a hint is the first to cover is published as its person's, but for    *)
(* the lesser share of somebody else; everybody a track has a hint of is      *)
(* named in it, and nobody is named that the hints do not name.               *)
HintsAreFollowed(t) ==
    LET document == spoken.documents[t.version]
    IN /\ \A a \in Recordings(document) :
            LET segments == SelectSeq(t.segments, LAMBDA s : s.role = a.role)
                hints == HintsOf(document, a.role)
            IN \A h \in DOMAIN hints :
                 /\ LeavesOnlyTheLesser(segments, Centered(segments, hints, h), hints[h])
                 /\ \E s \in Range(segments) : s.speaker = hints[h].who
       /\ \A s \in Range(t.segments) :
            s.speaker < 100 \/ \E h \in Range(document.hints) : s.speaker = h.who

(* The voiceprints beside a transcript are those of who speaks in it, but for *)
(* the moment between the two files, and what a stop in it has left.          *)
VoiceprintsFit ==
    \/ voiceprints = [version |-> transcript.version,
                      names |-> {s.speaker : s \in Range(transcript.segments)}]
    \/ run.phase = "published"
    \/ speechBudget.faults < spoken.faults

(* A published transcript has all three.                                      *)
TranscriptsAreFaithful ==
    transcript # Missing =>
        /\ ~ reguided => UtterancesAreKept(transcript)
        /\ HintsAreFollowed(transcript)
        /\ VoiceprintsFit
============================================================================
