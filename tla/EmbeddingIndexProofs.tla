------------------------ MODULE EmbeddingIndexProofs ------------------------
(***************************************************************************)
(* Safety of the vector index for every set of pages, every text and any   *)
(* number of edits, rebuilds, failures and crashes.                        *)
(*                                                                         *)
(* What searches see (VectorsBelongToTheirChunks) rests on what is on its  *)
(* way there: a state that is loaded and not published, the sidecars on    *)
(* disk, and the pass that holds the reindex lock.  A pass works on the    *)
(* pages of the generation it began with, so its vectors fit the snapshot  *)
(* as long as the generation is the same; and what a forced pass has been  *)
(* through has no sidecar of an earlier rebuild any more.                  *)
(***************************************************************************)
EXTENDS EmbeddingIndex, SequenceTheorems, TLAPS

(* Vectors beside the chunks they embed. *)
Fits(vectors, text) ==
  /\ DOMAIN vectors = DOMAIN text
  /\ \A i \in DOMAIN text : vectors[i] # None => vectors[i].of = text[i]

IndexFits(pages, index) ==
  \A p \in Pages : IF pages[p] = None THEN index[p] = <<>> ELSE Fits(index[p], pages[p])

(* Vectors none of which was made before a rebuild. *)
Since(vectors, rebuild) == \A i \in DOMAIN vectors : vectors[i].epoch >= rebuild

SidecarOK(s, rebuild) == s # None => Fits(s.vectors, s.text) /\ Since(s.vectors, rebuild)

(* The vectors a pass has for the page it works on. *)
Embedded(s) ==
  /\ s.pages[s.page] # None
  /\ Len(s.vectors) <= Len(s.pages[s.page])
  /\ \A i \in 1 .. Len(s.vectors) :
       /\ s.vectors[i] # None => /\ s.vectors[i].of = s.pages[s.page][i]
                                 /\ s.vectors[i].epoch = epoch
       /\ s.vectors[i] = None => s.pending

(* The pages whose old sidecar a forced pass has replaced or removed. *)
Renewed(s) == {p \in Pages \ s.todo : ~(s.stage = "remove" /\ p = s.page)}

PassOK(s) ==
  /\ s.gen <= snapshot.gen
  /\ s.gen = snapshot.gen => s.pages = snapshot.pages
  /\ s.stage # "prepare" => IndexFits(s.pages, s.ready)
  /\ s.stage = "remove" => s.vectors = <<>>
  /\ s.stage \in {"embed", "save"} => Embedded(s)
  /\ s.stage = "save" => Len(s.vectors) = Len(s.pages[s.page]) /\ ~s.pending
  /\ s.force /\ s.stage # "prepare" =>
       \A p \in Renewed(s) : sidecar[p] # None => Since(sidecar[p].vectors, epoch)

(* The parts of the invariant: the snapshot, a loaded state, the sidecars,  *)
(* the pass.                                                               *)
SnapshotInv == IndexFits(snapshot.pages, snapshot.index)
LoadingInv == loading # None => /\ IndexFits(loading.pages, loading.index)
                                /\ loading.gen = snapshot.gen + 1
SidecarInv == \A p \in Pages : SidecarOK(sidecar[p], rebuilt)
PassInv == pass # None => PassOK(pass)

IndexInv == TypeOK /\ SnapshotInv /\ LoadingInv /\ SidecarInv /\ PassInv

-----------------------------------------------------------------------------
(* Vectors.                                                                  *)

LEMMA TextFacts ==
  ASSUME NEW text \in Texts
  PROVE  /\ text \in Seq(Chunks) /\ text # None /\ Len(text) \in Nat
         /\ DOMAIN text = 1 .. Len(text) /\ \A i \in DOMAIN text : text[i] \in Chunks
<1>1. text \in Seq(Chunks) /\ text # None
  BY IndexAssumption
<1> QED
  BY <1>1

LEMMA MissingFacts ==
  ASSUME NEW text \in Texts
  PROVE  Missing(text) \in Vectors /\ Fits(Missing(text), text)
<1>1. DOMAIN text = 1 .. Len(text) /\ Len(text) \in Nat
  BY TextFacts
<1>2. Missing(text) \in [1 .. Len(text) -> VectorSet \cup {None}]
  BY <1>1 DEF Missing
<1>3. Missing(text) \in Vectors
  BY <1>1, <1>2, SeqDef DEF Vectors
<1> QED
  BY <1>3 DEF Missing, Fits

LEMMA EmptyVectors == <<>> \in Vectors
BY DEF Vectors

LEMMA LoadChunksFacts ==
  ASSUME TypeOK, SidecarInv, NEW pages \in PagesSet, NEW force \in BOOLEAN
  PROVE  /\ LoadChunks(pages, force) \in [Pages -> Vectors]
         /\ IndexFits(pages, LoadChunks(pages, force))
<1> DEFINE index == LoadChunks(pages, force)
<1>1. ASSUME NEW p \in Pages
      PROVE  /\ index[p] \in Vectors
             /\ IF pages[p] = None THEN index[p] = <<>> ELSE Fits(index[p], pages[p])
  <2>1. CASE pages[p] = None
    BY <2>1, EmptyVectors DEF LoadChunks
  <2>2. CASE pages[p] # None
    <3>1. pages[p] \in Texts
      BY <2>2 DEF PagesSet
    <3>2. index[p] = IF force THEN Missing(pages[p]) ELSE VectorsFor(sidecar[p], pages[p])
      BY <2>2 DEF LoadChunks
    <3>3. Missing(pages[p]) \in Vectors /\ Fits(Missing(pages[p]), pages[p])
      BY <3>1, MissingFacts
    <3>4. sidecar[p] # None /\ sidecar[p].text = pages[p] =>
            sidecar[p].vectors \in Vectors /\ Fits(sidecar[p].vectors, pages[p])
      BY DEF TypeOK, SidecarSet, SidecarInv, SidecarOK
    <3> QED
      BY <2>2, <3>2, <3>3, <3>4 DEF VectorsFor
  <2> QED
    BY <2>1, <2>2
<1>2. index \in [Pages -> Vectors]
  <2>1. index = [p \in Pages |-> index[p]]
    BY DEF LoadChunks
  <2> HIDE DEF index
  <2> QED
    BY <1>1, <2>1
<1> QED
  BY <1>1, <1>2 DEF IndexFits

(* A state read from the sidecars. *)
LEMMA LoadedState ==
  ASSUME TypeOK, SidecarInv, NEW gen \in Nat, NEW pages \in PagesSet,
         NEW s, s = [gen |-> gen, pages |-> pages, index |-> LoadChunks(pages, FALSE)]
  PROVE  s \in StateSet /\ IndexFits(s.pages, s.index) /\ s.gen = gen
<1>1. LoadChunks(pages, FALSE) \in [Pages -> Vectors]
      /\ IndexFits(pages, LoadChunks(pages, FALSE))
  BY LoadChunksFacts
<1> QED
  BY <1>1 DEF StateSet

-----------------------------------------------------------------------------
(* Types.                                                                    *)

(* The pass and the task that waits for it. *)
LockOK(m, s) ==
  /\ m \in {"waiting", "backoff", "wanting", "running"}
  /\ (m = "running") <=> (s # None /\ ~s.force)

LEMMA FinishFacts ==
  ASSUME TypeOK, pass # None, NEW ok \in BOOLEAN, NEW walked \in BOOLEAN,
         Finish(ok, walked)
  PROVE  /\ pass' = None /\ LockOK(maintain', pass')
         /\ \/ rebuilt' = rebuilt
            \/ pass.force /\ walked /\ rebuilt' = epoch
<1>1. pass.force \in BOOLEAN
  BY DEF TypeOK, PassSet
<1> QED
  BY <1>1 DEF Finish, TypeOK, LockOK

(* What an action of a pass may make of it. *)
PassMoves ==
  \/ /\ pass' = None /\ LockOK(maintain', pass')
     /\ \/ rebuilt' = rebuilt
        \/ pass.force /\ rebuilt' = epoch
  \/ /\ pass' \in PassSet /\ pass'.force = pass.force /\ UNCHANGED <<maintain, rebuilt>>
     /\ pass'.stage # "prepare" => pass'.ready \in [Pages -> Vectors]
     /\ pass'.stage \in {"remove", "embed", "save"} => pass'.page \in Pages

LEMMA AbandonMoves ==
  ASSUME TypeOK, pass # None, Abandon
  PROVE  PassMoves
BY FinishFacts DEF Abandon, PassMoves

LEMMA PassFields ==
  ASSUME TypeOK, pass # None
  PROVE  /\ pass \in PassSet /\ pass.pages \in PagesSet /\ pass.force \in BOOLEAN
         /\ pass.gen \in Nat /\ pass.todo \in SUBSET Pages /\ pass.vectors \in Vectors
         /\ pass.stage # "prepare" => pass.ready \in [Pages -> Vectors]
         /\ pass.stage \in {"remove", "embed", "save"} => pass.page \in Pages
         /\ pass.stage \in {"prepare", "choose", "remove", "embed", "save"}
         /\ pass.pending \in BOOLEAN /\ pass.incomplete \in BOOLEAN
BY DEF TypeOK, PassSet

LEMMA PrepareMoves ==
  ASSUME TypeOK, SidecarInv, Prepare
  PROVE  PassMoves
<1> DEFINE ready == LoadChunks(pass.pages, pass.force)
<1>1. pass # None /\ pass \in PassSet
  BY PassFields DEF Prepare
<1>2. CASE Abandon
  BY <1>1, <1>2, AbandonMoves
<1>3. CASE ~ Abandon
  <2>1. /\ pass' = [pass EXCEPT !.stage = "choose", !.ready = ready, !.todo = Todo(ready)]
        /\ UNCHANGED <<maintain, rebuilt>>
    BY <1>3 DEF Prepare
  <2>2. ready \in [Pages -> Vectors]
    BY <1>1, PassFields, LoadChunksFacts
  <2>3. Todo(ready) \in SUBSET Pages
    BY DEF Todo
  <2> HIDE DEF ready
  <2> QED
    BY <1>1, <2>1, <2>2, <2>3 DEF PassMoves, PassSet
<1> QED
  BY <1>2, <1>3

LEMMA ChooseMoves ==
  ASSUME TypeOK, NEW p \in Pages, Choose(p)
  PROVE  PassMoves
<1>1. /\ pass # None /\ pass \in PassSet /\ pass.stage = "choose"
      /\ pass.ready \in [Pages -> Vectors]
  BY PassFields DEF Choose
<1>2. CASE Abandon
  BY <1>1, <1>2, AbandonMoves
<1>3. CASE ~ Abandon
  <2>1. /\ pass' = [pass EXCEPT !.stage = IF Removes(p) THEN "remove" ELSE "embed",
                                !.todo = pass.todo \ {p}, !.page = p, !.vectors = <<>>,
                                !.pending = FALSE]
        /\ UNCHANGED <<maintain, rebuilt>>
    BY <1>3 DEF Choose
  <2>2. pass.todo \ {p} \in SUBSET Pages
    BY <1>1 DEF PassSet
  <2> QED
    BY <1>1, <2>1, <2>2, EmptyVectors DEF PassMoves, PassSet
<1> QED
  BY <1>2, <1>3

LEMMA RemoveMoves ==
  ASSUME TypeOK, RemoveSidecar
  PROVE  PassMoves
<1>1. /\ pass # None /\ pass \in PassSet /\ pass.page \in Pages
      /\ pass.ready \in [Pages -> Vectors]
  BY PassFields DEF RemoveSidecar
<1>2. /\ pass' = [pass EXCEPT !.stage = IF pass.pages[pass.page] = None
                                        THEN "choose" ELSE "embed"]
      /\ UNCHANGED <<maintain, rebuilt>>
  BY DEF RemoveSidecar
<1> QED
  BY <1>1, <1>2 DEF PassMoves, PassSet

(* The vector an answer of the queue is. *)
Vector(chunk) == IF request[chunk] = "answered" THEN [of |-> chunk, epoch |-> epoch] ELSE None

LEMMA EmbedStep ==
  ASSUME TypeOK, PassInv, EmbedChunk, ~ Abandon
  PROVE  /\ pass.pages[pass.page] \in Texts
         /\ Len(pass.vectors) \in Nat
         /\ Len(pass.vectors) + 1 \in 1 .. Len(pass.pages[pass.page])
         /\ pass.pages[pass.page][Len(pass.vectors) + 1] \in Chunks
         /\ \E chunk \in Chunks :
              /\ chunk = pass.pages[pass.page][Len(pass.vectors) + 1]
              /\ Vector(chunk) \in VectorSet \cup {None}
              /\ pass' = [pass EXCEPT !.vectors = Append(pass.vectors, Vector(chunk)),
                                      !.pending = pass.pending \/ Vector(chunk) = None]
         /\ UNCHANGED <<maintain, rebuilt>>
<1>1. /\ pass # None /\ pass \in PassSet /\ pass.page \in Pages /\ pass.vectors \in Vectors
      /\ pass.pages \in PagesSet
  BY PassFields DEF EmbedChunk
<1>2. Len(pass.vectors) \in Nat /\ Len(pass.vectors) < Len(pass.pages[pass.page])
  BY <1>1 DEF EmbedChunk, Vectors
<1>3. pass.pages[pass.page] \in Texts
  BY <1>1 DEF PassInv, PassOK, Embedded, EmbedChunk, PagesSet
<1>4. Len(pass.vectors) + 1 \in 1 .. Len(pass.pages[pass.page])
  BY <1>2, <1>3, TextFacts
<1> DEFINE chunk == pass.pages[pass.page][Len(pass.vectors) + 1]
<1>5. chunk \in Chunks
  BY <1>3, <1>4, TextFacts
<1>6. /\ pass' = [pass EXCEPT !.vectors = Append(pass.vectors, Vector(chunk)),
                              !.pending = pass.pending \/ Vector(chunk) = None]
      /\ UNCHANGED <<maintain, rebuilt>>
  BY DEF EmbedChunk, Vector
<1> HIDE DEF chunk
<1>7. Vector(chunk) \in VectorSet \cup {None}
  BY <1>5 DEF Vector, VectorSet, TypeOK
<1> QED
  BY <1>2, <1>3, <1>4, <1>5, <1>6, <1>7 DEF chunk

LEMMA EmbedMoves ==
  ASSUME TypeOK, PassInv, EmbedChunk
  PROVE  PassMoves
<1>1. /\ pass # None /\ pass \in PassSet /\ pass.page \in Pages /\ pass.vectors \in Vectors
      /\ pass.ready \in [Pages -> Vectors] /\ pass.pending \in BOOLEAN
  BY PassFields DEF EmbedChunk
<1>2. CASE Abandon
  BY <1>1, <1>2, AbandonMoves
<1>3. CASE ~ Abandon
  <2>1. PICK chunk \in Chunks :
          /\ Vector(chunk) \in VectorSet \cup {None}
          /\ pass' = [pass EXCEPT !.vectors = Append(pass.vectors, Vector(chunk)),
                                  !.pending = pass.pending \/ Vector(chunk) = None]
    BY <1>3, EmbedStep
  <2>2. UNCHANGED <<maintain, rebuilt>>
    BY <1>3, EmbedStep
  <2>3. Append(pass.vectors, Vector(chunk)) \in Vectors
    BY <1>1, <2>1, AppendProperties DEF Vectors
  <2>4. (pass.pending \/ Vector(chunk) = None) \in BOOLEAN
    BY <1>1
  <2> QED
    BY <1>1, <2>1, <2>2, <2>3, <2>4 DEF PassMoves, PassSet
<1> QED
  BY <1>2, <1>3

LEMMA EmbeddedMoves ==
  ASSUME TypeOK, EmbeddedPage
  PROVE  PassMoves
<1>1. /\ pass # None /\ pass \in PassSet /\ pass.page \in Pages /\ pass.vectors \in Vectors
      /\ pass.ready \in [Pages -> Vectors]
  BY PassFields DEF EmbeddedPage
<1>2. CASE Abandon
  BY <1>1, <1>2, AbandonMoves
<1>3. CASE ~ Abandon
  <2>1. /\ \/ pass' = [pass EXCEPT !.stage = "choose", !.incomplete = TRUE,
                                   !.ready[pass.page] = pass.vectors]
           \/ pass' = [pass EXCEPT !.stage = "save"]
        /\ UNCHANGED <<maintain, rebuilt>>
    BY <1>3 DEF EmbeddedPage
  <2>2. [pass.ready EXCEPT ![pass.page] = pass.vectors] \in [Pages -> Vectors]
    BY <1>1
  <2>3. CASE pass' = [pass EXCEPT !.stage = "choose", !.incomplete = TRUE,
                                  !.ready[pass.page] = pass.vectors]
    <3>1. pass' \in PassSet
      BY <1>1, <2>2, <2>3 DEF PassSet
    <3>2. /\ pass'.force = pass.force /\ pass'.stage = "choose"
          /\ pass'.ready \in [Pages -> Vectors]
      BY <1>1, <2>2, <2>3 DEF PassSet
    <3> QED
      BY <2>1, <3>1, <3>2 DEF PassMoves
  <2>4. CASE pass' = [pass EXCEPT !.stage = "save"]
    <3>1. pass' \in PassSet
      BY <1>1, <2>4 DEF PassSet
    <3>2. /\ pass'.force = pass.force /\ pass'.stage = "save"
          /\ pass'.ready = pass.ready /\ pass'.page = pass.page
      BY <1>1, <2>4 DEF PassSet
    <3> QED
      BY <1>1, <2>1, <3>1, <3>2 DEF PassMoves
  <2> QED
    BY <2>1, <2>3, <2>4
<1> QED
  BY <1>2, <1>3

LEMMA SaveMoves ==
  ASSUME TypeOK, SaveSidecar
  PROVE  PassMoves
<1>1. /\ pass # None /\ pass \in PassSet /\ pass.page \in Pages /\ pass.vectors \in Vectors
      /\ pass.ready \in [Pages -> Vectors]
  BY PassFields DEF SaveSidecar
<1>2. /\ pass' = [pass EXCEPT !.stage = "choose", !.ready[pass.page] = pass.vectors]
      /\ UNCHANGED <<maintain, rebuilt>>
  BY DEF SaveSidecar
<1>3. [pass.ready EXCEPT ![pass.page] = pass.vectors] \in [Pages -> Vectors]
  BY <1>1
<1> QED
  BY <1>1, <1>2, <1>3 DEF PassMoves, PassSet

LEMMA BuildMoves ==
  ASSUME TypeOK, Build
  PROVE  PassMoves
<1>1. pass # None /\ pass.incomplete \in BOOLEAN
  BY PassFields DEF Build
<1>2. CASE Abandon
  BY <1>1, <1>2, AbandonMoves
<1>3. CASE Finish(~pass.incomplete, TRUE)
  BY <1>1, <1>3, FinishFacts DEF PassMoves
<1> QED
  BY <1>2, <1>3 DEF Build

LEMMA PassStepMoves ==
  ASSUME TypeOK, SidecarInv, PassInv, PassStep
  PROVE  pass # None /\ PassMoves
<1>1. PassMoves
  BY PrepareMoves, ChooseMoves, RemoveMoves, EmbedMoves, EmbeddedMoves, SaveMoves, BuildMoves
     DEF PassStep
<1>2. pass # None
  BY DEF PassStep, Prepare, Choose, RemoveSidecar, EmbedChunk, EmbeddedPage, SaveSidecar, Build
<1> QED
  BY <1>1, <1>2

(* An action of a pass leaves the rest to it. *)
LEMMA PassLeaves ==
  ASSUME PassStep
  PROVE  UNCHANGED <<loading, notice, permit, epoch>>
BY DEF PassStep, Prepare, Choose, RemoveSidecar, EmbedChunk, EmbeddedPage, SaveSidecar, Build

LEMMA SidecarType ==
  ASSUME TypeOK, PassInv, [Next]_vars
  PROVE  sidecar' \in [Pages -> SidecarSet \cup {None}]
<1>1. sidecar \in [Pages -> SidecarSet \cup {None}]
  BY DEF TypeOK
<1>2. CASE RemoveSidecar
  BY <1>1, <1>2, PassFields DEF RemoveSidecar
<1>3. CASE SaveSidecar
  <2>1. /\ pass # None /\ pass.pages \in PagesSet /\ pass.vectors \in Vectors
        /\ pass.page \in Pages /\ pass.pages[pass.page] # None
    BY <1>3, PassFields DEF SaveSidecar, PassInv, PassOK, Embedded
  <2>2. pass.pages[pass.page] \in Texts
    BY <2>1 DEF PagesSet
  <2>3. [text |-> pass.pages[pass.page], vectors |-> pass.vectors] \in SidecarSet
    BY <2>1, <2>2 DEF SidecarSet
  <2> QED
    BY <1>1, <1>3, <2>1, <2>3 DEF SaveSidecar
<1>4. CASE UNCHANGED sidecar
  BY <1>1, <1>4
<1> QED
  BY <1>2, <1>3, <1>4 DEF Next, vars, Load, Publish, Notify, Start, StartForced, PassStep,
    Prepare, Choose, EmbedChunk, EmbeddedPage, Build, Wake, BackoffEnds, Answer, GiveUp,
    Retry, DropStale, Crash

(* The states are those loaded from the sidecars, or the pass's vectors in   *)
(* the state it began with.                                                 *)
LEMMA StateTypes ==
  ASSUME TypeOK, SnapshotInv, LoadingInv, SidecarInv, PassInv, [Next]_vars
  PROVE  /\ snapshot' \in StateSet /\ loading' \in StateSet \cup {None}
         /\ SnapshotInv' /\ LoadingInv'
         /\ \/ snapshot'.gen = snapshot.gen /\ snapshot'.pages = snapshot.pages
            \/ snapshot'.gen = snapshot.gen + 1
<1>1. snapshot \in StateSet /\ loading \in StateSet \cup {None} /\ snapshot.gen \in Nat
      /\ snapshot.pages \in PagesSet
  BY DEF TypeOK, StateSet
<1>2. CASE Load
  <2>1. PICK p \in Pages, text \in Texts \cup {None} :
          loading' = [gen |-> snapshot.gen + 1, pages |-> [snapshot.pages EXCEPT ![p] = text],
                      index |-> LoadChunks([snapshot.pages EXCEPT ![p] = text], FALSE)]
    BY <1>2 DEF Load
  <2> DEFINE pages == [snapshot.pages EXCEPT ![p] = text]
  <2>2. pages \in PagesSet /\ snapshot.gen + 1 \in Nat
    BY <1>1 DEF PagesSet
  <2>3. loading' = [gen |-> snapshot.gen + 1, pages |-> pages,
                    index |-> LoadChunks(pages, FALSE)]
    BY <2>1
  <2> HIDE DEF pages
  <2>4. /\ loading' \in StateSet /\ IndexFits(loading'.pages, loading'.index)
        /\ loading'.gen = snapshot.gen + 1
    BY <2>2, <2>3, LoadedState
  <2>5. snapshot' = snapshot
    BY <1>2 DEF Load
  <2> QED
    BY <1>1, <2>4, <2>5 DEF SnapshotInv, LoadingInv
<1>3. CASE Publish
  <2>1. snapshot' = loading /\ loading # None /\ loading' = None
    BY <1>3 DEF Publish
  <2> QED
    BY <1>1, <2>1 DEF SnapshotInv, LoadingInv
<1>4. CASE Crash
  <2> DEFINE pages == IF loading = None THEN snapshot.pages ELSE loading.pages
  <2>1. snapshot' = [gen |-> snapshot.gen + 1, pages |-> pages,
                     index |-> LoadChunks(pages, FALSE)]
        /\ loading' = None
    BY <1>4 DEF Crash
  <2>2. pages \in PagesSet /\ snapshot.gen + 1 \in Nat
    BY <1>1 DEF StateSet
  <2> HIDE DEF pages
  <2>3. /\ snapshot' \in StateSet /\ IndexFits(snapshot'.pages, snapshot'.index)
        /\ snapshot'.gen = snapshot.gen + 1
    BY <2>1, <2>2, LoadedState
  <2> QED
    BY <2>1, <2>3 DEF SnapshotInv, LoadingInv
<1>5. CASE Build /\ snapshot' # snapshot
  <2>1. /\ snapshot' = [snapshot EXCEPT !.index = pass.ready] /\ ~Outdated
        /\ loading' = loading /\ pass # None /\ pass.stage = "choose"
    BY <1>5 DEF Build
  <2>2. pass.ready \in [Pages -> Vectors]
    BY <2>1, PassFields
  <2>3. IndexFits(snapshot.pages, pass.ready)
    BY <2>1 DEF PassInv, PassOK, Outdated
  <2>4. snapshot' \in StateSet /\ snapshot'.index = pass.ready
        /\ snapshot'.pages = snapshot.pages /\ snapshot'.gen = snapshot.gen
    BY <1>1, <2>1, <2>2 DEF StateSet
  <2> QED
    BY <1>1, <2>1, <2>3, <2>4 DEF SnapshotInv, LoadingInv
<1>6. CASE UNCHANGED <<snapshot, loading>>
  BY <1>1, <1>6 DEF SnapshotInv, LoadingInv
<1> QED
  BY <1>2, <1>3, <1>4, <1>5, <1>6 DEF Next, vars, Notify, Start, StartForced, PassStep,
    Prepare, Choose, RemoveSidecar, EmbedChunk, EmbeddedPage, SaveSidecar, Build, Wake,
    BackoffEnds, Answer, GiveUp, Retry, DropStale

LEMMA QueueTypes ==
  ASSUME TypeOK, PassInv, [Next]_vars
  PROVE  /\ (Queue!TypeOK)' /\ notice' \in BOOLEAN /\ permit' \in BOOLEAN
         /\ epoch' \in {epoch, epoch + 1}
<1>1. /\ request \in [Chunks -> Queue!States] /\ notice \in BOOLEAN /\ permit \in BOOLEAN
      /\ "absent" \in Queue!States /\ "pending" \in Queue!States
      /\ "answered" \in Queue!States /\ "failed" \in Queue!States
  BY DEF TypeOK, Queue!TypeOK, Queue!States
<1>2. request' \in [Chunks -> Queue!States]
  <2>1. CASE EmbedChunk
    <3>1. pass.pages[pass.page][Len(pass.vectors) + 1] \in Chunks
      <4>1. /\ pass # None /\ pass.pages \in PagesSet /\ pass.page \in Pages
            /\ pass.vectors \in Vectors /\ pass.pages[pass.page] # None
            /\ Len(pass.vectors) < Len(pass.pages[pass.page])
        BY <2>1, PassFields DEF EmbedChunk, PassInv, PassOK, Embedded
      <4>2. pass.pages[pass.page] \in Texts /\ Len(pass.vectors) \in Nat
        BY <4>1 DEF PagesSet, Vectors
      <4>3. Len(pass.vectors) + 1 \in DOMAIN pass.pages[pass.page]
        BY <4>1, <4>2, TextFacts
      <4> QED
        BY <4>2, <4>3, TextFacts
    <3> QED
      BY <1>1, <2>1, <3>1 DEF EmbedChunk
  <2>2. CASE StartForced
    BY <1>1, <2>2 DEF StartForced
  <2>3. ASSUME NEW c \in Chunks, Answer(c) \/ GiveUp(c) \/ Retry(c)
        PROVE  request' \in [Chunks -> Queue!States]
    BY <1>1, <2>3 DEF Answer, GiveUp, Retry
  <2>4. CASE DropStale
    BY <1>1, <2>4 DEF DropStale
  <2>5. CASE UNCHANGED request
    BY <1>1, <2>5
  <2> QED
    BY <2>1, <2>2, <2>3, <2>4, <2>5 DEF Next, vars, Load, Publish, Notify, Start, PassStep,
      Prepare, Choose, RemoveSidecar, EmbeddedPage, SaveSidecar, Build, Wake, BackoffEnds, Crash
<1>3. notice' \in BOOLEAN /\ permit' \in BOOLEAN
  BY <1>1, PassLeaves DEF Next, vars, Load, Publish, Notify, Start, StartForced, Wake,
    BackoffEnds, Answer, GiveUp, Retry, DropStale, Crash
<1>4. epoch' \in {epoch, epoch + 1}
  BY PassLeaves DEF Next, vars, Load, Publish, Notify, Start, StartForced, Wake,
    BackoffEnds, Answer, GiveUp, Retry, DropStale, Crash
<1> QED
  BY <1>2, <1>3, <1>4 DEF Queue!TypeOK

LEMMA PassTypes ==
  ASSUME TypeOK, SidecarInv, PassInv, [Next]_vars
  PROVE  /\ pass' \in PassSet \cup {None}
         /\ pass' # None => /\ pass'.stage # "prepare" => pass'.ready \in [Pages -> Vectors]
                            /\ pass'.stage \in {"remove", "embed", "save"} =>
                                 pass'.page \in Pages
         /\ LockOK(maintain', pass')
         /\ rebuilt' \in {rebuilt, epoch}
<1>1. LockOK(maintain, pass) /\ pass \in PassSet \cup {None}
  BY DEF TypeOK, LockOK
<1>2. ASSUME NEW force \in BOOLEAN
      PROVE  /\ NewPass(force) \in PassSet /\ NewPass(force) # None
             /\ NewPass(force).stage = "prepare" /\ NewPass(force).force = force
  <2>1. snapshot.gen \in Nat /\ snapshot.pages \in PagesSet
    BY DEF TypeOK, StateSet
  <2>2. NewPass(force) \in PassSet
    BY <2>1, EmptyVectors DEF NewPass, PassSet
  <2> QED
    BY <2>2, IndexAssumption DEF NewPass
<1>3. CASE Start
  BY <1>2, <1>3 DEF Start, LockOK
<1>4. CASE StartForced
  <2>1. pass' = NewPass(TRUE) /\ maintain' = maintain /\ rebuilt' = rebuilt /\ pass = None
    BY <1>4 DEF StartForced
  <2> QED
    BY <1>1, <1>2, <2>1 DEF LockOK
<1>5. CASE PassStep
  <2>1. pass # None /\ PassMoves
    BY <1>5, PassStepMoves
  <2>2. CASE pass' = None /\ LockOK(maintain', pass')
    BY <2>1, <2>2 DEF PassMoves
  <2>3. CASE /\ pass' \in PassSet /\ pass'.force = pass.force
             /\ UNCHANGED <<maintain, rebuilt>>
             /\ pass'.stage # "prepare" => pass'.ready \in [Pages -> Vectors]
             /\ pass'.stage \in {"remove", "embed", "save"} => pass'.page \in Pages
    <3>1. pass' # None
      BY <2>3, IndexAssumption
    <3> QED
      BY <1>1, <2>1, <2>3, <3>1 DEF LockOK
  <2> QED
    BY <2>1, <2>2, <2>3 DEF PassMoves
<1>6. CASE Wake \/ BackoffEnds
  BY <1>1, <1>6 DEF Wake, BackoffEnds, LockOK, TypeOK
<1>7. CASE Crash
  BY <1>7 DEF Crash, LockOK
<1>8. CASE UNCHANGED <<pass, maintain, rebuilt>>
  BY <1>1, <1>8 DEF TypeOK
<1> QED
  BY <1>3, <1>4, <1>5, <1>6, <1>7, <1>8 DEF Next, vars, Load, Publish, Notify, Answer, GiveUp,
    Retry, DropStale

LEMMA NextTypes ==
  ASSUME TypeOK, SnapshotInv, LoadingInv, SidecarInv, PassInv, [Next]_vars
  PROVE  TypeOK'
<1>1. /\ snapshot' \in StateSet /\ loading' \in StateSet \cup {None}
      /\ sidecar' \in [Pages -> SidecarSet \cup {None}]
      /\ (Queue!TypeOK)' /\ notice' \in BOOLEAN /\ permit' \in BOOLEAN
      /\ pass' \in PassSet \cup {None}
      /\ pass' # None => /\ pass'.stage # "prepare" => pass'.ready \in [Pages -> Vectors]
                         /\ pass'.stage \in {"remove", "embed", "save"} => pass'.page \in Pages
      /\ LockOK(maintain', pass')
  BY StateTypes, SidecarType, QueueTypes, PassTypes
<1>2. epoch' \in Nat /\ rebuilt' \in Nat /\ rebuilt' <= epoch'
  <2>1. epoch \in Nat /\ rebuilt \in Nat /\ rebuilt <= epoch
    BY DEF TypeOK
  <2>2. epoch' \in {epoch, epoch + 1} /\ rebuilt' \in {rebuilt, epoch}
    BY QueueTypes, PassTypes
  <2> QED
    BY <2>1, <2>2
<1> QED
  BY <1>1, <1>2 DEF TypeOK, LockOK

-----------------------------------------------------------------------------
(* The sidecars.                                                             *)

LEMMA SavedSidecar ==
  ASSUME TypeOK, PassInv, SaveSidecar
  PROVE  /\ pass.page \in Pages /\ pass.pages[pass.page] \in Texts
         /\ Fits(pass.vectors, pass.pages[pass.page]) /\ Since(pass.vectors, epoch)
<1>1. /\ pass # None /\ pass.pages \in PagesSet /\ pass.vectors \in Vectors
      /\ pass.page \in Pages /\ Embedded(pass) /\ ~pass.pending
      /\ Len(pass.vectors) = Len(pass.pages[pass.page])
  BY PassFields DEF SaveSidecar, PassInv, PassOK
<1>2. pass.pages[pass.page] \in Texts
  BY <1>1 DEF PagesSet, Embedded
<1>3. DOMAIN pass.pages[pass.page] = 1 .. Len(pass.pages[pass.page])
  BY <1>2, TextFacts
<1>4. DOMAIN pass.vectors = 1 .. Len(pass.vectors)
  BY <1>1 DEF Vectors
<1>5. ASSUME NEW i \in DOMAIN pass.vectors
      PROVE  /\ pass.vectors[i].of = pass.pages[pass.page][i]
             /\ pass.vectors[i].epoch >= epoch
  <2>1. pass.vectors[i] # None
    BY <1>1, <1>4 DEF Embedded
  <2>2. pass.vectors[i].of = pass.pages[pass.page][i] /\ pass.vectors[i].epoch = epoch
    BY <1>1, <1>4, <2>1 DEF Embedded
  <2> QED
    BY <2>2 DEF TypeOK
<1> QED
  BY <1>1, <1>2, <1>3, <1>4, <1>5 DEF Fits, Since

(* Only a forced pass that has been through all pages moves the mark. *)
LEMMA RebuiltMoves ==
  ASSUME TypeOK, PassInv, [Next]_vars, rebuilt' # rebuilt
  PROVE  /\ rebuilt' = epoch /\ sidecar' = sidecar
         /\ \A p \in Pages : sidecar[p] # None => Since(sidecar[p].vectors, epoch)
<1>1. Build /\ pass # None
  <2>1. ASSUME pass # None, Abandon PROVE FALSE
    BY <2>1 DEF Abandon, Finish
  <2> QED
    BY <2>1 DEF Next, vars, Load, Publish, Notify, Start, StartForced, PassStep, Prepare, Choose,
      RemoveSidecar, EmbedChunk, EmbeddedPage, SaveSidecar, Build, Wake, BackoffEnds, Answer,
      GiveUp, Retry, DropStale, Crash
<1>2. pass.force /\ rebuilt' = epoch /\ pass.stage = "choose" /\ pass.todo = {}
  <2>1. pass.force \in BOOLEAN
    BY <1>1, PassFields
  <2> QED
    BY <1>1, <2>1 DEF Build, Abandon, Finish
<1>3. \A p \in Pages : p \in Renewed(pass)
  BY <1>2 DEF Renewed
<1>4. \A p \in Renewed(pass) : sidecar[p] # None => Since(sidecar[p].vectors, epoch)
  BY <1>1, <1>2 DEF PassInv, PassOK
<1> QED
  BY <1>1, <1>2, <1>3, <1>4 DEF Build

LEMMA NextSidecars ==
  ASSUME TypeOK, SidecarInv, PassInv, [Next]_vars
  PROVE  SidecarInv'
<1>0. /\ sidecar \in [Pages -> SidecarSet \cup {None}] /\ rebuilt \in Nat /\ epoch \in Nat
      /\ rebuilt <= epoch
  BY DEF TypeOK
<1>1. CASE rebuilt' # rebuilt
  <2>1. /\ rebuilt' = epoch /\ sidecar' = sidecar
        /\ \A p \in Pages : sidecar[p] # None => Since(sidecar[p].vectors, epoch)
    BY <1>1, RebuiltMoves
  <2> QED
    BY <2>1 DEF SidecarInv, SidecarOK
<1>2. CASE rebuilt' = rebuilt /\ RemoveSidecar
  <2>1. sidecar' = [sidecar EXCEPT ![pass.page] = None]
    BY <1>2 DEF RemoveSidecar
  <2>2. \A p \in Pages : sidecar'[p] = sidecar[p] \/ sidecar'[p] = None
    BY <1>0, <2>1
  <2> QED
    BY <1>2, <2>2 DEF SidecarInv, SidecarOK
<1>3. CASE rebuilt' = rebuilt /\ SaveSidecar
  <2> DEFINE new == [text |-> pass.pages[pass.page], vectors |-> pass.vectors]
  <2>1. sidecar' = [sidecar EXCEPT ![pass.page] = new]
    BY <1>3 DEF SaveSidecar
  <2>2. /\ pass.page \in Pages /\ pass.pages[pass.page] \in Texts
        /\ Fits(pass.vectors, pass.pages[pass.page]) /\ Since(pass.vectors, epoch)
    BY <1>3, SavedSidecar
  <2>3. pass.vectors \in Vectors /\ DOMAIN pass.vectors = 1 .. Len(pass.vectors)
    BY <1>3, PassFields DEF SaveSidecar, Vectors
  <2>4. Since(pass.vectors, rebuilt)
    <3>1. SUFFICES ASSUME NEW i \in DOMAIN pass.vectors
                   PROVE  pass.vectors[i].epoch >= rebuilt
      BY DEF Since
    <3>2. pass.vectors[i].epoch = epoch
      <4>1. /\ pass # None /\ Embedded(pass) /\ ~pass.pending
        BY <1>3 DEF SaveSidecar, PassInv, PassOK
      <4> QED
        BY <2>3, <4>1 DEF Embedded
    <3> QED
      BY <1>0, <3>2
  <2>5. SidecarOK(new, rebuilt)
    BY <2>2, <2>4 DEF SidecarOK
  <2> HIDE DEF new
  <2>6. ASSUME NEW p \in Pages PROVE SidecarOK(sidecar'[p], rebuilt)
    <3>1. sidecar'[p] = IF p = pass.page THEN new ELSE sidecar[p]
      BY <1>0, <2>1
    <3> QED
      BY <2>5, <3>1 DEF SidecarInv
  <2> QED
    BY <1>3, <2>6 DEF SidecarInv
<1>4. CASE rebuilt' = rebuilt /\ sidecar' = sidecar
  BY <1>4 DEF SidecarInv
<1> QED
  BY <1>1, <1>2, <1>3, <1>4 DEF Next, vars, Load, Publish, Notify, Start, StartForced, PassStep,
    Prepare, Choose, EmbedChunk, EmbeddedPage, Build, Wake, BackoffEnds, Answer, GiveUp, Retry,
    DropStale, Crash

-----------------------------------------------------------------------------
(* The pass.                                                                 *)

LEMMA PrepareKeepsPass ==
  ASSUME TypeOK, SidecarInv, PassInv, Prepare, pass' # None
  PROVE  PassInv'
<1> DEFINE ready == LoadChunks(pass.pages, pass.force)
<1>1. pass # None /\ pass \in PassSet /\ pass.pages \in PagesSet /\ pass.force \in BOOLEAN
  BY PassFields DEF Prepare
<1>2. /\ pass' = [pass EXCEPT !.stage = "choose", !.ready = ready, !.todo = Todo(ready)]
      /\ UNCHANGED <<snapshot, sidecar, epoch>>
  BY DEF Prepare, Abandon, Finish
<1>3. IndexFits(pass.pages, ready)
  BY <1>1, LoadChunksFacts
<1>4. pass.force => \A p \in Pages \ Todo(ready) : sidecar[p] = None
  BY DEF Todo
<1> HIDE DEF ready
<1>5. /\ pass'.gen = pass.gen /\ pass'.pages = pass.pages /\ pass'.ready = ready
      /\ pass'.stage = "choose" /\ pass'.force = pass.force /\ pass'.todo = Todo(ready)
  BY <1>1, <1>2 DEF PassSet
<1>6. pass.gen <= snapshot.gen /\ (pass.gen = snapshot.gen => pass.pages = snapshot.pages)
  BY <1>1 DEF PassInv, PassOK
<1> QED
  BY <1>2, <1>3, <1>4, <1>5, <1>6 DEF PassInv, PassOK, Renewed

LEMMA ChooseKeepsPass ==
  ASSUME TypeOK, PassInv, NEW p \in Pages, Choose(p), pass' # None
  PROVE  PassInv'
<1>1. pass # None /\ pass \in PassSet /\ pass.stage = "choose" /\ PassOK(pass)
  BY PassFields DEF Choose, PassInv
<1>2. /\ pass' = [pass EXCEPT !.stage = IF Removes(p) THEN "remove" ELSE "embed",
                              !.todo = pass.todo \ {p}, !.page = p, !.vectors = <<>>,
                              !.pending = FALSE]
      /\ UNCHANGED <<snapshot, sidecar, epoch>>
  BY DEF Choose, Abandon, Finish
<1>3. /\ pass'.gen = pass.gen /\ pass'.pages = pass.pages /\ pass'.ready = pass.ready
      /\ pass'.force = pass.force /\ pass'.todo = pass.todo \ {p} /\ pass'.page = p
      /\ pass'.vectors = <<>> /\ pass'.stage = IF Removes(p) THEN "remove" ELSE "embed"
  BY <1>1, <1>2 DEF PassSet
<1>4. pass'.stage = "embed" => Embedded(pass)'
  <2>1. SUFFICES ASSUME ~ Removes(p) PROVE Embedded(pass)'
    BY <1>3
  <2>2. pass.pages[p] # None
    BY <2>1 DEF Removes
  <2>3. pass.pages[p] \in Texts
    BY <1>1, <2>2 DEF PassSet, PagesSet
  <2>4. Len(pass.pages[p]) \in Nat
    BY <2>3, TextFacts
  <2> QED
    BY <1>3, <2>2, <2>4 DEF Embedded
<1>5. pass.force => Removes(p)
  BY DEF Removes
<1>6. pass.force => Renewed(pass') \subseteq Renewed(pass)
  BY <1>1, <1>3, <1>5 DEF Renewed
<1> QED
  BY <1>1, <1>2, <1>3, <1>4, <1>6 DEF PassInv, PassOK

LEMMA RemoveKeepsPass ==
  ASSUME TypeOK, PassInv, RemoveSidecar, pass' # None
  PROVE  PassInv'
<1> DEFINE p == pass.page
<1>1. pass # None /\ pass \in PassSet /\ pass.stage = "remove" /\ PassOK(pass)
      /\ p \in Pages /\ sidecar \in [Pages -> SidecarSet \cup {None}]
  BY PassFields DEF RemoveSidecar, PassInv, TypeOK
<1>2. /\ pass' = [pass EXCEPT !.stage = IF pass.pages[p] = None THEN "choose" ELSE "embed"]
      /\ sidecar' = [sidecar EXCEPT ![p] = None]
      /\ UNCHANGED <<snapshot, epoch>>
  BY DEF RemoveSidecar
<1>3. /\ pass'.gen = pass.gen /\ pass'.pages = pass.pages /\ pass'.ready = pass.ready
      /\ pass'.force = pass.force /\ pass'.todo = pass.todo /\ pass'.page = p
      /\ pass'.vectors = pass.vectors /\ pass'.pending = pass.pending
      /\ pass'.stage = IF pass.pages[p] = None THEN "choose" ELSE "embed"
  BY <1>1, <1>2 DEF PassSet
<1>4. pass'.stage = "embed" => Embedded(pass)'
  <2>1. SUFFICES ASSUME pass.pages[p] # None PROVE Embedded(pass)'
    BY <1>3
  <2>2. pass.pages[p] \in Texts
    BY <1>1, <2>1 DEF PassSet, PagesSet
  <2>3. Len(pass.pages[p]) \in Nat /\ pass.vectors = <<>>
    BY <1>1, <2>2, TextFacts DEF PassOK
  <2> HIDE DEF p
  <2> QED
    BY <1>3, <2>1, <2>3 DEF Embedded
<1>5. ASSUME NEW q \in Renewed(pass)', sidecar'[q] # None, pass.force
      PROVE  q \in Renewed(pass) /\ sidecar'[q] = sidecar[q]
  BY <1>1, <1>2, <1>3, <1>5 DEF Renewed
<1>6. pass.force => \A q \in Renewed(pass)' :
                      sidecar'[q] # None => Since(sidecar'[q].vectors, epoch)
  BY <1>1, <1>5 DEF PassOK
<1> HIDE DEF p
<1> QED
  BY <1>1, <1>2, <1>3, <1>4, <1>6 DEF PassInv, PassOK

LEMMA EmbedKeepsPass ==
  ASSUME TypeOK, PassInv, EmbedChunk, pass' # None
  PROVE  PassInv'
<1>1. pass # None /\ pass \in PassSet /\ pass.stage = "embed" /\ PassOK(pass)
      /\ pass.vectors \in Vectors /\ pass.pending \in BOOLEAN
  BY PassFields DEF EmbedChunk, PassInv
<1>2. ~ Abandon /\ UNCHANGED <<snapshot, sidecar, epoch>>
  BY DEF EmbedChunk, Abandon, Finish
<1>3. PICK chunk \in Chunks :
        /\ chunk = pass.pages[pass.page][Len(pass.vectors) + 1]
        /\ Vector(chunk) \in VectorSet \cup {None}
        /\ pass' = [pass EXCEPT !.vectors = Append(pass.vectors, Vector(chunk)),
                                !.pending = pass.pending \/ Vector(chunk) = None]
  BY <1>2, EmbedStep
<1>4. /\ pass.pages[pass.page] \in Texts /\ Len(pass.vectors) \in Nat
      /\ Len(pass.vectors) + 1 \in 1 .. Len(pass.pages[pass.page])
  BY <1>2, EmbedStep
<1> DEFINE n == Len(pass.vectors)
           v == Append(pass.vectors, Vector(chunk))
<1>5. /\ pass'.gen = pass.gen /\ pass'.pages = pass.pages /\ pass'.ready = pass.ready
      /\ pass'.force = pass.force /\ pass'.todo = pass.todo /\ pass'.page = pass.page
      /\ pass'.stage = "embed" /\ pass'.vectors = v
      /\ pass'.pending = (pass.pending \/ Vector(chunk) = None)
  BY <1>1, <1>3 DEF PassSet
<1>6. /\ Len(v) = n + 1 /\ v[n + 1] = Vector(chunk)
      /\ \A i \in 1 .. n : v[i] = pass.vectors[i]
  BY <1>1, <1>3, AppendProperties DEF Vectors
<1>7. Vector(chunk) # None => Vector(chunk).of = chunk /\ Vector(chunk).epoch = epoch
  BY DEF Vector
<1> HIDE DEF v
<1>8. Embedded(pass)'
  <2>1. pass.pages[pass.page] # None /\ n + 1 <= Len(pass.pages[pass.page])
    BY <1>1, <1>4, TextFacts DEF PassOK, Embedded
  <2>2. ASSUME NEW i \in 1 .. n + 1
        PROVE  /\ v[i] # None => /\ v[i].of = pass.pages[pass.page][i]
                                 /\ v[i].epoch = epoch
               /\ v[i] = None => pass'.pending
    <3>1. CASE i = n + 1
      BY <1>3, <1>5, <1>6, <1>7, <3>1
    <3>2. CASE i \in 1 .. n
      BY <1>1, <1>5, <1>6, <3>2 DEF PassOK, Embedded
    <3> QED
      BY <1>4, <3>1, <3>2
  <2> HIDE DEF n
  <2> QED
    BY <1>2, <1>5, <1>6, <2>1, <2>2 DEF Embedded
<1>9. pass.force => \A q \in Renewed(pass)' : q \in Renewed(pass)
  BY <1>1, <1>5 DEF Renewed
<1> QED
  BY <1>1, <1>2, <1>5, <1>8, <1>9 DEF PassInv, PassOK

(* The vectors of a page that was gone through fit it. *)
LEMMA EmbeddedFit ==
  ASSUME TypeOK, pass # None, PassOK(pass), pass.stage \in {"embed", "save"},
         Len(pass.vectors) = Len(pass.pages[pass.page])
  PROVE  /\ pass.page \in Pages /\ pass.pages[pass.page] \in Texts
         /\ Fits(pass.vectors, pass.pages[pass.page])
<1>1. /\ pass.pages \in PagesSet /\ pass.vectors \in Vectors
      /\ pass.page \in Pages /\ Embedded(pass)
  BY PassFields DEF PassOK
<1>2. pass.pages[pass.page] \in Texts
  BY <1>1 DEF PagesSet, Embedded
<1>3. DOMAIN pass.pages[pass.page] = 1 .. Len(pass.pages[pass.page])
  BY <1>2, TextFacts
<1>4. DOMAIN pass.vectors = 1 .. Len(pass.vectors)
  BY <1>1 DEF Vectors
<1> QED
  BY <1>1, <1>2, <1>3, <1>4 DEF Fits, Embedded

LEMMA ReadyFits ==
  ASSUME NEW pages, NEW index \in [Pages -> Vectors], IndexFits(pages, index),
         NEW p \in Pages, pages[p] # None, NEW vectors, Fits(vectors, pages[p])
  PROVE  IndexFits(pages, [index EXCEPT ![p] = vectors])
BY DEF IndexFits

LEMMA EmbeddedKeepsPass ==
  ASSUME TypeOK, PassInv, EmbeddedPage, pass' # None
  PROVE  PassInv'
<1>1. /\ pass # None /\ pass \in PassSet /\ pass.stage = "embed" /\ PassOK(pass)
      /\ Len(pass.vectors) = Len(pass.pages[pass.page])
      /\ pass.ready \in [Pages -> Vectors] /\ pass.page \in Pages /\ pass.pages \in PagesSet
  BY PassFields DEF EmbeddedPage, PassInv
<1>2. /\ pass' = IF pass.pending
                 THEN [pass EXCEPT !.stage = "choose", !.incomplete = TRUE,
                                   !.ready[pass.page] = pass.vectors]
                 ELSE [pass EXCEPT !.stage = "save"]
      /\ UNCHANGED <<snapshot, sidecar, epoch>>
  BY DEF EmbeddedPage, Abandon, Finish
<1>3. CASE pass.pending
  <2>1. pass' = [pass EXCEPT !.stage = "choose", !.incomplete = TRUE,
                             !.ready[pass.page] = pass.vectors]
    BY <1>2, <1>3
  <2>2. /\ pass'.gen = pass.gen /\ pass'.pages = pass.pages /\ pass'.stage = "choose"
        /\ pass'.ready = [pass.ready EXCEPT ![pass.page] = pass.vectors]
        /\ pass'.force = pass.force /\ pass'.todo = pass.todo
    BY <1>1, <2>1 DEF PassSet
  <2>3. Fits(pass.vectors, pass.pages[pass.page]) /\ pass.pages[pass.page] # None
    BY <1>1, EmbeddedFit, TextFacts
  <2>4. IndexFits(pass.pages, pass'.ready)
    <3>1. IndexFits(pass.pages, pass.ready)
      BY <1>1 DEF PassOK
    <3>2. pass'.ready = [pass.ready EXCEPT ![pass.page] = pass.vectors]
      BY <2>2
    <3> QED
      BY <1>1, <2>3, <3>1, <3>2 DEF IndexFits
  <2>5. pass.force => \A q \in Renewed(pass)' : q \in Renewed(pass)
    BY <1>1, <2>2 DEF Renewed
  <2> QED
    BY <1>1, <1>2, <2>2, <2>4, <2>5 DEF PassInv, PassOK
<1>4. CASE ~ pass.pending
  <2>1. pass' = [pass EXCEPT !.stage = "save"]
    BY <1>2, <1>4
  <2>2. /\ pass'.gen = pass.gen /\ pass'.pages = pass.pages /\ pass'.stage = "save"
        /\ pass'.ready = pass.ready /\ pass'.force = pass.force /\ pass'.todo = pass.todo
        /\ pass'.vectors = pass.vectors /\ pass'.page = pass.page
        /\ pass'.pending = pass.pending
    BY <1>1, <2>1 DEF PassSet
  <2>3. pass.force => \A q \in Renewed(pass)' : q \in Renewed(pass)
    BY <1>1, <2>2 DEF Renewed
  <2>4. Embedded(pass)'
    BY <1>1, <1>2, <2>2 DEF PassOK, Embedded
  <2> QED
    BY <1>1, <1>2, <1>4, <2>2, <2>3, <2>4 DEF PassInv, PassOK
<1> QED
  BY <1>3, <1>4

LEMMA SaveKeepsPass ==
  ASSUME TypeOK, PassInv, SaveSidecar, pass' # None
  PROVE  PassInv'
<1> DEFINE new == [text |-> pass.pages[pass.page], vectors |-> pass.vectors]
<1>1. /\ pass # None /\ pass \in PassSet /\ pass.stage = "save" /\ PassOK(pass)
      /\ pass.ready \in [Pages -> Vectors] /\ pass.page \in Pages /\ pass.pages \in PagesSet
      /\ sidecar \in [Pages -> SidecarSet \cup {None}]
  BY PassFields DEF SaveSidecar, PassInv, TypeOK
<1>2. /\ pass' = [pass EXCEPT !.stage = "choose", !.ready[pass.page] = pass.vectors]
      /\ sidecar' = [sidecar EXCEPT ![pass.page] = new]
      /\ UNCHANGED <<snapshot, epoch>>
  BY DEF SaveSidecar
<1>3. /\ pass'.gen = pass.gen /\ pass'.pages = pass.pages /\ pass'.stage = "choose"
      /\ pass'.ready = [pass.ready EXCEPT ![pass.page] = pass.vectors]
      /\ pass'.force = pass.force /\ pass'.todo = pass.todo
  BY <1>1, <1>2 DEF PassSet
<1>4. /\ pass.pages[pass.page] \in Texts /\ pass.pages[pass.page] # None
      /\ Fits(pass.vectors, pass.pages[pass.page]) /\ Since(pass.vectors, epoch)
  BY SavedSidecar, TextFacts
<1>5. IndexFits(pass.pages, pass'.ready)
  BY <1>1, <1>3, <1>4, ReadyFits DEF PassOK
<1>6. new.vectors = pass.vectors
  OBVIOUS
<1> HIDE DEF new
<1>7. ASSUME NEW q \in Renewed(pass)', sidecar'[q] # None, pass.force
      PROVE  Since(sidecar'[q].vectors, epoch)
  <2>1. q \in Renewed(pass) /\ q \in Pages
    BY <1>1, <1>3 DEF Renewed
  <2>2. sidecar'[q] = IF q = pass.page THEN new ELSE sidecar[q]
    BY <1>1, <1>2, <2>1
  <2>3. CASE q = pass.page
    BY <1>4, <1>6, <2>2, <2>3
  <2>4. CASE q # pass.page
    BY <1>1, <1>7, <2>1, <2>2, <2>4 DEF PassOK
  <2> QED
    BY <2>3, <2>4
<1> QED
  BY <1>1, <1>2, <1>3, <1>5, <1>7 DEF PassInv, PassOK

LEMMA NewPassOK ==
  ASSUME TypeOK, NEW force \in BOOLEAN, pass' = NewPass(force), snapshot' = snapshot
  PROVE  PassInv'
<1>1. snapshot.gen \in Nat
  BY DEF TypeOK, StateSet
<1> QED
  BY <1>1 DEF NewPass, PassInv, PassOK

(* The steps of others let a pass fall behind, but not work on other pages.  *)
LEMMA OthersKeepPass ==
  ASSUME TypeOK, SnapshotInv, LoadingInv, SidecarInv, PassInv, [Next]_vars,
         UNCHANGED <<pass, sidecar, epoch>>
  PROVE  PassInv'
<1>1. SUFFICES ASSUME pass # None PROVE PassOK(pass)'
  BY DEF PassInv
<1>2. /\ PassOK(pass) /\ pass.gen \in Nat /\ snapshot.gen \in Nat
  BY <1>1, PassFields DEF PassInv, TypeOK, StateSet
<1>3. \/ snapshot'.gen = snapshot.gen /\ snapshot'.pages = snapshot.pages
      \/ snapshot'.gen = snapshot.gen + 1
  BY StateTypes
<1>4. /\ pass.gen <= snapshot'.gen
      /\ pass.gen = snapshot'.gen => pass.pages = snapshot'.pages
  BY <1>2, <1>3 DEF PassOK
<1>5. Embedded(pass)' <=> Embedded(pass)
  BY DEF Embedded
<1> QED
  BY <1>2, <1>4, <1>5 DEF PassOK, Renewed

LEMMA NextPass ==
  ASSUME TypeOK, SnapshotInv, LoadingInv, SidecarInv, PassInv, [Next]_vars
  PROVE  PassInv'
<1>1. CASE pass' = None
  BY <1>1 DEF PassInv
<1>2. CASE pass' # None /\ PassStep
  <2>1. ~ Build
    BY <1>2 DEF Build, Abandon, Finish
  <2> QED
    BY <1>2, <2>1, PrepareKeepsPass, ChooseKeepsPass, RemoveKeepsPass, EmbedKeepsPass,
       EmbeddedKeepsPass, SaveKeepsPass DEF PassStep
<1>3. CASE Start \/ StartForced
  BY <1>3, NewPassOK DEF Start, StartForced
<1>4. CASE UNCHANGED <<pass, sidecar, epoch>>
  BY <1>4, OthersKeepPass
<1> QED
  BY <1>1, <1>2, <1>3, <1>4 DEF Next, vars, Load, Publish, Notify, Wake, BackoffEnds, Answer,
    GiveUp, Retry, DropStale, Crash

-----------------------------------------------------------------------------
(* The invariant.                                                            *)

LEMMA InitIndexInv == Init => IndexInv
<1> SUFFICES ASSUME Init PROVE IndexInv
  OBVIOUS
<1>1. PICK pages \in PagesSet :
        snapshot = [gen |-> 0, pages |-> pages,
                    index |-> [p \in Pages |->
                                IF pages[p] = None THEN <<>> ELSE Missing(pages[p])]]
  BY DEF Init, PagesSet
<1> DEFINE index == [p \in Pages |-> IF pages[p] = None THEN <<>> ELSE Missing(pages[p])]
<1>2. ASSUME NEW p \in Pages
      PROVE  /\ index[p] \in Vectors
             /\ IF pages[p] = None THEN index[p] = <<>> ELSE Fits(index[p], pages[p])
  BY MissingFacts, EmptyVectors DEF PagesSet
<1>3. index \in [Pages -> Vectors] /\ IndexFits(pages, index)
  BY <1>2 DEF IndexFits
<1>4. snapshot.pages = pages /\ snapshot.index = index /\ snapshot \in StateSet
  BY <1>1, <1>3 DEF StateSet
<1> HIDE DEF index
<1>5. /\ loading = None /\ pass = None /\ \A p \in Pages : sidecar[p] = None
  BY DEF Init
<1>6. TypeOK
  <2>1. sidecar \in [Pages -> SidecarSet \cup {None}]
    BY DEF Init
  <2>2. Queue!TypeOK
    BY DEF Init, Queue!Init, Queue!TypeOK, Queue!States
  <2>3. notice = FALSE /\ permit = FALSE /\ maintain = "wanting"
    BY DEF Init
  <2>4. epoch = 0 /\ rebuilt = 0
    BY DEF Init
  <2>5. epoch \in Nat /\ rebuilt \in Nat /\ rebuilt <= epoch
    BY <2>4
  <2> QED
    BY <1>4, <1>5, <2>1, <2>2, <2>3, <2>5 DEF TypeOK
<1> QED
  BY <1>3, <1>4, <1>5, <1>6 DEF IndexInv, SnapshotInv, LoadingInv, SidecarInv, SidecarOK, PassInv

LEMMA NextIndexInv == IndexInv /\ [Next]_vars => IndexInv'
<1> SUFFICES ASSUME IndexInv, [Next]_vars PROVE IndexInv'
  OBVIOUS
<1>1. TypeOK /\ SnapshotInv /\ LoadingInv /\ SidecarInv /\ PassInv
  BY DEF IndexInv
<1>2. TypeOK' /\ SnapshotInv' /\ LoadingInv'
  BY <1>1, NextTypes, StateTypes
<1>3. SidecarInv' /\ PassInv'
  BY <1>1, NextSidecars, NextPass
<1> QED
  BY <1>2, <1>3 DEF IndexInv

THEOREM IndexInvariant == Spec => []IndexInv
<1>1. IndexInv /\ UNCHANGED vars => IndexInv'
  BY NextIndexInv
<1> QED
  BY InitIndexInv, NextIndexInv, PTL DEF Spec

(* States, sidecars and passes have their types, and the maintaining task    *)
(* runs exactly while a pass that is not forced holds the reindex lock.      *)
THEOREM IndexTypes == Spec => []TypeOK
<1>1. IndexInv => TypeOK
  BY DEF IndexInv
<1> QED
  BY <1>1, IndexInvariant, PTL

(* Every vector of the index is that of the chunk it stands beside, and no   *)
(* sidecar of a page as it is now is older than a rebuild that went through. *)
THEOREM VectorsStayWithTheirChunks == Spec => []VectorsBelongToTheirChunks
<1>1. IndexInv => VectorsBelongToTheirChunks
  BY DEF IndexInv, SnapshotInv, SidecarInv, SidecarOK, IndexFits, Fits, Since,
         VectorsBelongToTheirChunks
<1> QED
  BY <1>1, IndexInvariant, PTL
=============================================================================
