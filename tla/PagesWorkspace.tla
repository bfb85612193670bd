--------------------------- MODULE PagesWorkspace ---------------------------
(***************************************************************************)
(* A conversion by pages2md (pipeline.py): the private workspace beside    *)
(* the source, with its progress, one checkpoint per page, the raw reads   *)
(* of the optical model, the figures and their manifest, and the Markdown  *)
(* published from it.  A conversion may stop between any two of its        *)
(* writes; between conversions the source is revised, the program that     *)
(* assembles pages is upgraded, and the caller changes the options.        *)
(*                                                                         *)
(* A page of the source holds two pieces of text, its first paragraph      *)
(* ("lead") and the others ("rest").  A read of a page is the sequence of  *)
(* the pages whose text it returned; assembling it gives their pieces.     *)
(***************************************************************************)
EXTENDS Integers, Sequences, FiniteSets, SequencesExt

CONSTANTS
    PageCount,      \* pages of the source
    Versions,       \* contents the source may have
    Codes,          \* versions of the code that assembles pages
    Continuing,     \* pages whose first paragraph continues the page before
    Lengthy,        \* those whose first paragraph has 120 characters or more
    BlankPages,     \* pages without ink
    Figured,        \* [Versions -> the pages with a figure]
    GroupSize,      \* pages read by one call
    MaxConversions  \* bound on the conversions started

Pages == 1..PageCount

ASSUME PagesAssumption ==
    /\ PageCount \in Nat \ {0}
    /\ Lengthy \subseteq Continuing
    /\ Continuing \subseteq 2..PageCount
    /\ BlankPages \subseteq Pages
    /\ Figured \in [Versions -> SUBSET Pages]
    /\ GroupSize \in Nat \ {0}
    /\ MaxConversions \in Nat

VARIABLES
    source,      \* the version of the source file
    code,        \* the installed assembly code
    bundle,      \* the workspace on disk, or NotThere
    target,      \* the published output, or NotThere
    conversion,  \* the conversion under way
    conversions  \* how many were started

pagesVars == <<source, code, bundle, target, conversion, conversions>>

NotThere == [none |-> TRUE]

(***************************************************************************)
(* Text: what a read gives, and what joining pages makes of it.            *)
(***************************************************************************)
Piece(p, part) == <<p, part>>

Pieces(read) ==
    FlattenSeq([i \in 1..Len(read) |->
        <<Piece(read[i], "lead"), Piece(read[i], "rest")>>])

Trails(piece) == piece[2] = "rest" /\ piece[1] + 1 \in Continuing
Leads(piece) == piece[2] = "lead" /\ piece[1] \in Continuing

Trimmed(texts) ==
    [p \in Pages |->
        IF /\ p < PageCount
           /\ texts[p] # <<>> /\ texts[p + 1] # <<>>
           /\ texts[p][Len(texts[p])] = Head(texts[p + 1])
           /\ Head(texts[p + 1])[1] \in Lengthy
        THEN SubSeq(texts[p], 1, Len(texts[p]) - 1)
        ELSE texts[p]]

Moves(texts, p) ==
    /\ p \in 2..PageCount
    /\ texts[p] # <<>> /\ texts[p - 1] # <<>>
    /\ Trails(texts[p - 1][Len(texts[p - 1])])
    /\ Leads(Head(texts[p]))

Joined(texts) ==
    [p \in Pages |->
        (IF Moves(texts, p) THEN Tail(texts[p]) ELSE texts[p])
        \o (IF Moves(texts, p + 1) THEN <<Head(texts[p + 1])>> ELSE <<>>)]

Normalized(texts) == Joined(Trimmed(texts))

(***************************************************************************)
(* What a conversion finds in the workspace.                               *)
(***************************************************************************)
OcrOf(version, guided) == [version |-> version, guided |-> guided]
AssemblyOf(c, guided) == [code |-> c, guided |-> guided]

State(b) == IF b = NotThere THEN NotThere
            ELSE IF b.progress # NotThere THEN b.progress ELSE b.metadata

CompatibleOcr(old, new) ==
    /\ old.version = new.version
    /\ ~(old.guided /\ ~new.guided)

ReusesOcr(b, ocr) ==
    LET state == State(b)
    IN  IF state = NotThere THEN FALSE ELSE CompatibleOcr(state.ocr, ocr)

ResumesPages(b, ocr, assembly, fresh) ==
    /\ ReusesOcr(b, ocr)
    /\ ~fresh
    /\ State(b).status # "opening"
    /\ State(b).assembly = assembly

(* Faulty variant: a checkpoint is taken whatever assembled it.            *)
AnyAssembly(page, assembly) == TRUE

OwnAssembly(page, assembly) == page.assembly = assembly

(* The raw reads of a page must be there to assemble it again.             *)
Reassembles(p) == p \in BlankPages \/ p \in bundle.raw

PageOf(p, read, guided) ==
    [read |-> read, text |-> Pieces(read), figure |-> 0,
     version |-> conversion.version, guided |-> guided,
     assembly |-> conversion.assembly, by |-> conversion.assembly, joined |-> "no"]

(***************************************************************************)
(* Figures are numbered by their place in the manifest's list; the file of *)
(* a number is written again when a number is given again.                 *)
(***************************************************************************)
Picture(version, p) == [version |-> version, page |-> p]

WithFigures(assets, pages) ==
    assets \o SelectSeq(
        [i \in 1..PageCount |-> Picture(conversion.version, i)],
        LAMBDA f : /\ f.page \in pages \cap Figured[conversion.version]
                   /\ ~\E i \in 1..Len(assets) : assets[i] = f)

FilesAfter(files, assets, added) ==
    [k \in DOMAIN files \union Len(assets) + 1..Len(added) |->
        IF k \in Len(assets) + 1..Len(added) THEN added[k] ELSE files[k]]

FigureOf(assets, p) ==
    IF \E i \in 1..Len(assets) : assets[i] = Picture(conversion.version, p)
    THEN CHOOSE i \in 1..Len(assets) : assets[i] = Picture(conversion.version, p)
    ELSE 0

(***************************************************************************)
(* Starting: what the workspace allows is decided from what it says.       *)
(***************************************************************************)
NoConversion == [pc |-> "idle"]

PagesInit ==
    /\ source \in Versions
    /\ code \in Codes
    /\ bundle = NotThere
    /\ target = NotThere
    /\ conversion = NoConversion
    /\ conversions = 0

CheckpointsComplete(b) ==
    b.metadata # NotThere /\ \A p \in Pages : b.pages[p] # NotThere

Verified(b) ==
    /\ b.book # NotThere
    /\ b.metadata # NotThere
    /\ \A p \in Pages :
        /\ p \in BlankPages \/ p \in b.raw
        /\ b.book[p].figure \in 0..Len(b.manifest)
    /\ 1..Len(b.manifest) \subseteq DOMAIN b.files

Finished(b, ocr, assembly, fresh) ==
    /\ ResumesPages(b, ocr, assembly, fresh)
    /\ State(b).status = "complete"
    /\ CheckpointsComplete(b)
    /\ Verified(b)

Convert(guided, fresh, force) ==
    LET ocr == OcrOf(source, guided)
        assembly == AssemblyOf(code, guided)
        reuses == ReusesOcr(bundle, ocr)
    IN  /\ conversion = NoConversion
        /\ conversions < MaxConversions
        /\ conversions' = conversions + 1
        /\ target # NotThere => force
        /\ bundle # NotThere /\ ~reuses => force
        /\ conversion' = [pc |-> IF bundle # NotThere /\ ~reuses THEN "clearing"
                          ELSE IF Finished(bundle, ocr, assembly, fresh)
                               THEN "publishing" ELSE "opening",
                   version |-> source, ocr |-> ocr, assembly |-> assembly,
                   reuses |-> reuses,
                   resumes |-> ResumesPages(bundle, ocr, assembly, fresh),
                   results |-> [p \in Pages |-> NotThere], assets |-> <<>>,
                   unsaved |-> {}, group |-> <<>>, segments |-> <<>>,
                   failed |-> {}, kept |-> FALSE, at |-> 0]
        /\ UNCHANGED <<source, code, bundle, target>>

Clear ==
    /\ conversion.pc = "clearing"
    /\ bundle' = NotThere
    /\ conversion' = [conversion EXCEPT !.pc = "opening"]
    /\ UNCHANGED <<source, code, target, conversions>>

Progress(status) ==
    [ocr |-> conversion.ocr, assembly |-> conversion.assembly, status |-> status]

Open ==
    /\ conversion.pc = "opening"
    /\ bundle' = IF bundle = NotThere
                 THEN [progress |-> Progress("opening"), metadata |-> NotThere,
                       pages |-> [p \in Pages |-> NotThere], raw |-> {},
                       manifest |-> <<>>, files |-> <<>>, book |-> NotThere,
                       cut |-> FALSE]
                 ELSE [bundle EXCEPT !.progress = Progress("opening")]
    /\ conversion' = [conversion EXCEPT !.pc = "resuming"]
    /\ UNCHANGED <<source, code, target, conversions>>

(***************************************************************************)
(* Checkpoints of this assembly are taken as they are; those of another    *)
(* are assembled again from the raw reads.                                 *)
(***************************************************************************)
Resumed == {p \in Pages : /\ conversion.resumes
                          /\ bundle.pages[p] # NotThere
                          /\ OwnAssembly(bundle.pages[p], conversion.assembly)}

Reassembled == {p \in Pages \ Resumed : /\ conversion.reuses
                                        /\ bundle.pages[p] # NotThere
                                        /\ Reassembles(p)}

ReassembledPage(page, figure) ==
    [page EXCEPT !.text = Pieces(page.read), !.figure = figure,
                 !.assembly = conversion.assembly, !.by = conversion.assembly,
                 !.joined = "no"]

Resume ==
    /\ conversion.pc = "resuming"
    /\ LET loaded == IF conversion.reuses THEN bundle.manifest ELSE <<>>
           added == WithFigures(loaded, Reassembled)
           blanks == BlankPages \ (Resumed \union Reassembled)
       IN  /\ conversion' = [conversion EXCEPT
                !.pc = "saving",
                !.assets = added,
                !.unsaved = Reassembled \union blanks,
                !.results = [p \in Pages |->
                    CASE p \in Resumed -> bundle.pages[p]
                      [] p \in Reassembled ->
                            ReassembledPage(bundle.pages[p], FigureOf(added, p))
                      [] p \in blanks ->
                            [PageOf(p, <<>>, FALSE) EXCEPT !.assembly = NotThere]
                      [] OTHER -> NotThere]]
           /\ bundle' = [bundle EXCEPT
                !.progress = Progress("running"),
                !.files = FilesAfter(@, loaded, added)]
    /\ UNCHANGED <<source, code, target, conversions>>

(***************************************************************************)
(* Each page is stored after the manifest its figures are listed in.       *)
(***************************************************************************)
FirstOf(pages) == CHOOSE p \in pages : \A q \in pages : p <= q

(* Faulty variant: the manifest is written only with the book.             *)
ManifestAtTheEnd(manifest, assets) == manifest

KeptManifest(manifest, assets) == assets

StoreManifest ==
    /\ conversion.pc = "saving" /\ conversion.unsaved # {} /\ ~conversion.kept
    /\ bundle' = [bundle EXCEPT !.manifest = KeptManifest(@, conversion.assets)]
    /\ conversion' = [conversion EXCEPT !.kept = TRUE]
    /\ UNCHANGED <<source, code, target, conversions>>

StorePage ==
    /\ conversion.pc = "saving" /\ conversion.unsaved # {} /\ conversion.kept
    /\ LET p == FirstOf(conversion.unsaved)
       IN  /\ bundle' = [bundle EXCEPT !.pages[p] = conversion.results[p]]
           /\ conversion' = [conversion EXCEPT !.unsaved = @ \ {p}, !.kept = FALSE]
    /\ UNCHANGED <<source, code, target, conversions>>

(***************************************************************************)
(* Pages still to read go to the model in groups of consecutive pages.     *)
(* Its answer has a segment for each, or fewer: then a segment holds the   *)
(* text of several pages, and is the read of the first of them.            *)
(***************************************************************************)
ToRead == {p \in Pages : conversion.results[p] = NotThere /\ p \notin conversion.failed}

NextGroup ==
    LET first == FirstOf(ToRead)
        size == CHOOSE n \in 1..GroupSize :
                    /\ first..first + n - 1 \subseteq ToRead
                    /\ \A m \in n + 1..GroupSize :
                        ~(first..first + m - 1 \subseteq ToRead)
    IN  [i \in 1..size |-> first + i - 1]

(* The pages whose text the read of page p holds when a segment starts on  *)
(* each page of starts.                                                    *)
Segment(group, starts, p) ==
    IF p \in starts
    THEN SelectSeq(group, LAMBDA q :
            q >= p /\ ~\E s \in starts : p < s /\ s <= q)
    ELSE <<>>

ReadGroup ==
    /\ conversion.pc = "saving" /\ conversion.unsaved = {} /\ conversion.group = <<>> /\ ToRead # {}
    /\ LET group == NextGroup
       IN  \/ \E starts \in {s \in SUBSET Range(group) : group[1] \in s} :
                /\ bundle' = [bundle EXCEPT !.raw = @ \union Range(group)]
                /\ conversion' = [conversion EXCEPT
                    !.group = group,
                    !.segments = [i \in 1..Len(group) |->
                                    Segment(group, starts, group[i])]]
           \/ /\ conversion' = [conversion EXCEPT !.failed = @ \union Range(group)]
              /\ UNCHANGED bundle
    /\ UNCHANGED <<source, code, target, conversions>>

(* A read that does not hold exactly its page is read again by itself, in  *)
(* detail and then as a page of its own; what it gives replaces a severe   *)
(* read.  When both fail the read stays as it is.                          *)
AssemblePage ==
    /\ conversion.pc = "saving" /\ conversion.unsaved = {} /\ conversion.group # <<>>
    /\ LET p == Head(conversion.group)
           read == Head(conversion.segments)
           added == WithFigures(conversion.assets, {p})
           rest == [conversion EXCEPT !.group = Tail(@), !.segments = Tail(@)]
       IN  \/ \E kept \in {read, <<p>>} :
                /\ conversion' = [rest EXCEPT
                    !.results[p] = [PageOf(p, kept, conversion.ocr.guided) EXCEPT
                                        !.figure = FigureOf(added, p)],
                    !.assets = added,
                    !.unsaved = {p}]
                /\ bundle' = [bundle EXCEPT
                    !.files = FilesAfter(@, conversion.assets, added)]
           \/ /\ conversion' = [rest EXCEPT !.failed = @ \union {p}]
              /\ UNCHANGED bundle
    /\ UNCHANGED <<source, code, target, conversions>>

PagesDone == conversion.pc = "saving" /\ conversion.unsaved = {} /\ conversion.group = <<>> /\ ToRead = {}

FailPages ==
    /\ PagesDone /\ conversion.failed # {}
    /\ bundle' = [bundle EXCEPT !.progress = Progress("failed")]
    /\ conversion' = NoConversion
    /\ UNCHANGED <<source, code, target, conversions>>

(***************************************************************************)
(* The document: pages are joined in memory, stored again one by one, and  *)
(* bound into the book that is verified.                                   *)
(***************************************************************************)
Normalize ==
    /\ PagesDone /\ conversion.failed = {}
    /\ LET texts == Normalized([p \in Pages |-> conversion.results[p].text])
           alike == \E j \in {"no", "yes"} : \A p \in Pages : conversion.results[p].joined = j
       IN  conversion' = [conversion EXCEPT
                !.pc = "rewriting", !.at = 1,
                !.results = [p \in Pages |->
                    [conversion.results[p] EXCEPT
                        !.text = texts[p], !.assembly = conversion.assembly,
                        !.joined = IF alike THEN "yes" ELSE "mixed"]]]
    /\ UNCHANGED <<source, code, bundle, target, conversions>>

RewritePage ==
    /\ conversion.pc = "rewriting"
    /\ bundle' = [bundle EXCEPT !.pages[conversion.at] = conversion.results[conversion.at]]
    /\ conversion' = [conversion EXCEPT !.at = @ + 1,
                          !.pc = IF conversion.at = PageCount THEN "binding" ELSE @]
    /\ UNCHANGED <<source, code, target, conversions>>

Bind ==
    /\ conversion.pc = "binding"
    /\ bundle' = [bundle EXCEPT
            !.book = conversion.results,
            !.manifest = conversion.assets,
            !.metadata = Progress("described"),
            !.progress = Progress("assembled")]
    /\ conversion' = [conversion EXCEPT !.pc = "verifying"]
    /\ UNCHANGED <<source, code, target, conversions>>

Verify ==
    /\ conversion.pc = "verifying"
    /\ \/ /\ Verified(bundle)
          /\ bundle' = [bundle EXCEPT !.progress = Progress("complete")]
          /\ conversion' = [conversion EXCEPT !.pc = "publishing"]
       \/ /\ bundle' = [bundle EXCEPT !.progress = Progress("verification_failed")]
          /\ conversion' = NoConversion
    /\ UNCHANGED <<source, code, target, conversions>>

(***************************************************************************)
(* Publication: one file, or a directory with the figures.  What was       *)
(* published before is removed first.                                      *)
(***************************************************************************)
FiguresShown(book) == {book[p].figure : p \in Pages} \ {0}

Output(form, whole) ==
    [form |-> form, whole |-> whole, stamp |-> conversion.version,
     pages |-> bundle.book, cut |-> bundle.cut,
     shown |-> [p \in Pages |-> IF bundle.book[p].figure = 0 THEN NotThere
                                ELSE bundle.files[bundle.book[p].figure]]]

TearOutput ==
    /\ conversion.pc = "publishing"
    /\ target # NotThere /\ target.form = "directory" /\ target.whole
    /\ target' = [target EXCEPT !.whole = FALSE]
    /\ UNCHANGED <<source, code, bundle, conversion, conversions>>

RemoveOutput ==
    /\ conversion.pc = "publishing"
    /\ target # NotThere
    /\ \/ target.form = "directory" /\ ~target.whole
       \/ target.form = "file" /\ FiguresShown(bundle.book) # {}
    /\ target' = NotThere
    /\ UNCHANGED <<source, code, bundle, conversion, conversions>>

PublishFile ==
    /\ conversion.pc = "publishing"
    /\ FiguresShown(bundle.book) = {}
    /\ target # NotThere => target.form = "file"
    /\ target' = Output("file", TRUE)
    /\ conversion' = NoConversion
    /\ UNCHANGED <<source, code, bundle, conversions>>

CopyDirectory ==
    /\ \/ /\ conversion.pc = "publishing" /\ target = NotThere
          /\ FiguresShown(bundle.book) # {}
          /\ target' = Output("directory", FALSE)
          /\ conversion' = [conversion EXCEPT !.pc = "copying"]
       \/ /\ conversion.pc = "copying"
          /\ target' = Output("directory", TRUE)
          /\ conversion' = NoConversion
    /\ UNCHANGED <<source, code, bundle, conversions>>

(***************************************************************************)
(* An interruption leaves what the conversion was writing.                 *)
(***************************************************************************)
Kept ==
    [pages : SUBSET Pages, book : BOOLEAN,
     progress : {NotThere, bundle.progress}, metadata : {NotThere, bundle.metadata},
     raw : {{}, bundle.raw}, manifest : {<<>>, bundle.manifest}, files : {<<>>, bundle.files}]

Remains(kept) ==
    [bundle EXCEPT !.progress = kept.progress, !.metadata = kept.metadata,
                   !.book = IF kept.book THEN @ ELSE NotThere, !.cut = TRUE,
                   !.pages = [p \in Pages |->
                               IF p \in kept.pages THEN bundle.pages[p] ELSE NotThere],
                   !.raw = kept.raw, !.manifest = kept.manifest, !.files = kept.files]

Interrupt ==
    /\ conversion # NoConversion
    /\ conversion' = NoConversion
    /\ \/ conversion.pc = "clearing" /\ \E kept \in Kept : bundle' = Remains(kept)
       \/ conversion.pc # "clearing" /\ UNCHANGED bundle
    /\ UNCHANGED <<source, code, target, conversions>>

ReviseSource ==
    /\ conversion = NoConversion
    /\ source' \in Versions \ {source}
    /\ UNCHANGED <<code, bundle, target, conversion, conversions>>

Upgrade ==
    /\ conversion = NoConversion
    /\ code' \in Codes \ {code}
    /\ UNCHANGED <<source, bundle, target, conversion, conversions>>

PagesSteps ==
    \/ \E guided, fresh, force \in BOOLEAN : Convert(guided, fresh, force)
    \/ Clear \/ Open \/ Resume
    \/ StoreManifest \/ StorePage \/ ReadGroup \/ AssemblePage
    \/ FailPages \/ Normalize \/ RewritePage \/ Bind \/ Verify
    \/ TearOutput \/ RemoveOutput \/ PublishFile \/ CopyDirectory
    \/ Interrupt
PagesNext == PagesSteps \/ ReviseSource \/ Upgrade

PagesSpec == PagesInit /\ [][PagesNext]_pagesVars

(***************************************************************************)
(* What is published.                                                      *)
(***************************************************************************)
Published == target # NotThere /\ target.whole

(* A book is of one source, the one it is stamped with, and of one         *)
(* assembly; no read guided by the text of the file is in a book made      *)
(* without it (pipeline.py _compatible_ocr_fingerprint and the checkpoint  *)
(* comparison).  The last is not so for a workspace whose removal was      *)
(* interrupted: it may have lost its progress and kept the metadata of an  *)
(* earlier, unguided book beside guided reads.                             *)
PagesAreOfOneConversion ==
    Published => \A p, q \in Pages :
        LET page == target.pages[p]
            other == target.pages[q]
        IN  /\ page.version = target.stamp
            /\ page.by = other.by
            /\ target.cut \/ (page.guided => other.by.guided)

(* Every page's text is published once, in order, and every figure shown   *)
(* is its page's own.                                                      *)
WholeText ==
    FlattenSeq([p \in Pages |-> IF p \in BlankPages THEN <<>> ELSE Pieces(<<p>>)])

PublishedTextIsWhole ==
    Published /\ (\A p \in Pages : target.pages[p].joined # "mixed"
                                  /\ (p \in BlankPages \/ target.pages[p].read = <<p>>)) =>
        /\ FlattenSeq([p \in Pages |-> target.pages[p].text]) = WholeText
        /\ target.cut \/ \A p \in Pages :
            target.shown[p] = IF p \in Figured[target.stamp] \ BlankPages
                              THEN Picture(target.stamp, p) ELSE NotThere

(* What the workspace is for, "so an interrupted run can resume"           *)
(* (src/pages2md/README.md:249): every page read well, no paragraph of the *)
(* source is missing from what is published, however often the conversion  *)
(* was interrupted.  tests/test_regions.py:437 checks it for one run.  It  *)
(* does not hold: a page stored before the pages were joined and one       *)
(* stored after have the same assembly, and are resumed together.          *)
InterruptedRunsResume ==
    Published /\ (\A p \in Pages \ BlankPages : target.pages[p].read = <<p>>) =>
        \A i \in 1..Len(WholeText) :
            \E p \in Pages : \E j \in 1..Len(target.pages[p].text) :
                target.pages[p].text[j] = WholeText[i]
=============================================================================
