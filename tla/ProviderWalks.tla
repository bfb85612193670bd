--------------------------- MODULE ProviderWalks ---------------------------
(***************************************************************************)
(* How doc2md enumerates a provider (notion.py, google_drive.py) while its  *)
(* users go on editing.  Every request sees the provider as it is at that   *)
(* moment, so an enumeration is no snapshot of anything.                     *)
(*                                                                          *)
(* A page is [title, edited]; an edit gives it the current time, which also *)
(* stands for the text it then has.  Notion lists pages in the order of     *)
(* their last edit and goes on after the last one it returned; Drive lists  *)
(* a folder at a time.  Names sort as numbers.                               *)
(***************************************************************************)
EXTENDS Integers, Sequences, FiniteSets, SequencesExt

CONSTANTS Ids,       \* documents, numbers
          Titles,    \* numbers
          Folders,   \* Drive folders, numbers, disjoint from Ids
          Root,      \* the configured root folder
          Parent,    \* Notion: the page a page stands below, or Gone
          Gone       \* no page


Pages == [title: Titles, edited: Nat]

(* The provider: its kind, its pages, and what each Drive folder holds.  A   *)
(* shortcut is one more place that holds its target.                         *)
Sources == [kind: {"notion", "google-docs"}, page: [Ids -> Pages \cup {Gone}],
            holds: [Folders -> SUBSET (Ids \cup Folders)]]

Standing(source) == {d \in Ids : source.page[d] # Gone}

(* A walk: what is listed and not fetched, what is fetched, and the place.   *)
NewWalk(source) ==
    [step |-> "list", cursor |-> 0, listed |-> <<>>, docs |-> <<>>,
     queue |-> IF source.kind = "notion" THEN <<>> ELSE << <<Root, <<>> >> >>,
     seen |-> {}, items |-> <<>>]

Failed(walk) == [walk EXCEPT !.step = "failed"]

(***************************************************************************)
(* Notion: /search page by page, then each page's Markdown.                  *)
(***************************************************************************)
(* Faulty variant: the newest pages first. *)
ListedBefore(cursor, source) ==
    SetToSortSeq({d \in Standing(source) : cursor = 0 \/ source.page[d].edited < cursor},
                 LAMBDA a, b: source.page[a].edited > source.page[b].edited)

(* One answer of /search: the first page edited after the cursor.            *)
ListedAfter(cursor, source) ==
    SetToSortSeq({d \in Standing(source) : source.page[d].edited > cursor},
                 LAMBDA a, b: source.page[a].edited < source.page[b].edited)

ListPages(walk, source) ==
    LET found == ListedAfter(walk.cursor, source) IN
    IF found = <<>>
    THEN [walk EXCEPT !.step = "fetch"]
    ELSE LET page == source.page[found[1]] IN
         [walk EXCEPT !.listed = Append(@, [id |-> found[1], page |-> page]),
                      !.cursor = page.edited,
                      !.step = IF Len(found) = 1 THEN "fetch" ELSE "list"]

(* The titles of the listed ancestors of a page; a listing with a page twice *)
(* keeps the later one, and an ancestor that is not listed ends the chain.   *)
LastListed(walk, d) == SelectLastInSeq(walk.listed, LAMBDA l: l.id = d)
PagePath(walk, d) ==
    LET above[seen \in SUBSET Ids, a \in Ids \cup {Gone}] ==
            IF a \in seen \cup {Gone} \/ LastListed(walk, a) = 0 THEN <<>>
            ELSE Append(above[seen \cup {a}, Parent[a]],
                        walk.listed[LastListed(walk, a)].page.title)
    IN  above[{d}, Parent[d]]

(* Bodies are fetched in the order of the listing; a page that is gone by    *)
(* then aborts the walk.                                                     *)
FetchPage(walk, source) ==
    LET n == Len(walk.docs) + 1
        next == walk.listed[n]
    IN  IF n > Len(walk.listed) THEN [walk EXCEPT !.step = "done"]
        ELSE IF source.page[next.id] = Gone THEN Failed(walk)
        ELSE [walk EXCEPT !.docs =
                 Append(@, [id |-> next.id,
                            path |-> Append(PagePath(walk, next.id), next.page.title),
                            revision |-> next.page.edited,
                            text |-> source.page[next.id].edited])]

(***************************************************************************)
(* Drive: breadth first from the roots, a folder and a document once.        *)
(***************************************************************************)
ItemName(source, e) == IF e \in Folders THEN e ELSE source.page[e].title
ListChildren(source, f) ==
    SetToSortSeq({e \in source.holds[f] : e \in Folders \/ source.page[e] # Gone},
                 LAMBDA a, b: \/ ItemName(source, a) < ItemName(source, b)
                              \/ ItemName(source, a) = ItemName(source, b) /\ a < b)

OpenFolder(walk, source) ==
    IF walk.queue = <<>> THEN [walk EXCEPT !.step = "done"]
    ELSE LET f == walk.queue[1][1]
             path == walk.queue[1][2]
             item(e) == [id |-> e, path |-> path,
                         page |-> IF e \in Folders THEN Gone ELSE source.page[e]]
             children == ListChildren(source, f)
         IN  IF f \in walk.seen
             THEN [walk EXCEPT !.queue = Tail(@)]
             ELSE [walk EXCEPT !.queue = Tail(@), !.seen = @ \cup {f}, !.step = "fetch",
                               !.items = [n \in DOMAIN children |-> item(children[n])]]

(* The next child: a folder waits for its turn, a document is exported now,  *)
(* unless another place already led to it.                                   *)
ExportItem(walk, source) ==
    LET next == walk.items[1]
        rest == [walk EXCEPT !.items = Tail(@),
                             !.step = IF Len(walk.items) = 1 THEN "list" ELSE "fetch"]
    IN  IF walk.items = <<>> THEN [walk EXCEPT !.step = "list"]
        ELSE IF next.id \in Folders
        THEN [rest EXCEPT !.queue = Append(@, <<next.id, Append(next.path, next.id)>>)]
        ELSE IF next.id \in walk.seen THEN rest
        ELSE IF source.page[next.id] = Gone THEN Failed(walk)
        ELSE [rest EXCEPT !.seen = @ \cup {next.id},
                          !.docs = Append(@, [id |-> next.id,
                                              path |-> Append(next.path, next.page.title),
                                              revision |-> next.page.edited,
                                              text |-> source.page[next.id].edited])]

(* What one request of a walk makes of it.                                    *)
Walked(walk, source) ==
    CASE source.kind = "notion" /\ walk.step = "list"       -> ListPages(walk, source)
      [] source.kind = "notion" /\ walk.step = "fetch"      -> FetchPage(walk, source)
      [] source.kind = "google-docs" /\ walk.step = "list"  -> OpenFolder(walk, source)
      [] source.kind = "google-docs" /\ walk.step = "fetch" -> ExportItem(walk, source)
============================================================================
