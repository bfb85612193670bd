----------------------------- MODULE MCDocSync -----------------------------
EXTENDS DocSync

MCParent == [d \in Ids |-> IF d = 2 THEN 1 ELSE Gone]

MCPages == [d \in Ids |-> [title |-> 1, edited |-> d]]
NotionSource == [kind |-> "notion", page |-> MCPages, holds |-> [f \in Folders |-> {}]]
OnePage == [NotionSource EXCEPT !.page[2] = Gone]
DriveSource == [kind |-> "google-docs", page |-> MCPages,
                holds |-> [f \in Folders |-> IF f = Root THEN {1, 8} ELSE {1, 2, Root}]]

MCSyncs ==
    { [mode |-> "directory", source |-> NotionSource, edits |-> 2, runs |-> 2, faults |-> 1, foreign |-> 0],
      [mode |-> "directory", source |-> DriveSource, edits |-> 2, runs |-> 2, faults |-> 1, foreign |-> 0],
      [mode |-> "git", source |-> OnePage, edits |-> 1, runs |-> 2, faults |-> 1, foreign |-> 1] }
============================================================================
