------------------------------ MODULE WorkspacesProofs ------------------------------
(***************************************************************************)
(* Two workspaces, the local changes of a browser tab and the files of a   *)
(* conversion; and one call of the optical model in a conversion.          *)
(*                                                                         *)
(* The tab.  For each path, what was typed, or put there by a creation     *)
(* that started the draft over (Held), is in a draft over the text it is   *)
(* based on, and differs from that text (PathOK); reconciliation,          *)
(* whichever text it is with, either leaves a change alone, drops it as    *)
(* done, or moves it onto that text (Rebased), and what was typed lapses   *)
(* where the server is known to hold it (Lapsed).  That a success may drop *)
(* every local change needs one fact more: while a submission is under     *)
(* way, its batch has a change of each path that has one (Sent).           *)
(***************************************************************************)
EXTENDS WebWorkspace, PagesWorkspace, PageDecoding,
        FiniteSetTheorems, WellFoundedInduction, TLAPS

-----------------------------------------------------------------------------
(* The workspace of a tab.                                                   *)

(* One path: its draft and deletion, and what was typed. *)
PathOK(draft, deletion, t) ==
  /\ deletion # None => \A r \in Regions : t[r] = None
  /\ deletion = None => \A r \in Regions :
       /\ t[r] # None => draft # None /\ draft.text[r] = t[r]
       /\ draft # None /\ draft.base # Absent =>
            /\ draft.text[r] \in {draft.base[r], t[r]}
            /\ draft.base[r] # t[r]

(* A submission holds every local change there is. *)
Sent(w, s) ==
  s # None => \A p \in Paths :
    w.drafts[p] # None \/ w.deletions[p] # None =>
      s.batch[p].delete # None \/ s.batch[p].draft # None

-----------------------------------------------------------------------------
(* What reconciliation with a text of the server makes of a local change:    *)
(* nothing, as there is none or it conflicts; it is done already; or it      *)
(* becomes a change of that text.                                            *)
Rebased(d, del, nd, ndel, arrived) ==
  \/ nd = d /\ ndel = del
  \/ del # None /\ nd = None /\ ndel = None
  \/ /\ del = None /\ ndel = None /\ d # None /\ arrived \in Text
     /\ \/ d.text = arrived /\ nd = None
        \/ /\ d.base \in Text
           /\ \A r \in Regions : Merges(d.base, d.text, arrived, r)
           /\ nd = IF Merged(d.base, d.text, arrived) = arrived THEN None
                   ELSE [base |-> arrived, text |-> Merged(d.base, d.text, arrived)]

(* What was typed lapses where the known text holds it. *)
Lapsed(t, nt, d, arrived) ==
  LET known == IF d # None THEN d.base ELSE arrived
  IN  \A r \in Regions :
        nt[r] = IF known \notin {None, Absent} /\ known[r] = t[r] THEN None ELSE t[r]

TypedType == [Paths -> [Regions -> Values \cup {Blank, None}]]

LEMMA TextValues ==
  ASSUME NEW x \in Text, NEW r \in Regions
  PROVE  x[r] \in Values \cup {Blank} /\ x[r] # None /\ x # None /\ x # Absent
BY WorkspaceAssumption DEF Text, Doc

LEMMA MergedIsText ==
  ASSUME NEW a \in Text, NEW b \in Text, NEW c \in Text
  PROVE  Merged(a, b, c) \in Text
BY DEF Merged, Text

(* An unchanged change. *)
LEMMA UnchangedKeepsPath ==
  ASSUME NEW d \in DraftSet \cup {None}, NEW del, NEW t, NEW nt, NEW arrived,
         PathOK(d, del, t), Lapsed(t, nt, d, arrived)
  PROVE  PathOK(d, del, nt)
<1>1. CASE del # None
  BY <1>1 DEF PathOK, Lapsed
<1>2. CASE del = None
  <2>1. ASSUME NEW r \in Regions, nt[r] # None
        PROVE  d # None /\ d.text[r] = nt[r]
    <3>1. nt[r] = t[r]
      BY <2>1 DEF Lapsed
    <3> QED
      BY <1>2, <2>1, <3>1 DEF PathOK
  <2>2. ASSUME NEW r \in Regions, d # None, d.base # Absent
        PROVE  d.text[r] \in {d.base[r], nt[r]} /\ d.base[r] # nt[r]
    <3>1. d.base \in Text /\ d.base # None
      BY <2>2, TextValues DEF DraftSet, Doc
    <3>2. d.text[r] \in {d.base[r], t[r]} /\ d.base[r] # t[r]
      BY <1>2, <2>2 DEF PathOK
    <3>3. nt[r] = t[r]
      BY <2>2, <3>1, <3>2 DEF Lapsed
    <3> QED
      BY <3>2, <3>3
  <2> QED
    BY <1>2, <2>1, <2>2 DEF PathOK
<1> QED
  BY <1>1, <1>2

LEMMA RebasedKeepsPath ==
  ASSUME NEW d \in DraftSet \cup {None}, NEW del, NEW nd, NEW ndel, NEW t, NEW nt,
         NEW arrived, PathOK(d, del, t), Rebased(d, del, nd, ndel, arrived),
         Lapsed(t, nt, nd, arrived)
  PROVE  PathOK(nd, ndel, nt)
<1>1. CASE nd = d /\ ndel = del
  BY <1>1, UnchangedKeepsPath
<1>2. CASE del # None /\ nd = None /\ ndel = None
  <2>1. \A r \in Regions : nt[r] = None
    BY <1>2 DEF PathOK, Lapsed
  <2> QED
    BY <1>2, <2>1 DEF PathOK
<1>3. CASE /\ del = None /\ ndel = None /\ d # None /\ arrived \in Text
           /\ d.text = arrived /\ nd = None
  <2>1. ASSUME NEW r \in Regions PROVE nt[r] = None
    BY <1>3, TextValues DEF PathOK, Lapsed
  <2> QED
    BY <1>3, <2>1 DEF PathOK
<1>4. CASE /\ del = None /\ ndel = None /\ d # None /\ arrived \in Text
           /\ d.base \in Text
           /\ \A r \in Regions : Merges(d.base, d.text, arrived, r)
           /\ nd = IF Merged(d.base, d.text, arrived) = arrived THEN None
                   ELSE [base |-> arrived, text |-> Merged(d.base, d.text, arrived)]
  <2> DEFINE m == Merged(d.base, d.text, arrived)
  <2>1. ASSUME NEW r \in Regions
        PROVE  /\ nt[r] = IF arrived[r] = t[r] THEN None ELSE t[r]
               /\ t[r] # None => d.text[r] = t[r]
               /\ d.text[r] \in {d.base[r], t[r]} /\ d.base[r] # t[r]
               /\ m[r] = IF d.text[r] = d.base[r] THEN arrived[r] ELSE d.text[r]
               /\ arrived[r] # None
    <3>1. arrived # None /\ arrived # Absent /\ d.base # Absent /\ arrived[r] # None
      BY <1>4, TextValues
    <3>2. nd # None => nd.base = arrived
      BY <1>4
    <3> QED
      BY <1>4, <2>1, <3>1, <3>2 DEF PathOK, Lapsed, Merged
  <2>2. CASE m = arrived
    <3>1. nd = None
      BY <1>4, <2>2
    <3>2. ASSUME NEW r \in Regions PROVE nt[r] = None
      BY <2>1, <2>2
    <3> QED
      BY <1>4, <3>1, <3>2 DEF PathOK
  <2>3. CASE m # arrived
    <3>1. nd.base = arrived /\ nd.text = m
      BY <1>4, <2>3
    <3>2. nd # None
      <4>1. d.text \in Text
        BY <1>4 DEF DraftSet
      <4>2. m \in Text
        BY <1>4, <4>1, MergedIsText
      <4>3. nd \in DraftSet
        BY <1>4, <2>3, <4>2 DEF DraftSet, Doc
      <4> QED
        BY <4>3, WorkspaceAssumption
    <3> HIDE DEF m
    <3>3. ASSUME NEW r \in Regions
          PROVE  /\ nt[r] # None => m[r] = nt[r]
                 /\ m[r] \in {arrived[r], nt[r]} /\ arrived[r] # nt[r]
      BY <2>1
    <3> QED
      BY <1>4, <3>1, <3>2, <3>3 DEF PathOK
  <2> QED
    BY <2>2, <2>3
<1> QED
  BY <1>1, <1>2, <1>3, <1>4 DEF Rebased

-----------------------------------------------------------------------------
(* Reconciling one page.                                                     *)

LEMMA WorkspaceFields ==
  ASSUME NEW w \in WorkspaceSet, NEW p \in Paths
  PROVE  /\ w.drafts[p] \in DraftSet \cup {None} /\ w.deletions[p] \in Text \cup {None}
         /\ w.pages[p] \in Doc \cup {None} /\ w.conflicts[p] \in ConflictSet \cup {None}
         /\ w.drafts[p] # None => /\ w.drafts[p] \in DraftSet
                                  /\ w.drafts[p].base \in Doc /\ w.drafts[p].text \in Text
         /\ LocalVersion(w, p) \in Doc \cup {None}
<1>1. w.drafts[p] \in DraftSet \cup {None} /\ w.deletions[p] \in Text \cup {None}
      /\ w.pages[p] \in Doc \cup {None} /\ w.conflicts[p] \in ConflictSet \cup {None}
  BY DEF WorkspaceSet
<1>2. w.drafts[p] # None => /\ w.drafts[p] \in DraftSet
                            /\ w.drafts[p].base \in Doc /\ w.drafts[p].text \in Text
  BY <1>1 DEF DraftSet
<1> QED
  BY <1>1, <1>2 DEF LocalVersion, Doc

(* A page, a draft, a deletion and a conflict are put at one path. *)
Put(w, p, arrived, draft, deletion, conflict) ==
  [w EXCEPT !.pages[p] = arrived, !.conflicts[p] = conflict, !.drafts[p] = draft,
            !.deletions[p] = deletion]

LEMMA PutFacts ==
  ASSUME NEW w \in WorkspaceSet, NEW p \in Paths, NEW arrived \in Doc \cup {None},
         NEW draft \in DraftSet \cup {None}, NEW deletion \in Text \cup {None},
         NEW conflict \in ConflictSet \cup {None},
         NEW v, v = Put(w, p, arrived, draft, deletion, conflict)
  PROVE  /\ v \in WorkspaceSet
         /\ v.pages = [w.pages EXCEPT ![p] = arrived]
         /\ v.drafts = [w.drafts EXCEPT ![p] = draft]
         /\ v.deletions = [w.deletions EXCEPT ![p] = deletion]
         /\ v.conflicts = [w.conflicts EXCEPT ![p] = conflict]
BY DEF Put, WorkspaceSet

(* What ReconcilePage makes of a conflict. *)
Conflicted(w, p, arrived, conflict) ==
  [[w EXCEPT !.pages[p] = arrived, !.conflicts[p] = None] EXCEPT !.conflicts[p] = conflict]

LEMMA ConflictIsPut ==
  ASSUME NEW w \in WorkspaceSet, NEW p \in Paths, NEW arrived \in Doc,
         NEW conflict \in ConflictSet
  PROVE  Conflicted(w, p, arrived, conflict)
         = Put(w, p, arrived, w.drafts[p], w.deletions[p], conflict)
<1> DEFINE u == [w EXCEPT !.pages[p] = arrived, !.conflicts[p] = None]
           v == [u EXCEPT !.conflicts[p] = conflict]
           x == Put(w, p, arrived, w.drafts[p], w.deletions[p], conflict)
<1>1. /\ u \in WorkspaceSet
      /\ u.pages = [w.pages EXCEPT ![p] = arrived] /\ u.drafts = w.drafts
      /\ u.deletions = w.deletions /\ u.conflicts = [w.conflicts EXCEPT ![p] = None]
  BY DEF WorkspaceSet
<1> HIDE DEF u
<1>2. /\ v \in WorkspaceSet
      /\ v.pages = u.pages /\ v.drafts = u.drafts
      /\ v.deletions = u.deletions /\ v.conflicts = [u.conflicts EXCEPT ![p] = conflict]
  BY <1>1 DEF WorkspaceSet
<1>3. [[w.conflicts EXCEPT ![p] = None] EXCEPT ![p] = conflict]
        = [w.conflicts EXCEPT ![p] = conflict]
  OBVIOUS
<1>4. [w.drafts EXCEPT ![p] = w.drafts[p]] = w.drafts
      /\ [w.deletions EXCEPT ![p] = w.deletions[p]] = w.deletions
  BY DEF WorkspaceSet
<1>5. w.drafts[p] \in DraftSet \cup {None} /\ w.deletions[p] \in Text \cup {None}
      /\ arrived \in Doc \cup {None} /\ conflict \in ConflictSet \cup {None}
  BY WorkspaceFields
<1>6. /\ x \in WorkspaceSet
      /\ x.pages = [w.pages EXCEPT ![p] = arrived]
      /\ x.drafts = w.drafts /\ x.deletions = w.deletions
      /\ x.conflicts = [w.conflicts EXCEPT ![p] = conflict]
  <2>1. /\ x \in WorkspaceSet
        /\ x.pages = [w.pages EXCEPT ![p] = arrived]
        /\ x.drafts = [w.drafts EXCEPT ![p] = w.drafts[p]]
        /\ x.deletions = [w.deletions EXCEPT ![p] = w.deletions[p]]
        /\ x.conflicts = [w.conflicts EXCEPT ![p] = conflict]
    <3> DEFINE ds == w.drafts[p]
               de == w.deletions[p]
    <3>1. ds \in DraftSet \cup {None} /\ de \in Text \cup {None}
      BY <1>5
    <3>2. x = Put(w, p, arrived, ds, de, conflict)
      BY DEF x
    <3> HIDE DEF x, ds, de
    <3>3. /\ x \in WorkspaceSet
          /\ x.pages = [w.pages EXCEPT ![p] = arrived]
          /\ x.drafts = [w.drafts EXCEPT ![p] = ds]
          /\ x.deletions = [w.deletions EXCEPT ![p] = de]
          /\ x.conflicts = [w.conflicts EXCEPT ![p] = conflict]
      BY <1>5, <3>1, <3>2, PutFacts
    <3> QED
      BY <3>3 DEF ds, de
  <2> QED
    BY <1>4, <2>1
<1> HIDE DEF v, x
<1>7. v = x
  BY <1>1, <1>2, <1>3, <1>6 DEF WorkspaceSet
<1> QED
  BY <1>7 DEF u, v, x, Conflicted

LEMMA SameFields ==
  ASSUME NEW v \in WorkspaceSet, NEW x \in WorkspaceSet, v.pages = x.pages,
         v.drafts = x.drafts, v.deletions = x.deletions, v.conflicts = x.conflicts
  PROVE  v = x
BY DEF WorkspaceSet

LEMMA SettledIsPut ==
  ASSUME NEW w \in WorkspaceSet, NEW p \in Paths, NEW arrived \in Doc
  PROVE  [w EXCEPT !.pages[p] = arrived, !.conflicts[p] = None]
         = Put(w, p, arrived, w.drafts[p], w.deletions[p], None)
<1> DEFINE v == [w EXCEPT !.pages[p] = arrived, !.conflicts[p] = None]
           x == Put(w, p, arrived, w.drafts[p], w.deletions[p], None)
<1>1. /\ v \in WorkspaceSet
      /\ v.pages = [w.pages EXCEPT ![p] = arrived] /\ v.drafts = w.drafts
      /\ v.deletions = w.deletions /\ v.conflicts = [w.conflicts EXCEPT ![p] = None]
  BY DEF WorkspaceSet
<1> HIDE DEF v
<1>2. w.drafts[p] \in DraftSet \cup {None} /\ w.deletions[p] \in Text \cup {None}
  BY WorkspaceFields
<1>3. /\ x \in WorkspaceSet
      /\ x.pages = [w.pages EXCEPT ![p] = arrived]
      /\ x.drafts = [w.drafts EXCEPT ![p] = w.drafts[p]]
      /\ x.deletions = [w.deletions EXCEPT ![p] = w.deletions[p]]
      /\ x.conflicts = [w.conflicts EXCEPT ![p] = None]
  BY <1>2 DEF Put, WorkspaceSet
<1> HIDE DEF x
<1>4. [w.drafts EXCEPT ![p] = w.drafts[p]] = w.drafts
      /\ [w.deletions EXCEPT ![p] = w.deletions[p]] = w.deletions
  BY DEF WorkspaceSet
<1>5. v = x
  BY <1>1, <1>3, <1>4, SameFields
<1> QED
  BY <1>5 DEF v, x

(* The local change that is left of a resolved conflict. *)
ResolvedDraft(arrived, text) ==
  IF text \notin {Absent, arrived} THEN [base |-> arrived, text |-> text] ELSE None
ResolvedDeletion(arrived, text) == IF text = Absent /\ arrived # Absent THEN arrived ELSE None

LEMMA ResolvedTypes ==
  ASSUME NEW arrived \in Doc, NEW text \in Doc
  PROVE  /\ ResolvedDraft(arrived, text) \in DraftSet \cup {None}
         /\ ResolvedDeletion(arrived, text) \in Text \cup {None}
<1>1. (text # Absent => text \in Text) /\ (arrived # Absent => arrived \in Text)
  BY DEF Doc
<1>2. text \notin {Absent, arrived} => [base |-> arrived, text |-> text] \in DraftSet
  BY <1>1 DEF DraftSet
<1> QED
  BY <1>1, <1>2 DEF ResolvedDraft, ResolvedDeletion

LEMMA ResolveIsPut ==
  ASSUME NEW w \in WorkspaceSet, NEW p \in Paths, NEW arrived \in Doc, NEW text \in Doc
  PROVE  ResolvePage(w, p, arrived, text)
         = Put(w, p, arrived, ResolvedDraft(arrived, text), ResolvedDeletion(arrived, text), None)
BY DEF ResolvePage, Put, ResolvedDraft, ResolvedDeletion

LEMMA PutTwice ==
  ASSUME NEW w \in WorkspaceSet, NEW p \in Paths, NEW arrived \in Doc,
         NEW d0 \in DraftSet \cup {None}, NEW del0 \in Text \cup {None},
         NEW d \in DraftSet \cup {None}, NEW del \in Text \cup {None}
  PROVE  Put(Put(w, p, arrived, d0, del0, None), p, arrived, d, del, None)
         = Put(w, p, arrived, d, del, None)
<1> DEFINE u == Put(w, p, arrived, d0, del0, None)
           v == Put(u, p, arrived, d, del, None)
           x == Put(w, p, arrived, d, del, None)
<1>1. /\ u \in WorkspaceSet /\ u.pages = [w.pages EXCEPT ![p] = arrived]
      /\ u.drafts = [w.drafts EXCEPT ![p] = d0]
      /\ u.deletions = [w.deletions EXCEPT ![p] = del0]
      /\ u.conflicts = [w.conflicts EXCEPT ![p] = None]
  BY DEF Put, WorkspaceSet
<1> HIDE DEF u
<1>2. /\ v \in WorkspaceSet /\ v.pages = [u.pages EXCEPT ![p] = arrived]
      /\ v.drafts = [u.drafts EXCEPT ![p] = d]
      /\ v.deletions = [u.deletions EXCEPT ![p] = del]
      /\ v.conflicts = [u.conflicts EXCEPT ![p] = None]
  BY <1>1 DEF Put, WorkspaceSet
<1> HIDE DEF v
<1>3. /\ x \in WorkspaceSet /\ x.pages = [w.pages EXCEPT ![p] = arrived]
      /\ x.drafts = [w.drafts EXCEPT ![p] = d]
      /\ x.deletions = [w.deletions EXCEPT ![p] = del]
      /\ x.conflicts = [w.conflicts EXCEPT ![p] = None]
  BY DEF Put, WorkspaceSet
<1> HIDE DEF x
<1>4. v.pages = x.pages /\ v.drafts = x.drafts
  BY <1>1, <1>2, <1>3
<1>5. v.deletions = x.deletions /\ v.conflicts = x.conflicts
  BY <1>1, <1>2, <1>3
<1>6. v = x
  BY <1>2, <1>3, <1>4, <1>5, SameFields
<1> QED
  BY <1>6 DEF u, v, x

(* What ReconcilePage makes of a change that can be resolved. *)
LEMMA ResolvedPageIsPut ==
  ASSUME NEW w \in WorkspaceSet, NEW p \in Paths, NEW arrived \in Doc, NEW text \in Doc
  PROVE  ResolvePage([w EXCEPT !.pages[p] = arrived, !.conflicts[p] = None], p, arrived, text)
         = Put(w, p, arrived, ResolvedDraft(arrived, text), ResolvedDeletion(arrived, text), None)
<1> DEFINE next == [w EXCEPT !.pages[p] = arrived, !.conflicts[p] = None]
           d == ResolvedDraft(arrived, text)
           del == ResolvedDeletion(arrived, text)
<1>1. next = Put(w, p, arrived, w.drafts[p], w.deletions[p], None)
  BY SettledIsPut
<1>2. next \in WorkspaceSet
  BY DEF WorkspaceSet
<1> HIDE DEF next
<1>3. w.drafts[p] \in DraftSet \cup {None} /\ w.deletions[p] \in Text \cup {None}
  BY WorkspaceFields
<1>4. d \in DraftSet \cup {None} /\ del \in Text \cup {None}
  BY ResolvedTypes
<1>5. ResolvePage(next, p, arrived, text) = Put(next, p, arrived, d, del, None)
  BY <1>2, ResolveIsPut
<1> HIDE DEF d, del
<1>6. Put(next, p, arrived, d, del, None) = Put(w, p, arrived, d, del, None)
  <2> DEFINE d0 == w.drafts[p]
             del0 == w.deletions[p]
  <2>1. next = Put(w, p, arrived, d0, del0, None)
    BY <1>1
  <2>2. d0 \in DraftSet \cup {None} /\ del0 \in Text \cup {None}
    BY <1>3
  <2> HIDE DEF d0, del0
  <2>3. Put(Put(w, p, arrived, d0, del0, None), p, arrived, d, del, None)
          = Put(w, p, arrived, d, del, None)
    BY <1>4, <2>2, PutTwice
  <2> QED
    BY <2>1, <2>3
<1> QED
  BY <1>5, <1>6 DEF d, del, next

LEMMA ReconcileFacts ==
  ASSUME NEW w \in WorkspaceSet, NEW p \in Paths, NEW arrived \in Doc
  PROVE  \E draft \in DraftSet \cup {None}, deletion \in Text \cup {None},
            conflict \in ConflictSet \cup {None} :
           /\ ReconcilePage(w, p, arrived) = Put(w, p, arrived, draft, deletion, conflict)
           /\ Rebased(w.drafts[p], w.deletions[p], draft, deletion, arrived)
           /\ draft = w.drafts[p] \/ draft = None \/ draft.text # draft.base
<1> DEFINE d == w.drafts[p]
           del == w.deletions[p]
           local == LocalVersion(w, p)
           base == IF local = Absent THEN del ELSE d.base
           Found(draft, deletion, conflict) ==
             /\ ReconcilePage(w, p, arrived) = Put(w, p, arrived, draft, deletion, conflict)
             /\ Rebased(d, del, draft, deletion, arrived)
             /\ draft = d \/ draft = None \/ draft.text # draft.base
<1>1. /\ d \in DraftSet \cup {None} /\ del \in Text \cup {None}
      /\ d # None => d \in DraftSet /\ d.base \in Doc /\ d.text \in Text
      /\ local \in Doc \cup {None}
  BY WorkspaceFields
<1>2. None \notin Doc /\ Absent \notin Text /\ Absent \in Doc /\ Text \subseteq Doc
      /\ None \in DraftSet \cup {None} /\ None \in Text \cup {None}
      /\ None \in ConflictSet \cup {None} /\ None # Absent
  BY WorkspaceAssumption DEF Doc
<1>3. CASE local = None \/ base = arrived
  <2>1. ReconcilePage(w, p, arrived) = [w EXCEPT !.pages[p] = arrived, !.conflicts[p] = None]
    BY <1>3 DEF ReconcilePage
  <2>2. [w EXCEPT !.pages[p] = arrived, !.conflicts[p] = None] = Put(w, p, arrived, d, del, None)
    BY SettledIsPut
  <2> QED
    BY <1>1, <1>2, <2>1, <2>2 DEF Rebased
<1>4. CASE ~(local = None \/ base = arrived) /\ local = arrived
  <2>1. ReconcilePage(w, p, arrived) = Put(w, p, arrived, None, None, None)
    <3>1. ReconcilePage(w, p, arrived) =
            ResolvePage([w EXCEPT !.pages[p] = arrived, !.conflicts[p] = None], p, arrived, arrived)
      BY <1>4 DEF ReconcilePage
    <3>2. ResolvedDraft(arrived, arrived) = None /\ ResolvedDeletion(arrived, arrived) = None
      BY DEF ResolvedDraft, ResolvedDeletion
    <3> QED
      BY <3>1, <3>2, ResolvedPageIsPut
  <2>2. Rebased(d, del, None, None, arrived)
    BY <1>1, <1>2, <1>4 DEF Rebased, LocalVersion
  <2> QED
    BY <1>2, <2>1, <2>2
<1>5. CASE ~(local = None \/ base = arrived) /\ local # arrived /\ Mergeable(base, local, arrived)
  <2> DEFINE m == Merged(base, local, arrived)
             draft == IF m = arrived THEN None ELSE [base |-> arrived, text |-> m]
  <2>1. del = None /\ d # None /\ local = d.text /\ base = d.base
        /\ base \in Text /\ local \in Text /\ arrived \in Text
        /\ \A r \in Regions : Merges(base, local, arrived, r)
    BY <1>1, <1>2, <1>5 DEF LocalVersion, Mergeable, Doc
  <2>2. m \in Text
    BY <2>1, MergedIsText
  <2>3. draft \in DraftSet \cup {None}
    BY <2>2 DEF DraftSet, Doc
  <2> HIDE DEF local, base
  <2>4. ReconcilePage(w, p, arrived) =
          ResolvePage([w EXCEPT !.pages[p] = arrived, !.conflicts[p] = None], p, arrived, m)
    BY <1>5 DEF ReconcilePage, local, base
  <2> HIDE DEF m
  <2>5. m # Absent
    BY <1>2, <2>2
  <2>6. ResolvePage([w EXCEPT !.pages[p] = arrived, !.conflicts[p] = None], p, arrived, m)
          = Put(w, p, arrived, draft, None, None)
    <3>1. m \in Doc
      BY <1>2, <2>2
    <3>2. ResolvedDraft(arrived, m) = draft /\ ResolvedDeletion(arrived, m) = None
      BY <2>5 DEF ResolvedDraft, ResolvedDeletion
    <3> HIDE DEF draft
    <3> QED
      BY <3>1, <3>2, ResolvedPageIsPut
  <2>7. Rebased(d, del, draft, None, arrived)
    BY <2>1 DEF Rebased, m
  <2> QED
    BY <1>2, <2>3, <2>4, <2>6, <2>7
<1>6. CASE /\ ~(local = None \/ base = arrived) /\ local # arrived
           /\ ~ Mergeable(base, local, arrived)
  <2> DEFINE conflict == [base |-> base, local |-> local, server |-> arrived]
  <2>1. base \in Doc /\ local \in Doc
    BY <1>1, <1>2, <1>6 DEF LocalVersion
  <2>2. conflict \in ConflictSet
    BY <2>1 DEF ConflictSet
  <2>3. ReconcilePage(w, p, arrived) = Conflicted(w, p, arrived, conflict)
    BY <1>6 DEF ReconcilePage, Conflicted
  <2> HIDE DEF conflict, local, base
  <2>4. ReconcilePage(w, p, arrived) = Put(w, p, arrived, d, del, conflict)
    BY <2>2, <2>3, ConflictIsPut
  <2> QED
    BY <1>1, <1>2, <2>2, <2>4 DEF Rebased
<1> QED
  BY <1>3, <1>4, <1>5, <1>6

(* The local changes and what was typed. *)
LocalOK(w, t) ==
  /\ w \in WorkspaceSet
  /\ \A p \in Paths : w.drafts[p] # None => w.drafts[p].text # w.drafts[p].base
  /\ t \in TypedType
  /\ \A p \in Paths : PathOK(w.drafts[p], w.deletions[p], t[p])

(* Workspace v comes of workspace w by reconciliations. *)
Reconciled(w, v) ==
  /\ v \in WorkspaceSet
  /\ \A p \in Paths :
       /\ Rebased(w.drafts[p], w.deletions[p], v.drafts[p], v.deletions[p], v.pages[p])
       /\ \/ v.drafts[p] = w.drafts[p]
          \/ v.drafts[p] = None
          \/ v.drafts[p].text # v.drafts[p].base

LEMMA PageIsReconciled ==
  ASSUME NEW w \in WorkspaceSet, NEW p \in Paths, NEW arrived \in Doc
  PROVE  /\ Reconciled(w, ReconcilePage(w, p, arrived))
         /\ ReconcilePage(w, p, arrived).pages[p] = arrived
         /\ \A q \in Paths \ {p} :
              /\ ReconcilePage(w, p, arrived).drafts[q] = w.drafts[q]
              /\ ReconcilePage(w, p, arrived).deletions[q] = w.deletions[q]
<1> DEFINE v == ReconcilePage(w, p, arrived)
<1> HIDE DEF v
<1>1. PICK draft \in DraftSet \cup {None}, deletion \in Text \cup {None},
           conflict \in ConflictSet \cup {None} :
           /\ v = Put(w, p, arrived, draft, deletion, conflict)
           /\ Rebased(w.drafts[p], w.deletions[p], draft, deletion, arrived)
           /\ draft = w.drafts[p] \/ draft = None \/ draft.text # draft.base
  BY ReconcileFacts DEF v
<1>2. /\ arrived \in Doc \cup {None} /\ draft \in DraftSet \cup {None}
      /\ deletion \in Text \cup {None} /\ conflict \in ConflictSet \cup {None}
      /\ v = Put(w, p, arrived, draft, deletion, conflict)
  BY <1>1
<1>3. /\ v \in WorkspaceSet
      /\ v.pages = [w.pages EXCEPT ![p] = arrived]
      /\ v.drafts = [w.drafts EXCEPT ![p] = draft]
      /\ v.deletions = [w.deletions EXCEPT ![p] = deletion]
  BY <1>2 DEF Put, WorkspaceSet
<1>4. v.pages[p] = arrived /\ v.drafts[p] = draft /\ v.deletions[p] = deletion
  BY <1>3 DEF WorkspaceSet
<1>5. ASSUME NEW q \in Paths
      PROVE  /\ Rebased(w.drafts[q], w.deletions[q], v.drafts[q], v.deletions[q], v.pages[q])
             /\ \/ v.drafts[q] = w.drafts[q]
                \/ v.drafts[q] = None
                \/ v.drafts[q].text # v.drafts[q].base
  <2>1. CASE q = p
    BY <1>1, <1>4, <2>1
  <2>2. CASE q # p
    <3>1. v.drafts[q] = w.drafts[q] /\ v.deletions[q] = w.deletions[q]
      BY <1>3, <2>2 DEF WorkspaceSet
    <3> QED
      BY <3>1 DEF Rebased
  <2> QED
    BY <2>1, <2>2
<1>6. \A q \in Paths \ {p} : v.drafts[q] = w.drafts[q] /\ v.deletions[q] = w.deletions[q]
  BY <1>3 DEF WorkspaceSet
<1> QED
  BY <1>3, <1>4, <1>5, <1>6 DEF Reconciled, v

LEMMA AllIsReconciled ==
  ASSUME NEW w \in WorkspaceSet, NEW S \in SUBSET Paths, NEW fetched \in [S -> Doc],
         NEW v, v = ReconcileAll(w, fetched)
  PROVE  Reconciled(w, v)
<1> DEFINE at(p) == IF p \in S THEN ReconcilePage(w, p, fetched[p]) ELSE w
<1>1. ASSUME NEW p \in Paths
      PROVE  /\ Reconciled(w, at(p))
             /\ at(p) \in WorkspaceSet
  <2>1. CASE p \in S
    <3> DEFINE u == ReconcilePage(w, p, fetched[p])
    <3>1. fetched[p] \in Doc
      BY <2>1
    <3> HIDE DEF u
    <3>2. Reconciled(w, u)
      BY <3>1, PageIsReconciled DEF u
    <3> QED
      BY <2>1, <3>2 DEF Reconciled, u
  <2>2. CASE p \notin S
    BY <2>2 DEF Reconciled, Rebased
  <2> QED
    BY <2>1, <2>2
<1>2. v = [pages     |-> [p \in Paths |-> at(p).pages[p]],
           drafts    |-> [p \in Paths |-> at(p).drafts[p]],
           deletions |-> [p \in Paths |-> at(p).deletions[p]],
           conflicts |-> [p \in Paths |-> at(p).conflicts[p]]]
  BY DEF ReconcileAll
<1> HIDE DEF at
<1>3. ASSUME NEW p \in Paths
      PROVE  /\ at(p).drafts[p] \in DraftSet \cup {None}
             /\ at(p).deletions[p] \in Text \cup {None}
             /\ at(p).pages[p] \in Doc \cup {None}
             /\ at(p).conflicts[p] \in ConflictSet \cup {None}
  BY <1>1, WorkspaceFields
<1>4. v \in WorkspaceSet
  BY <1>2, <1>3 DEF WorkspaceSet
<1>5. ASSUME NEW p \in Paths
      PROVE  /\ v.drafts[p] = at(p).drafts[p] /\ v.deletions[p] = at(p).deletions[p]
             /\ v.pages[p] = at(p).pages[p]
  BY <1>2
<1> QED
  BY <1>1, <1>4, <1>5 DEF Reconciled

LEMMA StillTypedFacts ==
  ASSUME NEW w \in WorkspaceSet, NEW t \in TypedType
  PROVE  /\ StillTyped(t, w) \in TypedType
         /\ \A p \in Paths : Lapsed(t[p], StillTyped(t, w)[p], w.drafts[p], w.pages[p])
BY DEF TypedType, StillTyped, Lapsed

(* What Accept does with a reconciled workspace. *)
LEMMA ReconciledIsOK ==
  ASSUME NEW w, NEW t, LocalOK(w, t), NEW v, Reconciled(w, v)
  PROVE  /\ LocalOK(v, StillTyped(t, v))
         /\ \A p \in Paths : v.drafts[p] # None \/ v.deletions[p] # None =>
                             w.drafts[p] # None \/ w.deletions[p] # None
<1>1. w \in WorkspaceSet /\ v \in WorkspaceSet /\ t \in TypedType
  BY DEF LocalOK, Reconciled
<1> DEFINE nt == StillTyped(t, v)
<1>2. nt \in TypedType
      /\ \A p \in Paths : Lapsed(t[p], nt[p], v.drafts[p], v.pages[p])
  BY <1>1, StillTypedFacts
<1> HIDE DEF nt
<1>3. ASSUME NEW p \in Paths
      PROVE  PathOK(v.drafts[p], v.deletions[p], nt[p])
  <2>1. w.drafts[p] \in DraftSet \cup {None}
    BY <1>1, WorkspaceFields
  <2>2. /\ PathOK(w.drafts[p], w.deletions[p], t[p])
        /\ Rebased(w.drafts[p], w.deletions[p], v.drafts[p], v.deletions[p], v.pages[p])
        /\ Lapsed(t[p], nt[p], v.drafts[p], v.pages[p])
    BY <1>2 DEF LocalOK, Reconciled
  <2> QED
    BY <2>1, <2>2, RebasedKeepsPath
<1>4. ASSUME NEW p \in Paths, v.drafts[p] # None
      PROVE  v.drafts[p].text # v.drafts[p].base
  BY <1>4 DEF LocalOK, Reconciled
<1>5. ASSUME NEW p \in Paths, v.drafts[p] # None \/ v.deletions[p] # None
      PROVE  w.drafts[p] # None \/ w.deletions[p] # None
  <2>1. Rebased(w.drafts[p], w.deletions[p], v.drafts[p], v.deletions[p], v.pages[p])
    BY DEF Reconciled
  <2> QED
    BY <1>5, <2>1 DEF Rebased
<1> QED
  BY <1>1, <1>2, <1>3, <1>4, <1>5 DEF LocalOK, nt

-----------------------------------------------------------------------------
(* Every action keeps the local changes and what was typed.                  *)

(* What drafts hold of the user, or of create. *)
Held == Written(typed, blanked)

LocalInv == LocalOK(ws, Held)

BlankedType == [Paths -> SUBSET Regions]

LEMMA WrittenType ==
  ASSUME NEW t \in TypedType, NEW b \in BlankedType
  PROVE  Written(t, b) \in TypedType
BY DEF Written, TypedType, BlankedType

LEMMA SettleFacts ==
  ASSUME NEW t \in TypedType, NEW b \in BlankedType, NEW w, Settle(t, b, w)
  PROVE  /\ typed' \in TypedType /\ blanked' \in BlankedType
         /\ Held' = StillTyped(Written(t, b), w)
<1> DEFINE old == Written(t, b)
           still == StillTyped(old, w)
<1>1. /\ old \in TypedType
      /\ \A p \in Paths, r \in Regions : old[p][r] = IF r \in b[p] THEN Blank ELSE t[p][r]
  BY WrittenType DEF Written
<1>2. /\ still = [p \in Paths |-> [r \in Regions |-> still[p][r]]]
      /\ \A p \in Paths, r \in Regions : still[p][r] \in {None, old[p][r]}
  BY DEF StillTyped
<1>3. /\ typed' = [p \in Paths |-> [r \in Regions |->
                     IF still[p][r] = None THEN None ELSE t[p][r]]]
      /\ blanked' = [p \in Paths |-> {r \in b[p] : still[p][r] # None}]
  BY DEF Settle
<1> HIDE DEF old, still
<1>4. typed' \in TypedType /\ blanked' \in BlankedType
  BY <1>3 DEF TypedType, BlankedType
<1>5. ASSUME NEW p \in Paths, NEW r \in Regions
      PROVE  (IF r \in blanked'[p] THEN Blank ELSE typed'[p][r]) = still[p][r]
  <2>1. /\ r \in blanked'[p] <=> r \in b[p] /\ still[p][r] # None
        /\ typed'[p][r] = IF still[p][r] = None THEN None ELSE t[p][r]
    BY <1>3
  <2>2. still[p][r] # None => still[p][r] = IF r \in b[p] THEN Blank ELSE t[p][r]
    BY <1>1, <1>2
  <2> QED
    BY <2>1, <2>2
<1>6. Held' = [p \in Paths |-> [r \in Regions |->
                 IF r \in blanked'[p] THEN Blank ELSE typed'[p][r]]]
  BY DEF Held, Written
<1>7. Held' = [p \in Paths |-> [r \in Regions |-> still[p][r]]]
  BY <1>5, <1>6
<1>8. Held' = still
  BY <1>2, <1>7
<1> QED
  BY <1>4, <1>8 DEF old, still

LEMMA HeldTypes ==
  ASSUME TypeOK
  PROVE  typed \in TypedType /\ blanked \in BlankedType /\ Held \in TypedType
<1>1. typed \in TypedType /\ blanked \in BlankedType
  BY DEF TypeOK, TypedType, BlankedType
<1> QED
  BY <1>1, WrittenType DEF Held

LEMMA SettlesHeld ==
  ASSUME TypeOK, NEW w, Settle(typed, blanked, w)
  PROVE  Held' = StillTyped(Held, w)
BY HeldTypes, SettleFacts DEF Held

(* Fetched pages are reconciled when they are all there. *)
LEMMA FetchedPages ==
  ASSUME TypeOK, NEW w \in WorkspaceSet,
         NEW S \in SUBSET Paths, NEW f \in [S -> Doc \cup {None}],
         \A p \in S : f[p] # None
  PROVE  f \in [S -> Doc]
OBVIOUS

LEMMA ReadReturnsKeepsLocal ==
  ASSUME TypeOK, LocalInv, ReadReturns
  PROVE  /\ LocalInv'
         /\ \A p \in Paths : (ws.drafts[p] # None \/ ws.deletions[p] # None)' =>
                             ws.drafts[p] # None \/ ws.deletions[p] # None
<1> DEFINE p == reading.path
           w == ReconcilePage(ws, p, reading.page)
<1>1. p \in Paths /\ reading.page \in Doc
  BY DEF ReadReturns, TypeOK, ReadSet
<1>2. ws' = w /\ Held' = StillTyped(Held, w)
  BY SettlesHeld DEF ReadReturns, Accept
<1>3. ws \in WorkspaceSet
  BY DEF TypeOK
<1> HIDE DEF p, w
<1>4. Reconciled(ws, w)
  BY <1>1, <1>3, PageIsReconciled DEF p, w
<1> QED
  BY <1>2, <1>4, ReconciledIsOK DEF LocalInv

(* What Reconcile does when all pages are there. *)
LEMMA ReconcileKeepsLocal ==
  ASSUME TypeOK, LocalInv, NEW w \in WorkspaceSet, w.drafts = ws.drafts, w.deletions = ws.deletions,
         NEW S \in SUBSET Paths, NEW fetched \in [S -> Doc],
         Reconcile(w, fetched)
  PROVE  /\ LocalInv'
         /\ \A p \in Paths : (ws.drafts[p] # None \/ ws.deletions[p] # None)' =>
                             ws.drafts[p] # None \/ ws.deletions[p] # None
<1> DEFINE v == ReconcileAll(w, fetched)
<1>1. ws' = v /\ Held' = StillTyped(Held, v)
  BY SettlesHeld DEF Reconcile, Accept
<1> HIDE DEF v
<1>2. Reconciled(w, v)
  BY AllIsReconciled DEF v
<1>3. Reconciled(ws, v)
  BY <1>2 DEF Reconciled
<1> QED
  BY <1>1, <1>3, ReconciledIsOK DEF LocalInv

LEMMA MissingReturnKeepsLocal ==
  ASSUME TypeOK, LocalInv, MissingReturn
  PROVE  /\ LocalInv'
         /\ \A p \in Paths : (ws.drafts[p] # None \/ ws.deletions[p] # None)' =>
                             ws.drafts[p] # None \/ ws.deletions[p] # None
<1>1. /\ sync # None /\ sync.stage = "fetched" /\ sync \in SyncSet
      /\ Reconcile(ws, sync.fetched)
  BY DEF MissingReturn, TypeOK
<1>2. PICK S \in SUBSET Paths : sync.fetched \in [S -> Doc \cup {None}]
  BY <1>1 DEF SyncSet
<1>3. \A p \in S : sync.fetched[p] # None
  BY <1>1, <1>2 DEF TypeOK
<1>4. sync.fetched \in [S -> Doc]
  BY <1>2, <1>3
<1>5. ws \in WorkspaceSet
  BY DEF TypeOK
<1> QED
  BY <1>1, <1>4, <1>5, ReconcileKeepsLocal

(* The workspace of an inventory that returns. *)
LEMMA ListedWorkspace ==
  ASSUME TypeOK, sync # None, NEW w,
         w = [ws EXCEPT !.pages = [p \in Paths |-> IF sync.tree[p] = Absent
                                                   THEN None ELSE sync.tree[p]]]
  PROVE  w \in WorkspaceSet /\ w.drafts = ws.drafts /\ w.deletions = ws.deletions
<1> DEFINE pages == [p \in Paths |-> IF sync.tree[p] = Absent THEN None ELSE sync.tree[p]]
<1>1. sync.tree \in [Paths -> Doc]
  BY DEF TypeOK, SyncSet
<1>2. pages \in [Paths -> Doc \cup {None}]
  BY <1>1
<1> HIDE DEF pages
<1>3. w = [ws EXCEPT !.pages = pages]
  BY DEF pages
<1> QED
  BY <1>2, <1>3 DEF TypeOK, WorkspaceSet

LEMMA InventoryReturnsKeepsLocal ==
  ASSUME TypeOK, LocalInv, InventoryReturns
  PROVE  /\ LocalInv'
         /\ \A p \in Paths : (ws.drafts[p] # None \/ ws.deletions[p] # None)' =>
                             ws.drafts[p] # None \/ ws.deletions[p] # None
<1> DEFINE w == [ws EXCEPT !.pages = [p \in Paths |-> IF sync.tree[p] = Absent
                                                      THEN None ELSE sync.tree[p]]]
           local == {p \in Paths : LocalVersion(w, p) # None}
           fetched == [p \in local |-> w.pages[p]]
<1>1. \/ (\A p \in local : w.pages[p] # None) /\ Reconcile(w, fetched)
      \/ Accept(w)
  BY DEF InventoryReturns
<1>2. sync # None
  BY DEF InventoryReturns
<1>3. w \in WorkspaceSet /\ w.drafts = ws.drafts /\ w.deletions = ws.deletions
  BY <1>2, ListedWorkspace
<1> HIDE DEF w
<1>4. CASE (\A p \in local : w.pages[p] # None) /\ Reconcile(w, fetched)
  <2>1. fetched \in [local -> Doc]
    BY <1>3, <1>4, WorkspaceFields
  <2> HIDE DEF fetched
  <2> QED
    BY <1>3, <1>4, <2>1, ReconcileKeepsLocal
<1>5. CASE Accept(w)
  <2>1. ws' = w /\ Held' = StillTyped(Held, w)
    BY <1>5, SettlesHeld DEF Accept
  <2>2. Reconciled(ws, w)
    BY <1>3 DEF Reconciled, Rebased
  <2> QED
    BY <2>1, <2>2, ReconciledIsOK DEF LocalInv
<1> QED
  BY <1>1, <1>4, <1>5

(* The parts of an edit. *)
BaseOf(d, loaded) == IF d # None THEN d.base ELSE loaded
TextOf(d, loaded) == IF d # None THEN d.text
                     ELSE IF loaded = Absent THEN NewText ELSE loaded
ChangeTo(base, text) == IF text = base THEN None ELSE [base |-> base, text |-> text]
Worded(text, r, v) == [text EXCEPT ![r] = v]
Noted(t, base, r, v) ==
  [t EXCEPT ![r] = IF base # Absent /\ base[r] = v THEN None ELSE v]
WithDraft(w, p, draft) == [w EXCEPT !.drafts[p] = draft]
WithTyped(t, p, nt) == [t EXCEPT ![p] = nt]

(* A wording typed into a draft, or over the loaded text. *)
LEMMA EditedPath ==
  ASSUME NEW d \in DraftSet \cup {None}, NEW t \in [Regions -> Values \cup {Blank, None}],
         PathOK(d, None, t), NEW loaded, d # None \/ loaded \in Doc,
         NEW r \in Regions, NEW v \in Values
  PROVE  PathOK(ChangeTo(BaseOf(d, loaded), Worded(TextOf(d, loaded), r, v)), None,
                Noted(t, BaseOf(d, loaded), r, v))
<1> DEFINE base == BaseOf(d, loaded)
           old == TextOf(d, loaded)
           text == Worded(old, r, v)
           nt == Noted(t, base, r, v)
<1>1. old \in Text /\ base \in Doc /\ Absent \notin Text /\ None \notin Values
  <2>1. NewText \in Text
    BY DEF NewText, Text
  <2> QED
    BY <2>1, WorkspaceAssumption DEF DraftSet, Doc, BaseOf, TextOf
<1>2. /\ text \in Text /\ text[r] = v
      /\ \A q \in Regions : q # r => text[q] = old[q]
  BY <1>1 DEF Text, Worded
<1>3. /\ nt[r] = IF base # Absent /\ base[r] = v THEN None ELSE v
      /\ \A q \in Regions : q # r => nt[q] = t[q]
  BY DEF Noted
<1>4. ASSUME NEW q \in Regions
      PROVE  /\ t[q] # None => old[q] = t[q]
             /\ base # Absent => old[q] \in {base[q], t[q]} /\ base[q] # t[q]
  <2>1. CASE d # None
    BY <2>1 DEF PathOK, BaseOf, TextOf
  <2>2. CASE d = None
    <3>1. t[q] = None /\ (base # Absent => base = old)
      BY <2>2 DEF PathOK, BaseOf, TextOf
    <3> QED
      BY <1>1, <3>1, TextValues
  <2> QED
    BY <2>1, <2>2
<1>5. base # Absent => base \in Text /\ \A q \in Regions : base[q] # None
  BY <1>1, TextValues DEF Doc
<1> HIDE DEF old, base, text, nt
<1>6. ASSUME NEW q \in Regions
      PROVE  /\ nt[q] # None => text[q] = nt[q] /\ text # base
             /\ base # Absent => text[q] \in {base[q], nt[q]} /\ base[q] # nt[q]
  <2>1. CASE q = r
    <3>1. nt[q] # None => text[q] = nt[q]
      BY <1>2, <1>3, <2>1
    <3>2. base # Absent => text[q] \in {base[q], nt[q]} /\ base[q] # nt[q]
      BY <1>2, <1>3, <1>5, <2>1
    <3> QED
      BY <1>1, <1>2, <3>1, <3>2
  <2>2. CASE q # r
    <3>1. nt[q] = t[q] /\ text[q] = old[q]
      BY <1>2, <1>3, <2>2
    <3> QED
      BY <1>1, <1>2, <1>4, <3>1
  <2> QED
    BY <2>1, <2>2
<1>7. text # base => [base |-> base, text |-> text] # None
  BY <1>1, <1>2, WorkspaceAssumption DEF DraftSet
<1>8. PathOK(ChangeTo(base, text), None, nt)
  <2>1. CASE text = base
    BY <1>6, <2>1 DEF PathOK, ChangeTo
  <2>2. CASE text # base
    BY <1>6, <1>7, <2>2 DEF PathOK, ChangeTo
  <2> QED
    BY <2>1, <2>2
<1> QED
  BY <1>8 DEF base, old, text, nt

(* A draft is put at a path, and what was typed there is noted. *)
LEMMA DraftIsPut ==
  ASSUME NEW w, NEW t, LocalOK(w, t), NEW p \in Paths,
         NEW draft \in DraftSet \cup {None}, draft # None => draft.text # draft.base,
         NEW nt \in [Regions -> Values \cup {Blank, None}],
         PathOK(draft, w.deletions[p], nt)
  PROVE  LocalOK(WithDraft(w, p, draft), WithTyped(t, p, nt))
<1> DEFINE v == WithDraft(w, p, draft)
           u == WithTyped(t, p, nt)
<1>1. /\ v \in WorkspaceSet /\ v.drafts = [w.drafts EXCEPT ![p] = draft]
      /\ v.deletions = w.deletions
  BY DEF LocalOK, WorkspaceSet, WithDraft
<1>2. u \in TypedType /\ u[p] = nt /\ \A q \in Paths : q # p => u[q] = t[q]
  BY DEF LocalOK, TypedType, WithTyped
<1>3. v.drafts[p] = draft /\ \A q \in Paths : q # p => v.drafts[q] = w.drafts[q]
  BY <1>1 DEF LocalOK, WorkspaceSet
<1> HIDE DEF u, v
<1>4. ASSUME NEW q \in Paths
      PROVE  /\ PathOK(v.drafts[q], v.deletions[q], u[q])
             /\ v.drafts[q] # None => v.drafts[q].text # v.drafts[q].base
  BY <1>1, <1>2, <1>3 DEF LocalOK
<1> QED
  BY <1>1, <1>2, <1>4 DEF LocalOK, u, v

(* What edit makes of a path: its draft, and, where a conflict is open, the  *)
(* draft met with the server text of it again.                               *)
LEMMA EditedIsOK ==
  ASSUME NEW o, NEW t, LocalOK(o, t), NEW p \in Paths, NEW text \in Text,
         BaseAt(o, p) \in Doc, NEW nt \in [Regions -> Values \cup {Blank, None}],
         PathOK(ChangeTo(BaseAt(o, p), text), o.deletions[p], nt)
  PROVE  /\ LocalOK(Edited(o, p, text), StillTyped(WithTyped(t, p, nt), Edited(o, p, text)))
         /\ \A q \in Paths \ {p} :
              /\ Edited(o, p, text).drafts[q] = o.drafts[q]
              /\ Edited(o, p, text).deletions[q] = o.deletions[q]
<1> DEFINE draft == ChangeTo(BaseAt(o, p), text)
           drafted == WithDraft(o, p, draft)
           w == IF o.conflicts[p] = None THEN drafted
                ELSE ReconcilePage(drafted, p, o.conflicts[p].server)
           u == WithTyped(t, p, nt)
<1>1. Edited(o, p, text) = w
  BY DEF Edited, ChangeTo, WithDraft
<1>2. o \in WorkspaceSet
  BY DEF LocalOK
<1>3. o.conflicts[p] # None => o.conflicts[p].server \in Doc
  <2>1. o.conflicts[p] \in ConflictSet \cup {None}
    BY <1>2, WorkspaceFields
  <2> QED
    BY <2>1 DEF ConflictSet
<1>4. draft \in DraftSet \cup {None} /\ (draft # None => draft.text # draft.base)
  BY DEF DraftSet, ChangeTo
<1> HIDE DEF draft
<1>5. LocalOK(drafted, u)
  <2>1. PathOK(draft, o.deletions[p], nt)
    BY DEF draft
  <2> QED
    BY <1>4, <2>1, DraftIsPut
<1>6. \A q \in Paths \ {p} : /\ drafted.drafts[q] = o.drafts[q]
                              /\ drafted.deletions[q] = o.deletions[q]
  BY <1>2 DEF WithDraft, WorkspaceSet
<1> HIDE DEF drafted, u
<1>7. drafted \in WorkspaceSet
  BY <1>5 DEF LocalOK
<1>8. /\ Reconciled(drafted, w)
      /\ \A q \in Paths \ {p} : /\ w.drafts[q] = drafted.drafts[q]
                                /\ w.deletions[q] = drafted.deletions[q]
  <2>1. CASE o.conflicts[p] = None
    BY <1>7, <2>1 DEF Reconciled, Rebased
  <2>2. CASE o.conflicts[p] # None
    <3> DEFINE arrived == o.conflicts[p].server
    <3>1. arrived \in Doc /\ w = ReconcilePage(drafted, p, arrived)
      BY <1>3, <2>2
    <3> HIDE DEF arrived, w
    <3> QED
      BY <1>7, <3>1, PageIsReconciled
  <2> QED
    BY <2>1, <2>2
<1> HIDE DEF w
<1>9. LocalOK(w, StillTyped(u, w))
  BY <1>5, <1>8, ReconciledIsOK
<1> QED
  BY <1>1, <1>6, <1>8, <1>9 DEF u

(* Writing what a path holds already changes nothing. *)
LEMMA WrittenSame ==
  ASSUME NEW t \in TypedType, NEW p \in Paths
  PROVE  WithTyped(t, p, t[p]) = t
BY DEF TypedType, WithTyped

LEMMA EditKeepsLocal ==
  ASSUME TypeOK, LocalInv, NEW r \in Regions, NEW v \in Values, Edit(r, v)
  PROVE  LocalInv'
<1> DEFINE p == selected
           d == ws.drafts[p]
           loaded == ws.pages[p]
           base == BaseOf(d, loaded)
           text == Worded(TextOf(d, loaded), r, v)
           w == Edited(ws, p, text)
           nt == Noted(Held[p], base, r, v)
<1>1. /\ p \in Paths /\ ws \in WorkspaceSet /\ LocalOK(ws, Held)
      /\ typed \in TypedType /\ blanked \in BlankedType /\ Held \in TypedType
  BY HeldTypes DEF Edit, TypeOK, LocalInv
<1>2. /\ BaseAt(ws, p) = base /\ base # None
      /\ TextAt(ws, p) = TextOf(d, loaded)
  BY DEF Edit, BaseAt, TextAt, BaseOf, TextOf
<1>3. /\ d \in DraftSet \cup {None} /\ (d # None \/ loaded \in Doc)
      /\ PathOK(d, ws.deletions[p], Held[p])
      /\ Held[p] \in [Regions -> Values \cup {Blank, None}]
  <2>1. d \in DraftSet \cup {None} /\ loaded \in Doc \cup {None}
    BY <1>1, WorkspaceFields
  <2> QED
    BY <1>1, <1>2, <2>1 DEF LocalOK, TypedType, BaseOf
<1>4. text \in Text /\ base \in Doc
  <2>1. NewText \in Text
    BY DEF NewText, Text
  <2>2. TextOf(d, loaded) \in Text /\ base \in Doc
    BY <1>3, <2>1 DEF DraftSet, Doc, BaseOf, TextOf
  <2> QED
    BY <2>2 DEF Text, Worded
<1>5. nt \in [Regions -> Values \cup {Blank, None}]
  BY <1>3 DEF Noted
<1>6. /\ ws' = w
      /\ IF ws.deletions[p] = None
         THEN Settle([typed EXCEPT ![p][r] =
                        IF base # Absent /\ base[r] = v THEN None ELSE v],
                     [blanked EXCEPT ![p] = @ \ {r}], w)
         ELSE UNCHANGED <<typed, blanked>>
  BY <1>2 DEF Edit, Worded
<1> HIDE DEF p, d, loaded, base, text, w, nt
<1>7. CASE ws.deletions[p] = None
  <2> DEFINE x == IF base # Absent /\ base[r] = v THEN None ELSE v
             t == [typed EXCEPT ![p][r] = x]
             b == [blanked EXCEPT ![p] = @ \ {r}]
  <2>1. x \in Values \cup {Blank, None}
    OBVIOUS
  <2>2. nt = [Held[p] EXCEPT ![r] = x]
    BY DEF nt, Noted
  <2>3. Settle(t, b, w)
    BY <1>6, <1>7
  <2> HIDE DEF x
  <2>4. t \in TypedType /\ b \in BlankedType
    BY <1>1, <2>1 DEF TypedType, BlankedType
  <2>5. Written(t, b) = WithTyped(Held, p, nt)
    <3>1. ASSUME NEW q \in Paths
          PROVE  [y \in Regions |-> IF y \in b[q] THEN Blank ELSE t[q][y]]
                   = IF q = p THEN nt ELSE Held[q]
      <4>1. CASE q = p
        <5>1. /\ b[q] = blanked[p] \ {r}
              /\ \A y \in Regions : t[q][y] = IF y = r THEN x ELSE typed[p][y]
          BY <1>1, <4>1 DEF TypedType, BlankedType
        <5>2. /\ nt = [y \in Regions |-> nt[y]]
              /\ \A y \in Regions : nt[y] = IF y = r THEN x ELSE Held[p][y]
          BY <1>3, <2>2
        <5>3. \A y \in Regions : Held[p][y] = IF y \in blanked[p] THEN Blank ELSE typed[p][y]
          BY <1>1 DEF Held, Written
        <5>4. \A y \in Regions : (IF y \in b[q] THEN Blank ELSE t[q][y]) = nt[y]
          BY <5>1, <5>2, <5>3
        <5> HIDE DEF t, b
        <5> QED
          BY <4>1, <5>2, <5>4
      <4>2. CASE q # p
        <5>1. b[q] = blanked[q] /\ t[q] = typed[q]
          BY <1>1, <4>2 DEF TypedType, BlankedType
        <5> HIDE DEF t, b
        <5> QED
          BY <4>2, <5>1 DEF Held, Written
      <4> QED
        BY <4>1, <4>2
    <3> HIDE DEF t, b
    <3>2. Written(t, b) = [q \in Paths |-> IF q = p THEN nt ELSE Held[q]]
      BY <3>1 DEF Written
    <3> QED
      BY <1>1, <3>2 DEF WithTyped, TypedType
  <2> HIDE DEF t, b
  <2>6. Held' = StillTyped(WithTyped(Held, p, nt), w)
    BY <2>3, <2>4, <2>5, SettleFacts
  <2>7. PathOK(ChangeTo(base, text), ws.deletions[p], nt)
    BY <1>3, <1>7, EditedPath DEF base, text, nt
  <2>8. LocalOK(w, StillTyped(WithTyped(Held, p, nt), w))
    <3>1. BaseAt(ws, p) \in Doc /\ PathOK(ChangeTo(BaseAt(ws, p), text), ws.deletions[p], nt)
      BY <1>2, <1>4, <2>7
    <3> QED
      BY <1>1, <1>4, <1>5, <3>1, EditedIsOK DEF w
  <2> QED
    BY <1>6, <2>6, <2>8 DEF LocalInv
<1>8. CASE ws.deletions[p] # None
  <2>1. \A q \in Regions : Held[p][q] = None
    BY <1>3, <1>8 DEF PathOK
  <2>2. /\ PathOK(ChangeTo(BaseAt(ws, p), text), ws.deletions[p], Held[p])
        /\ BaseAt(ws, p) \in Doc
    BY <1>2, <1>4, <1>8, <2>1 DEF PathOK
  <2>3. /\ LocalOK(w, StillTyped(WithTyped(Held, p, Held[p]), w))
        /\ \A q \in Paths \ {p} : /\ w.drafts[q] = ws.drafts[q]
                                  /\ w.deletions[q] = ws.deletions[q]
    BY <1>1, <1>3, <1>4, <2>2, EditedIsOK DEF w
  <2>4. LocalOK(w, StillTyped(Held, w))
    BY <1>1, <2>3, WrittenSame
  <2>5. ASSUME NEW q \in Paths PROVE PathOK(w.drafts[q], w.deletions[q], Held[q])
    <3>1. CASE q = p
      <4>1. StillTyped(Held, w)[p] = Held[p]
        <5>1. \A y \in Regions : StillTyped(Held, w)[p][y] = None
          BY <1>1, <2>1 DEF StillTyped
        <5>2. StillTyped(Held, w) \in TypedType
          BY <2>4 DEF LocalOK
        <5> QED
          BY <1>1, <2>1, <5>1, <5>2 DEF TypedType
      <4> QED
        BY <2>4, <3>1, <4>1 DEF LocalOK
    <3>2. CASE q # p
      BY <1>1, <2>3, <3>2 DEF LocalOK
    <3> QED
      BY <3>1, <3>2
  <2>6. ws' = w /\ Held' = Held
    BY <1>6, <1>8 DEF Held
  <2> QED
    BY <1>1, <2>4, <2>5, <2>6 DEF LocalInv, LocalOK
<1> QED
  BY <1>7, <1>8

(* The text of a new document, over a base or over none. *)
LEMMA BlankedPath ==
  ASSUME NEW base \in Doc, NEW nt,
         nt = [r \in Regions |-> IF base = Absent \/ base[r] # Blank THEN Blank ELSE None]
  PROVE  /\ NewText \in Text /\ nt \in [Regions -> Values \cup {Blank, None}]
         /\ PathOK(ChangeTo(base, NewText), None, nt)
<1>1. /\ NewText \in Text /\ NewText # Absent /\ Blank # None
      /\ \A r \in Regions : NewText[r] = Blank
  <2>1. NewText \in Text
    BY DEF NewText, Text
  <2> QED
    BY <2>1, WorkspaceAssumption DEF NewText
<1>2. nt \in [Regions -> Values \cup {Blank, None}]
  OBVIOUS
<1>3. \A r \in Regions : nt[r] = IF base = Absent \/ base[r] # Blank THEN Blank ELSE None
  OBVIOUS
<1> DEFINE draft == ChangeTo(base, NewText)
<1>4. CASE NewText = base
  <2>1. draft = None /\ \A r \in Regions : nt[r] = None
    BY <1>1, <1>3, <1>4 DEF ChangeTo
  <2> QED
    BY <1>1, <1>2, <2>1 DEF PathOK
<1>5. CASE NewText # base
  <2>1. draft \in DraftSet /\ draft.base = base /\ draft.text = NewText
    BY <1>1, <1>5 DEF ChangeTo, DraftSet
  <2>2. draft # None
    BY <2>1, WorkspaceAssumption
  <2>3. ASSUME NEW r \in Regions
        PROVE  /\ nt[r] # None => draft.text[r] = nt[r]
               /\ base # Absent => draft.text[r] \in {base[r], nt[r]} /\ base[r] # nt[r]
    <3>1. draft.text[r] = Blank
      BY <1>1, <2>1
    <3> HIDE DEF draft
    <3> QED
      BY <1>1, <1>3, <3>1
  <2> HIDE DEF draft
  <2>4. PathOK(draft, None, nt)
    BY <2>1, <2>2, <2>3 DEF PathOK
  <2> QED
    BY <1>1, <1>2, <2>4 DEF draft
<1> QED
  BY <1>4, <1>5

LEMMA CreateReturnsKeepsLocal ==
  ASSUME TypeOK, LocalInv, CreateReturns
  PROVE  LocalInv'
<1> DEFINE p == creating.path
           arrived == creating.page
           shown == IF ws.drafts[p] # None THEN ws ELSE [ws EXCEPT !.pages[p] = arrived]
           begins == arrived = Absent /\ ~ Busy
           w == IF begins THEN Edited(shown, p, NewText) ELSE shown
           base == BaseAt(shown, p)
           over == {r \in Regions : base = Absent \/ base[r] # Blank}
           t == [typed EXCEPT ![p] = [r \in Regions |-> IF r \in over THEN @[r] ELSE None]]
           b == [blanked EXCEPT ![p] = over]
           nt == [r \in Regions |-> IF base = Absent \/ base[r] # Blank THEN Blank ELSE None]
<1>1. /\ p \in Paths /\ arrived \in Doc /\ ws \in WorkspaceSet /\ LocalOK(ws, Held)
      /\ typed \in TypedType /\ blanked \in BlankedType /\ Held \in TypedType
  BY HeldTypes DEF CreateReturns, TypeOK, LocalInv
<1>2. /\ ws' = w
      /\ IF begins /\ ws.deletions[p] = None THEN Settle(t, b, w)
         ELSE Settle(typed, blanked, w)
  BY DEF CreateReturns
<1>3. /\ shown \in WorkspaceSet /\ shown.drafts = ws.drafts
      /\ shown.deletions = ws.deletions
  BY <1>1 DEF WorkspaceSet
<1>4. Reconciled(ws, shown)
  BY <1>3 DEF Reconciled, Rebased
<1>5. LocalOK(shown, Held)
  BY <1>1, <1>3 DEF LocalOK
<1>6. base \in Doc
  <2>1. CASE ws.drafts[p] # None
    <3>1. ws.drafts[p] \in DraftSet
      BY <1>1, <2>1, WorkspaceFields
    <3> QED
      BY <2>1, <3>1 DEF BaseAt, DraftSet
  <2>2. CASE ws.drafts[p] = None
    <3>1. shown.pages[p] = arrived /\ shown.drafts[p] = None
      BY <1>1, <2>2 DEF WorkspaceSet
    <3> QED
      BY <1>1, <3>1 DEF BaseAt
  <2> QED
    BY <2>1, <2>2
<1> HIDE DEF p, arrived, shown, base
<1>7. CASE ~ begins
  <2>1. w = shown /\ Held' = StillTyped(Held, shown)
    BY <1>2, <1>7, SettlesHeld
  <2> QED
    BY <1>1, <1>2, <1>4, <2>1, ReconciledIsOK DEF LocalInv
<1>8. CASE begins /\ ws.deletions[p] = None
  <2>1. /\ NewText \in Text /\ nt \in [Regions -> Values \cup {Blank, None}]
        /\ PathOK(ChangeTo(base, NewText), None, nt)
    BY <1>6, BlankedPath
  <2>2. t \in TypedType /\ b \in BlankedType
    BY <1>1 DEF TypedType, BlankedType
  <2>3. Written(t, b) = WithTyped(Held, p, nt)
    <3>1. ASSUME NEW q \in Paths
          PROVE  [y \in Regions |-> IF y \in b[q] THEN Blank ELSE t[q][y]]
                   = IF q = p THEN nt ELSE Held[q]
      <4>1. CASE q = p
        <5>1. /\ b[q] = over
              /\ \A y \in Regions : t[q][y] = IF y \in over THEN typed[p][y] ELSE None
          BY <1>1, <4>1 DEF TypedType, BlankedType
        <5>2. \A y \in Regions : (IF y \in b[q] THEN Blank ELSE t[q][y]) = nt[y]
          BY <5>1
        <5>3. nt = [y \in Regions |-> nt[y]]
          OBVIOUS
        <5> HIDE DEF t, b, nt
        <5> QED
          BY <4>1, <5>2, <5>3
      <4>2. CASE q # p
        <5>1. b[q] = blanked[q] /\ t[q] = typed[q]
          BY <1>1, <4>2 DEF TypedType, BlankedType
        <5> HIDE DEF t, b, nt
        <5> QED
          BY <4>2, <5>1 DEF Held, Written
      <4> QED
        BY <4>1, <4>2
    <3> HIDE DEF t, b, nt
    <3>2. Written(t, b) = [q \in Paths |-> IF q = p THEN nt ELSE Held[q]]
      BY <3>1 DEF Written
    <3> QED
      BY <1>1, <3>2 DEF WithTyped, TypedType
  <2> HIDE DEF t, b, nt
  <2>4. Held' = StillTyped(WithTyped(Held, p, nt), w)
    BY <1>2, <1>8, <2>2, <2>3, SettleFacts
  <2>5. w = Edited(shown, p, NewText)
    BY <1>8
  <2>6. LocalOK(w, StillTyped(WithTyped(Held, p, nt), w))
    <3>1. BaseAt(shown, p) \in Doc
          /\ PathOK(ChangeTo(BaseAt(shown, p), NewText), shown.deletions[p], nt)
      BY <1>3, <1>6, <1>8, <2>1 DEF base
    <3> HIDE DEF w
    <3> QED
      BY <1>1, <1>5, <2>1, <2>5, <3>1, EditedIsOK
  <2> QED
    BY <1>2, <2>4, <2>6 DEF LocalInv
<1>9. CASE begins /\ ws.deletions[p] # None
  <2>1. NewText \in Text
    BY <1>6, BlankedPath
  <2>2. \A r \in Regions : Held[p][r] = None
    BY <1>1, <1>9 DEF LocalOK, PathOK
  <2>3. /\ PathOK(ChangeTo(BaseAt(shown, p), NewText), shown.deletions[p], Held[p])
        /\ BaseAt(shown, p) \in Doc
        /\ Held[p] \in [Regions -> Values \cup {Blank, None}]
    BY <1>1, <1>3, <1>6, <1>9, <2>2 DEF PathOK, base, TypedType
  <2>4. w = Edited(shown, p, NewText) /\ Held' = StillTyped(Held, w)
    BY <1>2, <1>9, SettlesHeld
  <2> HIDE DEF w
  <2>5. LocalOK(w, StillTyped(WithTyped(Held, p, Held[p]), w))
    BY <1>1, <1>5, <2>1, <2>3, <2>4, EditedIsOK
  <2> QED
    BY <1>1, <1>2, <2>4, <2>5, WrittenSame DEF LocalInv
<1> QED
  BY <1>7, <1>8, <1>9

(* A path is written anew, with nothing of create. *)
LEMMA HeldClears ==
  ASSUME TypeOK, NEW p \in Paths, NEW nt, nt = [r \in Regions |-> nt[r]],
         typed' = [typed EXCEPT ![p] = nt], blanked' = [blanked EXCEPT ![p] = {}]
  PROVE  Held' = [Held EXCEPT ![p] = nt]
<1>1. typed \in [Paths -> [Regions -> Values \cup {Blank, None}]]
      /\ blanked \in [Paths -> SUBSET Regions]
  BY DEF TypeOK
<1>2. Held' = [q \in Paths |-> [r \in Regions |->
                 IF r \in blanked'[q] THEN Blank ELSE typed'[q][r]]]
  BY DEF Held, Written
<1>3. ASSUME NEW q \in Paths
      PROVE  [r \in Regions |-> IF r \in blanked'[q] THEN Blank ELSE typed'[q][r]]
               = IF q = p THEN nt ELSE Held[q]
  <2>1. CASE q = p
    BY <1>1, <2>1
  <2>2. CASE q # p
    BY <1>1, <2>2 DEF Held, Written
  <2> QED
    BY <2>1, <2>2
<1>4. Held = [q \in Paths |-> Held[q]]
  BY DEF Held, Written
<1> QED
  BY <1>2, <1>3, <1>4

LEMMA StageDeleteKeepsLocal ==
  ASSUME TypeOK, LocalInv, NEW p \in Paths, StageDelete(p)
  PROVE  LocalInv'
<1> DEFINE base == BaseOf(ws.drafts[p], ws.pages[p])
           deletion == IF base = Absent THEN ws.deletions[p] ELSE base
<1>1. ws \in WorkspaceSet /\ Held \in TypedType /\ LocalOK(ws, Held)
  BY HeldTypes DEF TypeOK, LocalInv
<1>2. /\ ws' = [ws EXCEPT !.drafts[p] = None, !.deletions[p] = deletion]
      /\ Held' = [Held EXCEPT ![p] = Nothing]
  <2>1. ws' = [ws EXCEPT !.drafts[p] = None, !.deletions[p] = deletion]
    BY <1>1 DEF StageDelete, BaseOf, WorkspaceSet
  <2>2. /\ typed' = [typed EXCEPT ![p] = Nothing] /\ blanked' = [blanked EXCEPT ![p] = {}]
        /\ Nothing = [r \in Regions |-> Nothing[r]]
    BY DEF StageDelete, Nothing
  <2>3. Held' = [Held EXCEPT ![p] = Nothing]
    BY <2>2, HeldClears
  <2> QED
    BY <2>1, <2>3
<1>3. deletion \in Text \cup {None}
  <2>1. /\ ws.pages[p] \in Doc \cup {None} /\ ws.deletions[p] \in Text \cup {None}
        /\ ws.drafts[p] # None => ws.drafts[p].base \in Doc
    BY <1>1, WorkspaceFields
  <2> QED
    BY <2>1 DEF StageDelete, BaseOf, Doc
<1> HIDE DEF deletion
<1>4. /\ ws' \in WorkspaceSet
      /\ ws'.drafts = [ws.drafts EXCEPT ![p] = None]
      /\ ws'.deletions = [ws.deletions EXCEPT ![p] = deletion]
  BY <1>1, <1>2, <1>3 DEF WorkspaceSet
<1>5. Held' \in TypedType /\ Held'[p] = Nothing
      /\ \A q \in Paths : q # p => Held'[q] = Held[q]
  BY <1>1, <1>2 DEF TypedType, Nothing
<1>6. /\ ws'.drafts[p] = None
      /\ \A q \in Paths : q # p => /\ ws'.drafts[q] = ws.drafts[q]
                                   /\ ws'.deletions[q] = ws.deletions[q]
  BY <1>1, <1>4 DEF WorkspaceSet
<1>7. ASSUME NEW q \in Paths
      PROVE  /\ PathOK(ws'.drafts[q], ws'.deletions[q], Held'[q])
             /\ ws'.drafts[q] # None => ws'.drafts[q].text # ws'.drafts[q].base
  <2>1. CASE q = p
    BY <1>5, <1>6, <2>1 DEF PathOK, Nothing
  <2>2. CASE q # p
    BY <1>1, <1>5, <1>6, <2>2 DEF LocalOK
  <2> QED
    BY <2>1, <2>2
<1> QED
  BY <1>4, <1>5, <1>7 DEF LocalInv, LocalOK

(* What was Held, after a conflict is resolved. *)
ResolvedTyped(arrived, text) ==
  [r \in Regions |-> IF text = Absent THEN None
                     ELSE IF arrived # Absent /\ arrived[r] = text[r] THEN None ELSE text[r]]

LEMMA ResolvedPath ==
  ASSUME NEW arrived \in Doc, NEW text \in Doc
  PROVE  /\ ResolvedDraft(arrived, text) \in DraftSet \cup {None}
         /\ ResolvedDeletion(arrived, text) \in Text \cup {None}
         /\ ResolvedTyped(arrived, text) \in [Regions -> Values \cup {Blank, None}]
         /\ PathOK(ResolvedDraft(arrived, text), ResolvedDeletion(arrived, text),
                   ResolvedTyped(arrived, text))
         /\ ResolvedDraft(arrived, text) # None =>
              ResolvedDraft(arrived, text).text # ResolvedDraft(arrived, text).base
<1> DEFINE draft == ResolvedDraft(arrived, text)
           deletion == ResolvedDeletion(arrived, text)
           nt == ResolvedTyped(arrived, text)
<1>1. text = Absent \/ text \in Text
  BY DEF Doc
<1>2. arrived = Absent \/ arrived \in Text
  BY DEF Doc
<1>3. CASE text = Absent
  <2>1. draft = None /\ \A r \in Regions : nt[r] = None
    BY <1>3 DEF ResolvedDraft, ResolvedTyped
  <2>2. nt \in [Regions -> Values \cup {Blank, None}]
    BY <1>3 DEF ResolvedTyped
  <2>3. deletion \in Text \cup {None}
    BY <1>2 DEF ResolvedDeletion
  <2>4. PathOK(draft, deletion, nt)
    BY <2>1 DEF PathOK
  <2> QED
    BY <2>1, <2>2, <2>3, <2>4
<1>4. CASE text \in Text
  <2>1. text # Absent /\ text # None /\ \A r \in Regions : text[r] # None
    BY <1>4, WorkspaceAssumption, TextValues DEF Doc
  <2>2. arrived # Absent => \A r \in Regions : arrived[r] # None
    BY <1>2, TextValues
  <2>3. \A r \in Regions :
          nt[r] = IF arrived # Absent /\ arrived[r] = text[r] THEN None ELSE text[r]
    BY <2>1 DEF ResolvedTyped
  <2>4. nt \in [Regions -> Values \cup {Blank, None}]
    BY <1>4 DEF ResolvedTyped, Text
  <2>5. deletion = None
    BY <2>1 DEF ResolvedDeletion
  <2>6. CASE text = arrived
    <3>1. draft = None /\ \A r \in Regions : nt[r] = None
      BY <2>1, <2>3, <2>6 DEF ResolvedDraft
    <3> QED
      BY <2>4, <2>5, <3>1 DEF PathOK
  <2>7. CASE text # arrived
    <3>1. draft \in DraftSet /\ draft.base = arrived /\ draft.text = text
      BY <1>4, <2>1, <2>7 DEF ResolvedDraft, DraftSet
    <3>2. draft # None
      BY <3>1, WorkspaceAssumption
    <3> HIDE DEF draft, deletion, nt
    <3>3. PathOK(draft, deletion, nt)
      <4>1. ASSUME NEW r \in Regions
            PROVE  /\ nt[r] # None => draft.text[r] = nt[r]
                   /\ arrived # Absent => text[r] \in {arrived[r], nt[r]} /\ arrived[r] # nt[r]
        BY <2>1, <2>2, <2>3, <3>1
      <4> QED
        BY <2>5, <3>1, <3>2, <4>1 DEF PathOK
    <3> QED
      BY <2>4, <2>5, <2>7, <3>1, <3>3 DEF draft, deletion, nt
  <2> QED
    BY <2>6, <2>7
<1> QED
  BY <1>1, <1>3, <1>4

LEMMA ResolveKeepsLocal ==
  ASSUME TypeOK, LocalInv, NEW p \in Paths, Resolve(p)
  PROVE  LocalInv'
<1> DEFINE c == ws.conflicts[p]
           arrived == c.server
<1>1. ws \in WorkspaceSet /\ Held \in TypedType /\ LocalOK(ws, Held)
  BY HeldTypes DEF TypeOK, LocalInv
<1>2. c \in ConflictSet
  <2>1. c \in ConflictSet \cup {None}
    BY <1>1, WorkspaceFields
  <2> QED
    BY <2>1 DEF Resolve
<1>3. PICK text \in Resolutions(c) :
        /\ ws' = ResolvePage(ws, p, arrived, text)
        /\ Held' = [Held EXCEPT ![p] = ResolvedTyped(arrived, text)]
  <2>1. PICK text \in Resolutions(c) :
          /\ ws' = ResolvePage(ws, p, arrived, text)
          /\ typed' = [typed EXCEPT ![p] = ResolvedTyped(arrived, text)]
          /\ blanked' = [blanked EXCEPT ![p] = {}]
    BY DEF Resolve, ResolvedTyped
  <2>2. ResolvedTyped(arrived, text)
          = [r \in Regions |-> ResolvedTyped(arrived, text)[r]]
    BY DEF ResolvedTyped
  <2>3. Held' = [Held EXCEPT ![p] = ResolvedTyped(arrived, text)]
    BY <2>1, <2>2, HeldClears
  <2> QED
    BY <2>1, <2>3
<1>4. arrived \in Doc /\ text \in Doc
  BY <1>2 DEF Resolutions, ConflictSet, Doc
<1> DEFINE draft == ResolvedDraft(arrived, text)
           deletion == ResolvedDeletion(arrived, text)
           nt == ResolvedTyped(arrived, text)
<1> HIDE DEF c, arrived
<1>5. /\ draft \in DraftSet \cup {None} /\ deletion \in Text \cup {None}
      /\ nt \in [Regions -> Values \cup {Blank, None}] /\ PathOK(draft, deletion, nt)
      /\ draft # None => draft.text # draft.base
  BY <1>4, ResolvedPath
<1>6. ws' = Put(ws, p, arrived, draft, deletion, None)
  BY <1>1, <1>3, <1>4, ResolveIsPut
<1>7. Held' = [Held EXCEPT ![p] = nt]
  BY <1>3
<1> HIDE DEF draft, deletion, nt
<1>8. /\ ws' \in WorkspaceSet
      /\ ws'.drafts = [ws.drafts EXCEPT ![p] = draft]
      /\ ws'.deletions = [ws.deletions EXCEPT ![p] = deletion]
  BY <1>1, <1>4, <1>5, <1>6 DEF Put, WorkspaceSet
<1>9. Held' \in TypedType /\ Held'[p] = nt
      /\ \A q \in Paths : q # p => Held'[q] = Held[q]
  BY <1>1, <1>5, <1>7 DEF TypedType
<1>10. /\ ws'.drafts[p] = draft /\ ws'.deletions[p] = deletion
       /\ \A q \in Paths : q # p => /\ ws'.drafts[q] = ws.drafts[q]
                                    /\ ws'.deletions[q] = ws.deletions[q]
  BY <1>1, <1>8 DEF WorkspaceSet
<1>11. ASSUME NEW q \in Paths
       PROVE  /\ PathOK(ws'.drafts[q], ws'.deletions[q], Held'[q])
              /\ ws'.drafts[q] # None => ws'.drafts[q].text # ws'.drafts[q].base
  <2>1. CASE q = p
    BY <1>5, <1>9, <1>10, <2>1
  <2>2. CASE q # p
    BY <1>1, <1>9, <1>10, <2>2 DEF LocalOK
  <2> QED
    BY <2>1, <2>2
<1> QED
  BY <1>8, <1>9, <1>11 DEF LocalInv, LocalOK

LEMMA DiscardKeepsLocal ==
  ASSUME TypeOK, LocalInv, Discard
  PROVE  LocalInv'
<1> DEFINE none == [p \in Paths |-> None]
<1>1. ws' = [ws EXCEPT !.drafts = none, !.deletions = none, !.conflicts = none]
      /\ Held' = [p \in Paths |-> Nothing]
  BY DEF Discard, Held, Written, Nothing
<1>2. none \in [Paths -> DraftSet \cup {None}] /\ none \in [Paths -> Text \cup {None}]
      /\ none \in [Paths -> ConflictSet \cup {None}] /\ \A p \in Paths : none[p] = None
  OBVIOUS
<1> HIDE DEF none
<1>3. ws' \in WorkspaceSet /\ ws'.drafts = none
  BY <1>1, <1>2 DEF TypeOK, WorkspaceSet
<1>4. Held' \in TypedType /\ \A p \in Paths, r \in Regions : Held'[p][r] = None
  BY <1>1 DEF TypedType, Nothing
<1>5. \A p \in Paths : PathOK(ws'.drafts[p], ws'.deletions[p], Held'[p])
  BY <1>2, <1>3, <1>4 DEF PathOK
<1> QED
  BY <1>2, <1>3, <1>4, <1>5 DEF LocalInv, LocalOK

LEMMA SucceedKeepsLocal ==
  ASSUME TypeOK, LocalInv, Sent(ws, submission), Succeed
  PROVE  LocalInv'
<1> DEFINE batch == submission.batch
           sent(p) == batch[p].delete # None \/ batch[p].draft # None
           pages == [p \in Paths |->
                       IF batch[p].draft # None THEN batch[p].draft.text
                       ELSE IF batch[p].delete # None THEN None ELSE ws.pages[p]]
           none == [p \in Paths |-> None]
<1>1. /\ ws' = [pages |-> pages, drafts |-> none, deletions |-> none, conflicts |-> none]
      /\ Held' = [p \in Paths |-> IF sent(p) THEN Nothing ELSE Held[p]]
  BY DEF Succeed, Held, Written, Nothing
<1>2. none \in [Paths -> DraftSet \cup {None}] /\ none \in [Paths -> Text \cup {None}]
      /\ none \in [Paths -> ConflictSet \cup {None}] /\ \A p \in Paths : none[p] = None
  OBVIOUS
<1>3. submission # None /\ batch \in BatchSet
  BY DEF Succeed, Busy, TypeOK, SubmissionSet
<1>4. pages \in [Paths -> Doc \cup {None}]
  <2>1. ASSUME NEW p \in Paths, batch[p].draft # None
        PROVE  batch[p].draft.text \in Doc
    BY <1>3, <2>1 DEF BatchSet, DraftSet, Doc
  <2>2. ws.pages \in [Paths -> Doc \cup {None}]
    BY DEF TypeOK, WorkspaceSet
  <2> QED
    BY <2>1, <2>2
<1> HIDE DEF none, pages
<1>5. ws' \in WorkspaceSet /\ ws'.drafts = none /\ ws'.deletions = none
  BY <1>1, <1>2, <1>4 DEF WorkspaceSet
<1>6. ASSUME NEW p \in Paths, ~ sent(p), NEW r \in Regions
      PROVE  Held[p][r] = None
  <2>1. ws.drafts[p] = None /\ ws.deletions[p] = None
    BY <1>3, <1>6 DEF Sent
  <2>2. PathOK(ws.drafts[p], ws.deletions[p], Held[p])
    BY DEF LocalInv, LocalOK
  <2> QED
    BY <2>1, <2>2 DEF PathOK
<1> HIDE DEF batch
<1>7. Held' \in TypedType
  BY <1>1 DEF LocalInv, LocalOK, TypedType, Nothing
<1>8. ASSUME NEW p \in Paths, NEW r \in Regions
      PROVE  Held'[p][r] = None
  BY <1>1, <1>6 DEF Nothing
<1>9. \A p \in Paths : PathOK(ws'.drafts[p], ws'.deletions[p], Held'[p])
  BY <1>2, <1>5, <1>8 DEF PathOK
<1> QED
  BY <1>2, <1>5, <1>7, <1>9 DEF LocalInv, LocalOK

LEMMA ReloadKeepsLocal ==
  ASSUME TypeOK, LocalInv, Reload
  PROVE  LocalInv'
<1>1. ws' = [ws EXCEPT !.pages = [p \in Paths |-> None]] /\ Held' = Held
  BY DEF Reload, Held
<1>2. ws' \in WorkspaceSet /\ ws'.drafts = ws.drafts /\ ws'.deletions = ws.deletions
  BY <1>1 DEF TypeOK, WorkspaceSet
<1> QED
  BY <1>1, <1>2 DEF LocalInv, LocalOK

(* No action loses or invents local changes. *)
LEMMA NextKeepsLocal ==
  ASSUME TypeOK, LocalInv, Sent(ws, submission), [Next]_vars
  PROVE  LocalInv'
<1>1. CASE \/ StartSync \/ InventoryServed \/ MissingServed \/ SyncFails
           \/ \E p \in Paths : OpenPage(p) \/ Create(p) \/ OtherClient(p)
           \/ ReadServed \/ Submit \/ ServerApplies \/ ServerRejects \/ GiveUp
           \/ LateApplies \/ UNCHANGED vars
  <2>1. ws' = ws /\ Held' = Held
    BY <1>1 DEF Held, StartSync, InventoryServed, MissingServed, SyncFails, OpenPage, Create,
      OtherClient, ReadServed, Submit, ServerApplies, ServerRejects, GiveUp, LateApplies, vars
  <2> QED
    BY <2>1 DEF LocalInv
<1>2. CASE \E p \in Paths : StageDelete(p) \/ Resolve(p)
  BY <1>2, StageDeleteKeepsLocal, ResolveKeepsLocal
<1>3. CASE \E r \in Regions, v \in Values : Edit(r, v)
  BY <1>3, EditKeepsLocal
<1>4. CASE InventoryReturns \/ MissingReturn \/ ReadReturns \/ CreateReturns
           \/ Discard \/ Succeed \/ Reload
  BY <1>4, InventoryReturnsKeepsLocal, MissingReturnKeepsLocal, ReadReturnsKeepsLocal,
     CreateReturnsKeepsLocal, DiscardKeepsLocal, SucceedKeepsLocal, ReloadKeepsLocal
<1> QED
  BY <1>1, <1>2, <1>3, <1>4 DEF Next

(* A submission holds every local change that appears while it lasts. *)
LEMMA NextKeepsSent ==
  ASSUME TypeOK, LocalInv, Sent(ws, submission), [Next]_vars
  PROVE  Sent(ws, submission)'
<1> DEFINE Shrinks == \A p \in Paths : (ws.drafts[p] # None \/ ws.deletions[p] # None)' =>
                                       ws.drafts[p] # None \/ ws.deletions[p] # None
           Same == \/ submission' = None
                   \/ submission # None /\ submission'.batch = submission.batch
<1>0. submission # None => submission \in SubmissionSet
  BY DEF TypeOK
<1>1. ASSUME Shrinks, Same PROVE Sent(ws, submission)'
  BY <1>1 DEF Sent
<1>2. CASE \/ StartSync \/ InventoryServed \/ MissingServed
           \/ \E p \in Paths : OpenPage(p) \/ Create(p) \/ OtherClient(p)
           \/ ReadServed \/ ServerApplies \/ ServerRejects \/ GiveUp \/ SyncFails
           \/ LateApplies \/ UNCHANGED vars
  <2>1. ws' = ws
    BY <1>2 DEF StartSync, InventoryServed, MissingServed, SyncFails, OpenPage, Create,
      OtherClient, ReadServed, ServerApplies, ServerRejects, GiveUp, LateApplies, vars
  <2>2. CASE submission' = submission
    BY <2>1, <2>2 DEF Sent
  <2>3. CASE ServerApplies \/ ServerRejects \/ GiveUp
    <3>1. submission # None /\ Same
      BY <1>0, <2>3 DEF ServerApplies, ServerRejects, GiveUp, Busy, SyncAndEnd, SubmissionSet
    <3> QED
      BY <1>1, <2>1, <3>1
  <2>4. CASE SyncFails
    <3>1. submission' = submission \/ Same
      <4>1. sync # None /\ sync.for = "submit" => submission # None
        BY DEF TypeOK, Busy
      <4> QED
        BY <1>0, <2>4, <4>1 DEF SyncFails, SubmissionSet
    <3> QED
      BY <1>1, <2>1, <2>2, <3>1
  <2> QED
    BY <1>2, <2>2, <2>3, <2>4 DEF StartSync, InventoryServed, MissingServed, OpenPage, Create,
      OtherClient, ReadServed, LateApplies, vars
<1>3. CASE \/ \E p \in Paths : StageDelete(p) \/ Resolve(p)
           \/ \E r \in Regions, v \in Values : Edit(r, v)
           \/ Discard \/ Reload
  <2>1. submission' = None
    BY <1>3 DEF StageDelete, Resolve, Edit, Discard, Reload, Busy
  <2> QED
    BY <2>1 DEF Sent
<1>4. CASE InventoryReturns \/ MissingReturn
  <2>1. Shrinks
    BY <1>4, InventoryReturnsKeepsLocal, MissingReturnKeepsLocal
  <2>2. Same \/ submission' = submission
    <3>1. sync # None /\ sync.for = "submit" => submission # None
      BY DEF TypeOK, Busy
    <3>2. sync # None
      BY <1>4 DEF InventoryReturns, MissingReturn
    <3> QED
      BY <1>0, <1>4, <3>1, <3>2 DEF InventoryReturns, MissingReturn, Reconcile, Continue,
        SubmissionSet
  <2> QED
    BY <1>1, <2>1, <2>2 DEF Sent
<1>5. CASE ReadReturns
  <2>1. Shrinks /\ submission' = submission
    BY <1>5, ReadReturnsKeepsLocal DEF ReadReturns
  <2> QED
    BY <2>1 DEF Sent
<1>6. CASE CreateReturns
  <2>1. submission' = submission
    BY <1>6 DEF CreateReturns
  <2>2. submission # None => ws'.drafts = ws.drafts /\ ws'.deletions = ws.deletions
    BY <1>6 DEF CreateReturns, Busy, TypeOK, WorkspaceSet
  <2> QED
    BY <2>1, <2>2 DEF Sent
<1>7. CASE Submit
  BY <1>7 DEF Submit, Sent, Batch
<1>8. CASE Succeed
  <2>1. \A p \in Paths : ws'.drafts[p] = None /\ ws'.deletions[p] = None
    BY <1>8 DEF Succeed
  <2> QED
    BY <2>1 DEF Sent
<1> QED
  BY <1>2, <1>3, <1>4, <1>5, <1>6, <1>7, <1>8 DEF Next

-----------------------------------------------------------------------------
(* Every action keeps the types.                                             *)

LEMMA ServerType ==
  ASSUME TypeOK, [Next]_vars
  PROVE  server' \in [Paths -> Doc]
<1>1. server \in [Paths -> Doc] /\ Values \cup {Blank} # {} /\ Text \subseteq Doc
      /\ Absent \in Doc
  BY DEF TypeOK, Doc
<1>2. ASSUME NEW batch \in BatchSet, Apply(batch) PROVE server' \in [Paths -> Doc]
  <2>1. ASSUME NEW p \in Paths PROVE Outcome(batch[p], server[p]) \in Doc
    <3>1. /\ batch[p].draft # None => batch[p].draft \in DraftSet
          /\ server[p] \in Doc
      BY <1>1 DEF BatchSet
    <3> QED
      BY <1>1, <3>1 DEF Outcome, DraftSet
  <2> QED
    BY <1>2, <2>1 DEF Apply
<1>3. CASE ServerApplies
  BY <1>2, <1>3 DEF ServerApplies, Busy, TypeOK, SubmissionSet
<1>4. CASE LateApplies
  BY <1>2, <1>4 DEF LateApplies, TypeOK
<1>5. ASSUME NEW p \in Paths, OtherClient(p) PROVE server' \in [Paths -> Doc]
  <2>1. CASE /\ server[p] # Absent
             /\ \E r \in Regions, v \in Values : server' = [server EXCEPT ![p][r] = v]
    <3>1. PICK r \in Regions, v \in Values : server' = [server EXCEPT ![p][r] = v]
      BY <2>1
    <3>2. server[p] \in Text
      BY <1>1, <2>1 DEF Doc
    <3>3. [server[p] EXCEPT ![r] = v] \in Text
      BY <3>2 DEF Text
    <3> QED
      BY <1>1, <3>1, <3>3
  <2>2. CASE server' = [server EXCEPT ![p] = Absent]
    BY <1>1, <2>2
  <2>3. CASE \E v \in Values : server' = [server EXCEPT ![p] = [r \in Regions |-> v]]
    <3>1. PICK v \in Values : server' = [server EXCEPT ![p] = [r \in Regions |-> v]]
      BY <2>3
    <3>2. [r \in Regions |-> v] \in Text
      BY DEF Text
    <3> QED
      BY <1>1, <3>1, <3>2
  <2> QED
    BY <1>5, <2>1, <2>2, <2>3 DEF OtherClient
<1>6. CASE UNCHANGED server
  BY <1>1, <1>6
<1> QED
  BY <1>3, <1>4, <1>5, <1>6 DEF Next, vars, StartSync, InventoryServed, InventoryReturns,
    MissingServed, MissingReturn, SyncFails, OpenPage, Create, StageDelete, Resolve,
    ReadServed, ReadReturns, CreateReturns, Edit, Discard, Submit, ServerRejects, Succeed,
    GiveUp, Reload

LEMMA ReadTypes ==
  ASSUME TypeOK, [Next]_vars
  PROVE  /\ selected' \in Paths \cup {None}
         /\ reading' \in ReadSet \cup {None}
         /\ creating' \in [path : Paths, page : Doc] \cup {None}
<1>1. /\ server \in [Paths -> Doc] /\ selected \in Paths \cup {None}
      /\ reading \in ReadSet \cup {None}
      /\ creating \in [path : Paths, page : Doc] \cup {None}
  BY DEF TypeOK
<1>2. ASSUME NEW p \in Paths,
             OpenPage(p) \/ Create(p) \/ StageDelete(p) \/ Resolve(p) \/ OtherClient(p)
      PROVE  /\ selected' \in Paths \cup {None}
             /\ reading' \in ReadSet \cup {None}
             /\ creating' \in [path : Paths, page : Doc] \cup {None}
  BY <1>1, <1>2 DEF OpenPage, Create, StageDelete, Resolve, OtherClient, ReadSet
<1>3. CASE ReadServed
  <2>1. reading \in ReadSet /\ server[reading.path] \in Doc
    BY <1>1, <1>3 DEF ReadServed, ReadSet
  <2>2. reading' \in ReadSet
    BY <1>3, <2>1 DEF ReadServed, ReadSet
  <2> QED
    BY <1>1, <1>3, <2>2 DEF ReadServed
<1>4. CASE ReadReturns
  BY <1>1, <1>4 DEF ReadReturns, ReadSet
<1>5. CASE CreateReturns
  BY <1>1, <1>5 DEF CreateReturns
<1>6. CASE Reload
  BY <1>1, <1>6 DEF Reload
<1>7. CASE UNCHANGED <<selected, reading, creating>>
  BY <1>1, <1>7
<1> QED
  BY <1>2, <1>3, <1>4, <1>5, <1>6, <1>7 DEF Next, vars, StartSync, InventoryServed,
    InventoryReturns, MissingServed, MissingReturn, SyncFails, Edit, Discard, Submit,
    ServerApplies, ServerRejects, Succeed, GiveUp, LateApplies

(* A sync, a submission, and that each waits for the other. *)
SyncOK(s, m) ==
  /\ s \in SyncSet \cup {None} /\ m \in SubmissionSet \cup {None}
  /\ s # None /\ s.stage = "fetched" => \A p \in DOMAIN s.fetched : s.fetched[p] # None
  /\ (m # None /\ m.stage = "sync") <=> (s # None /\ s.for = "submit")
  /\ (m # None /\ m.stage = "ending") <=> (s # None /\ s.for = "end")

LEMMA SyncForType ==
  ASSUME TypeOK, NEW purpose \in {"refresh", "submit", "end"}
  PROVE  /\ SyncFor(purpose) \in SyncSet /\ SyncFor(purpose) # None
         /\ SyncFor(purpose).stage = "inventory" /\ SyncFor(purpose).for = purpose
<1>1. <<>> \in [{} -> Doc \cup {None}]
  OBVIOUS
<1>2. <<>> \in UNION {[S -> Doc \cup {None}] : S \in SUBSET Paths}
  BY <1>1
<1>3. server \in [Paths -> Doc]
  BY DEF TypeOK
<1>4. SyncFor(purpose) \in SyncSet
  BY <1>2, <1>3 DEF SyncFor, SyncSet
<1> QED
  BY <1>4, WorkspaceAssumption DEF SyncFor

LEMMA StageType ==
  ASSUME NEW m \in SubmissionSet, NEW stage \in {"sync", "sent", "applied", "ending"}
  PROVE  /\ [m EXCEPT !.stage = stage] \in SubmissionSet
         /\ [m EXCEPT !.stage = stage] # None
         /\ [m EXCEPT !.stage = stage].stage = stage
<1>1. [m EXCEPT !.stage = stage] \in SubmissionSet /\ [m EXCEPT !.stage = stage].stage = stage
  BY DEF SubmissionSet
<1> QED
  BY <1>1, WorkspaceAssumption

LEMMA ReconcileEndsSync ==
  ASSUME TypeOK, sync # None, NEW w, NEW fetched, Reconcile(w, fetched)
  PROVE  SyncOK(sync, submission)'
<1> DEFINE v == ReconcileAll(w, fetched)
<1>1. sync' = None /\ Continue(v)
  BY DEF Reconcile
<1> HIDE DEF v
<1>2. SyncOK(sync, submission)
  BY DEF TypeOK, SyncOK, Busy
<1>3. CASE sync.for = "submit"
  <2>1. submission \in SubmissionSet
    BY <1>2, <1>3 DEF SyncOK
  <2>2. submission' = None \/ submission' = [submission EXCEPT !.stage = "sent"]
    BY <1>1, <1>3 DEF Continue
  <2>3. \/ submission' = None
        \/ submission' \in SubmissionSet /\ submission'.stage = "sent"
    BY <2>1, <2>2, StageType
  <2> QED
    BY <1>1, <2>3 DEF SyncOK
<1>4. CASE sync.for # "submit"
  <2>1. submission' = IF sync.for = "end" THEN None ELSE submission
    BY <1>1, <1>4 DEF Continue
  <2> QED
    BY <1>1, <1>2, <1>4, <2>1 DEF SyncOK
<1> QED
  BY <1>3, <1>4

LEMMA SyncEndsSubmission ==
  ASSUME TypeOK, submission # None, submission.stage \in {"sent", "applied"}, SyncAndEnd
  PROVE  SyncOK(sync, submission)'
<1>1. SyncOK(sync, submission)
  BY DEF TypeOK, SyncOK, Busy
<1>2. CASE sync = None
  <2>1. sync' = SyncFor("end") /\ submission' = [submission EXCEPT !.stage = "ending"]
    BY <1>2 DEF SyncAndEnd
  <2>2. /\ sync' \in SyncSet /\ sync' # None
        /\ sync'.stage = "inventory" /\ sync'.for = "end"
    BY <2>1, SyncForType
  <2>3. /\ submission' \in SubmissionSet /\ submission' # None
        /\ submission'.stage = "ending"
    BY <1>1, <2>1, StageType DEF SyncOK
  <2> QED
    BY <2>2, <2>3 DEF SyncOK
<1>3. CASE sync # None
  <2>1. sync' = sync /\ submission' = None
    BY <1>3 DEF SyncAndEnd
  <2> QED
    BY <1>1, <2>1 DEF SyncOK
<1> QED
  BY <1>2, <1>3

LEMMA BatchType ==
  ASSUME NEW w \in WorkspaceSet
  PROVE  Batch(w) \in BatchSet
BY WorkspaceFields DEF Batch, BatchSet

LEMMA SyncTypes ==
  ASSUME TypeOK, [Next]_vars
  PROVE  SyncOK(sync, submission)'
<1>1. SyncOK(sync, submission) /\ server \in [Paths -> Doc] /\ ws \in WorkspaceSet
  BY DEF TypeOK, SyncOK, Busy
<1>2. CASE StartSync
  <2>1. sync' = SyncFor("refresh") /\ submission' = submission /\ sync = None
    BY <1>2 DEF StartSync
  <2>2. /\ sync' \in SyncSet /\ sync'.stage = "inventory" /\ sync'.for = "refresh"
    BY <2>1, SyncForType
  <2> QED
    BY <1>1, <2>1, <2>2 DEF SyncOK
<1>3. CASE InventoryServed
  <2>1. /\ sync \in SyncSet /\ sync # None /\ submission' = submission
        /\ sync' = [sync EXCEPT !.stage = "listed", !.tree = server]
    BY <1>1, <1>3 DEF InventoryServed, SyncOK
  <2>2. sync' \in SyncSet /\ sync'.stage = "listed" /\ sync'.for = sync.for
    BY <1>1, <2>1 DEF SyncSet
  <2>3. sync' # None
    BY <2>2, WorkspaceAssumption
  <2> QED
    BY <1>1, <2>1, <2>2, <2>3 DEF SyncOK
<1>4. CASE InventoryReturns
  <2> DEFINE w == [ws EXCEPT !.pages = [p \in Paths |-> IF sync.tree[p] = Absent
                                                        THEN None ELSE sync.tree[p]]]
             local == {p \in Paths : LocalVersion(w, p) # None}
             fetched == [p \in local |-> w.pages[p]]
  <2>1. \/ Reconcile(w, fetched)
        \/ /\ submission' = submission
           /\ sync' = [sync EXCEPT !.stage = "missing", !.fetched = fetched]
    BY <1>4 DEF InventoryReturns
  <2>2. sync # None /\ sync \in SyncSet
    BY <1>1, <1>4 DEF InventoryReturns, SyncOK
  <2>3. w \in WorkspaceSet
    BY <2>2, ListedWorkspace
  <2>4. fetched \in [local -> Doc \cup {None}] /\ local \in SUBSET Paths
    BY <2>3, WorkspaceFields
  <2> HIDE DEF w, local, fetched
  <2>5. CASE Reconcile(w, fetched)
    BY <2>2, <2>5, ReconcileEndsSync
  <2>6. CASE /\ submission' = submission
             /\ sync' = [sync EXCEPT !.stage = "missing", !.fetched = fetched]
    <3>1. fetched \in UNION {[S -> Doc \cup {None}] : S \in SUBSET Paths}
      BY <2>4
    <3>2. sync' \in SyncSet /\ sync'.stage = "missing" /\ sync'.for = sync.for
      BY <2>2, <2>6, <3>1 DEF SyncSet
    <3>3. sync' # None
      BY <3>2, WorkspaceAssumption
    <3> QED
      BY <1>1, <2>2, <2>6, <3>2, <3>3 DEF SyncOK
  <2> QED
    BY <2>1, <2>5, <2>6
<1>5. CASE MissingServed
  <2> DEFINE served == [p \in DOMAIN sync.fetched |->
                          IF sync.fetched[p] = None THEN server[p] ELSE sync.fetched[p]]
  <2>1. /\ sync \in SyncSet /\ sync # None /\ submission' = submission
        /\ sync' = [sync EXCEPT !.stage = "fetched", !.fetched = served]
    BY <1>1, <1>5 DEF MissingServed, SyncOK
  <2>2. PICK S \in SUBSET Paths : sync.fetched \in [S -> Doc \cup {None}]
    BY <2>1 DEF SyncSet
  <2>3. served \in [S -> Doc]
    BY <1>1, <2>2
  <2>4. served \in UNION {[T -> Doc \cup {None}] : T \in SUBSET Paths}
        /\ DOMAIN served = S /\ \A p \in S : served[p] # None
    BY <2>3, WorkspaceAssumption
  <2> HIDE DEF served
  <2>5. /\ sync' \in SyncSet /\ sync'.stage = "fetched" /\ sync'.for = sync.for
        /\ sync'.fetched = served
    BY <2>1, <2>4 DEF SyncSet
  <2>6. sync' # None
    BY <2>5, WorkspaceAssumption
  <2> QED
    BY <1>1, <2>1, <2>4, <2>5, <2>6 DEF SyncOK
<1>6. CASE MissingReturn
  BY <1>6, ReconcileEndsSync DEF MissingReturn
<1>7. CASE SyncFails
  <2>1. CASE sync.for = "submit"
    <3>1. sync' = SyncFor("end") /\ submission' = [submission EXCEPT !.stage = "ending"]
      BY <1>7, <2>1 DEF SyncFails
    <3>2. submission \in SubmissionSet
      BY <1>1, <1>7, <2>1 DEF SyncOK, SyncFails
    <3>3. /\ sync' \in SyncSet /\ sync' # None
          /\ sync'.stage = "inventory" /\ sync'.for = "end"
      BY <3>1, SyncForType
    <3>4. /\ submission' \in SubmissionSet /\ submission' # None
          /\ submission'.stage = "ending"
      BY <3>1, <3>2, StageType
    <3> QED
      BY <3>3, <3>4 DEF SyncOK
  <2>2. CASE sync.for # "submit"
    <3>1. sync # None /\ sync' = None /\ submission' = IF sync.for = "end" THEN None ELSE submission
      BY <1>7, <2>2 DEF SyncFails
    <3> QED
      BY <1>1, <2>2, <3>1 DEF SyncOK
  <2> QED
    BY <2>1, <2>2
<1>8. CASE Submit
  <2>1. /\ sync' = SyncFor("submit")
        /\ submission' = [stage |-> "sync", batch |-> Batch(ws)]
    BY <1>8 DEF Submit
  <2>2. /\ sync' \in SyncSet /\ sync' # None
        /\ sync'.stage = "inventory" /\ sync'.for = "submit"
    BY <2>1, SyncForType
  <2>3. submission' \in SubmissionSet /\ submission'.stage = "sync"
    BY <1>1, <2>1, BatchType DEF SubmissionSet
  <2>4. submission' # None
    BY <2>3, WorkspaceAssumption
  <2> QED
    BY <2>2, <2>3, <2>4 DEF SyncOK
<1>9. CASE ServerApplies
  <2>1. /\ submission # None /\ submission.stage = "sent" /\ submission \in SubmissionSet
        /\ sync' = sync /\ submission' = [submission EXCEPT !.stage = "applied"]
    BY <1>1, <1>9 DEF ServerApplies, Busy, SyncOK
  <2>2. /\ submission' \in SubmissionSet /\ submission' # None
        /\ submission'.stage = "applied"
    BY <2>1, StageType
  <2> QED
    BY <1>1, <2>1, <2>2 DEF SyncOK
<1>10. CASE ServerRejects \/ Succeed \/ GiveUp
  BY <1>10, SyncEndsSubmission DEF ServerRejects, Succeed, GiveUp, Busy
<1>11. CASE Reload
  BY <1>11 DEF Reload, SyncOK
<1>12. CASE UNCHANGED <<sync, submission>>
  BY <1>1, <1>12 DEF SyncOK
<1> QED
  BY <1>2, <1>3, <1>4, <1>5, <1>6, <1>7, <1>8, <1>9, <1>10, <1>11, <1>12 DEF Next, vars,
    OpenPage, Create, StageDelete, Resolve, OtherClient, ReadServed, ReadReturns,
    CreateReturns, Edit, Discard, LateApplies

LEMMA LateType ==
  ASSUME TypeOK, [Next]_vars
  PROVE  late' \in BatchSet \cup {None}
<1>1. /\ late \in BatchSet \cup {None}
      /\ submission # None => submission.batch \in BatchSet
  BY DEF TypeOK, SubmissionSet
<1>2. CASE GiveUp \/ LateApplies \/ Reload
  BY <1>1, <1>2 DEF GiveUp, LateApplies, Reload, Busy
<1>3. CASE late' = late
  BY <1>1, <1>3
<1> QED
  BY <1>2, <1>3 DEF Next, vars, StartSync, InventoryServed, InventoryReturns, MissingServed,
    MissingReturn, SyncFails, OpenPage, Create, StageDelete, Resolve, OtherClient, ReadServed,
    ReadReturns, CreateReturns, Edit, Discard, Submit, ServerApplies, ServerRejects, Succeed

LEMMA HistoryTypes ==
  ASSUME TypeOK, [Next]_vars
  PROVE  typed' \in TypedType /\ blanked' \in BlankedType
<1>1. typed \in TypedType /\ blanked \in BlankedType
  BY HeldTypes
<1>2. ASSUME NEW t \in TypedType, NEW b \in BlankedType, NEW w, Settle(t, b, w)
      PROVE  typed' \in TypedType /\ blanked' \in BlankedType
  BY <1>2, SettleFacts
<1>3. CASE \E r \in Regions, v \in Values : Edit(r, v)
  <2>1. PICK r \in Regions, v \in Values : Edit(r, v)
    BY <1>3
  <2> DEFINE base == BaseAt(ws, selected)
             x == IF base # Absent /\ base[r] = v THEN None ELSE v
             t == [typed EXCEPT ![selected][r] = x]
             b == [blanked EXCEPT ![selected] = @ \ {r}]
             w == Edited(ws, selected, [TextAt(ws, selected) EXCEPT ![r] = v])
  <2>2. Settle(t, b, w) \/ UNCHANGED <<typed, blanked>>
    BY <2>1 DEF Edit
  <2>3. selected \in Paths /\ x \in Values \cup {Blank, None}
    BY <2>1 DEF Edit, TypeOK
  <2> HIDE DEF x, w
  <2>4. t \in TypedType /\ b \in BlankedType
    BY <1>1, <2>3 DEF TypedType, BlankedType
  <2> HIDE DEF t, b
  <2> QED
    BY <1>1, <1>2, <2>2, <2>4
<1>4. CASE CreateReturns
  <2> DEFINE p == creating.path
             shown == IF ws.drafts[p] # None THEN ws
                      ELSE [ws EXCEPT !.pages[p] = creating.page]
             w == IF creating.page = Absent /\ ~ Busy THEN Edited(shown, p, NewText) ELSE shown
             over == {r \in Regions : BaseAt(shown, p) = Absent
                                        \/ BaseAt(shown, p)[r] # Blank}
             t == [typed EXCEPT ![p] = [r \in Regions |-> IF r \in over THEN @[r] ELSE None]]
             b == [blanked EXCEPT ![p] = over]
  <2>1. Settle(t, b, w) \/ Settle(typed, blanked, w)
    BY <1>4 DEF CreateReturns
  <2>2. p \in Paths
    BY <1>4 DEF CreateReturns, TypeOK
  <2> HIDE DEF p, w
  <2>3. t \in TypedType /\ b \in BlankedType
    BY <1>1, <2>2 DEF TypedType, BlankedType
  <2> HIDE DEF t, b
  <2> QED
    BY <1>1, <1>2, <2>1, <2>3
<1>5. CASE InventoryReturns \/ MissingReturn \/ ReadReturns
  <2>1. \E w : Settle(typed, blanked, w)
    BY <1>5 DEF InventoryReturns, MissingReturn, ReadReturns, Reconcile, Accept
  <2> QED
    BY <1>1, <1>2, <2>1
<1>6. CASE \E p \in Paths : StageDelete(p)
  BY <1>1, <1>6 DEF StageDelete, TypedType, BlankedType, Nothing
<1>7. CASE \E p \in Paths : Resolve(p)
  <2>1. PICK p \in Paths : Resolve(p)
    BY <1>7
  <2>2. ws.conflicts[p] \in ConflictSet
    <3>1. ws.conflicts[p] \in ConflictSet \cup {None}
      BY WorkspaceFields DEF TypeOK
    <3> QED
      BY <2>1, <3>1 DEF Resolve
  <2>3. PICK text \in Resolutions(ws.conflicts[p]) :
          /\ typed' = [typed EXCEPT ![p] = ResolvedTyped(ws.conflicts[p].server, text)]
          /\ blanked' = [blanked EXCEPT ![p] = {}]
    BY <2>1 DEF Resolve, ResolvedTyped
  <2>4. text \in Doc /\ ws.conflicts[p].server \in Doc
    BY <2>2 DEF Resolutions, ConflictSet, Doc
  <2>5. ResolvedTyped(ws.conflicts[p].server, text) \in [Regions -> Values \cup {Blank, None}]
    BY <2>4, ResolvedPath
  <2> QED
    BY <1>1, <2>3, <2>5 DEF TypedType, BlankedType
<1>8. CASE Discard
  BY <1>8 DEF Discard, TypedType, BlankedType, Nothing
<1>9. CASE Succeed
  BY <1>1, <1>9 DEF Succeed, TypedType, BlankedType, Nothing
<1>10. CASE UNCHANGED <<typed, blanked>>
  BY <1>1, <1>10
<1> QED
  BY <1>3, <1>4, <1>5, <1>6, <1>7, <1>8, <1>9, <1>10 DEF Next, vars, StartSync,
    InventoryServed, MissingServed, SyncFails, OpenPage, Create, OtherClient, ReadServed,
    Submit, ServerApplies, ServerRejects, GiveUp, LateApplies, Reload

-----------------------------------------------------------------------------
(* The invariant.                                                            *)

WebInv == TypeOK /\ LocalInv /\ Sent(ws, submission)

LEMMA InitWebInv == Init => WebInv
<1> SUFFICES ASSUME Init PROVE WebInv
  OBVIOUS
<1>1. ws \in WorkspaceSet
  BY DEF Init, WorkspaceSet
<1>2. /\ typed \in TypedType /\ blanked \in BlankedType /\ Held \in TypedType
      /\ \A p \in Paths, r \in Regions : Held[p][r] = None
  BY DEF Init, TypedType, BlankedType, Held, Written, Nothing
<1>3. \A p \in Paths : ws.drafts[p] = None /\ ws.deletions[p] = None
  BY DEF Init
<1>4. LocalInv
  BY <1>1, <1>2, <1>3 DEF LocalInv, LocalOK, PathOK
<1>5. server \in [Paths -> Doc]
  <2>1. {[r \in Regions |-> v] : v \in Values} \subseteq Text
    BY DEF Text
  <2> QED
    BY <2>1 DEF Init, Doc
<1>6. TypeOK
  BY <1>1, <1>2, <1>3, <1>5 DEF TypeOK, Init, TypedType, BlankedType, Busy
<1> QED
  BY <1>4, <1>6 DEF WebInv, Sent, Init

LEMMA NextWebInv == WebInv /\ [Next]_vars => WebInv'
<1> SUFFICES ASSUME WebInv, [Next]_vars PROVE WebInv'
  OBVIOUS
<1>1. LocalInv' /\ Sent(ws, submission)'
  BY NextKeepsLocal, NextKeepsSent DEF WebInv
<1>2. TypeOK'
  <2>1. /\ server' \in [Paths -> Doc]
        /\ selected' \in Paths \cup {None} /\ reading' \in ReadSet \cup {None}
        /\ creating' \in [path : Paths, page : Doc] \cup {None}
        /\ SyncOK(sync, submission)' /\ late' \in BatchSet \cup {None}
    BY ServerType, ReadTypes, SyncTypes, LateType DEF WebInv
  <2>2. /\ ws' \in WorkspaceSet
        /\ \A p \in Paths : ws'.drafts[p] # None => ws'.drafts[p].text # ws'.drafts[p].base
    BY <1>1 DEF LocalInv, LocalOK
  <2> QED
    BY <2>1, <2>2, HistoryTypes DEF WebInv, TypeOK, SyncOK, Busy, TypedType, BlankedType
<1> QED
  BY <1>1, <1>2 DEF WebInv

THEOREM WebInvariant == Spec => []WebInv
<1>1. WebInv /\ UNCHANGED vars => WebInv'
  BY NextWebInv
<1> QED
  BY InitWebInv, NextWebInv, PTL DEF Spec

(* The tab is never in a state its types exclude: a sync that ends a          *)
(* submission has one to end, a draft differs from its base.                  *)
THEOREM WebTypes == Spec => []TypeOK
<1>1. WebInv => TypeOK
  BY DEF WebInv
<1> QED
  BY <1>1, WebInvariant, PTL

(* Whatever is read, merged, submitted, lost or applied late, every draft is  *)
(* what the user typed over the text it is based on, but for the regions a    *)
(* creation at its path has put the blank of a new document into since.       *)
THEOREM DraftsStayWhatWasTyped == Spec => []DraftsAreWhatWasTyped
<1>1. ASSUME WebInv, NEW p \in Paths, ws.deletions[p] = None, NEW r \in Regions
      PROVE  /\ typed[p][r] # None /\ r \notin blanked[p] =>
                  ws.drafts[p] # None /\ ws.drafts[p].text[r] = typed[p][r]
             /\ r \in blanked[p] => ws.drafts[p] # None /\ ws.drafts[p].text[r] = Blank
             /\ /\ ws.drafts[p] # None /\ ws.drafts[p].base # Absent
                /\ r \notin blanked[p]
                => ws.drafts[p].text[r] \in {ws.drafts[p].base[r], typed[p][r]}
  <2>1. Held[p][r] = IF r \in blanked[p] THEN Blank ELSE typed[p][r]
    BY DEF Held, Written
  <2>2. PathOK(ws.drafts[p], ws.deletions[p], Held[p])
    BY <1>1 DEF WebInv, LocalInv, LocalOK
  <2>3. Blank # None
    BY WorkspaceAssumption
  <2> QED
    BY <1>1, <2>1, <2>2, <2>3 DEF PathOK
<1>2. WebInv => DraftsAreWhatWasTyped
  BY <1>1 DEF DraftsAreWhatWasTyped
<1> QED
  BY <1>2, WebInvariant, PTL
-----------------------------------------------------------------------------
(***************************************************************************)
(* pages2md.                                                               *)
(*                                                                         *)
(* The pages of a workspace are of one version of the source, that of its  *)
(* progress and of its metadata; and, as long as no removal of it was      *)
(* interrupted, no guided read is in it unless its progress says so.       *)
(***************************************************************************)
IsPage(sheet) ==
  /\ sheet = [read |-> sheet.read, text |-> sheet.text, figure |-> sheet.figure,
             version |-> sheet.version, guided |-> sheet.guided, assembly |-> sheet.assembly,
             by |-> sheet.by, joined |-> sheet.joined]
  /\ sheet.assembly \in {sheet.by, NotThere}

(* What says of which source and options a workspace is. *)
IsNote(note) ==
  /\ note = [ocr |-> note.ocr, assembly |-> note.assembly, status |-> note.status]
  /\ note.ocr = [version |-> note.ocr.version, guided |-> note.ocr.guided]

(* A book of one source, one assembly and, unless cut, its kind of reads. *)
Bound(pages, version, cut) ==
  \E assembly : \A p \in Pages :
    /\ pages[p].version = version
    /\ pages[p].by = assembly
    /\ cut \/ (pages[p].guided => assembly.guided)

BundleOf(b, version) ==
  /\ b = [progress |-> b.progress, metadata |-> b.metadata, pages |-> b.pages,
          raw |-> b.raw, manifest |-> b.manifest, files |-> b.files, book |-> b.book,
          cut |-> b.cut]
  /\ b.cut \in BOOLEAN
  /\ b.pages = [p \in Pages |-> b.pages[p]]
  /\ \A note \in {b.progress, b.metadata} :
       note # NotThere => IsNote(note) /\ note.ocr.version = version
  /\ \A p \in Pages : b.pages[p] # NotThere =>
       /\ IsPage(b.pages[p])
       /\ b.pages[p].version = version
       /\ ~b.cut => (b.pages[p].guided => b.progress.ocr.guided)
  /\ b.book # NotThere => Bound(b.book, version, b.cut)
  /\ ~b.cut => b.progress # NotThere

ConversionShape(c) ==
  /\ c = [pc |-> c.pc, version |-> c.version, ocr |-> c.ocr, assembly |-> c.assembly,
          reuses |-> c.reuses, resumes |-> c.resumes, results |-> c.results,
          assets |-> c.assets, unsaved |-> c.unsaved, group |-> c.group,
          segments |-> c.segments, failed |-> c.failed, kept |-> c.kept, at |-> c.at]
  /\ c.version \in Versions
  /\ c.ocr = OcrOf(c.version, c.assembly.guided)
  /\ c.assembly = AssemblyOf(c.assembly.code, c.assembly.guided)
  /\ c.results = [p \in Pages |-> c.results[p]]

(* A page the conversion has. *)
ResultOf(c, b, sheet) ==
  /\ IsPage(sheet)
  /\ sheet.version = c.version
  /\ sheet.by = c.assembly
  /\ ~b.cut => (sheet.guided => c.assembly.guided)

ResultsOf(c, b) ==
  \A p \in Pages : c.results[p] # NotThere => ResultOf(c, b, c.results[p])

ConversionOf(c, b) ==
  /\ ConversionShape(c)
  /\ c.pc \in {"clearing", "opening", "resuming", "saving", "rewriting", "binding",
               "verifying", "publishing", "copying"}
  /\ c.pc = "clearing" => b # NotThere
  /\ c.pc = "opening" =>
       \/ b = NotThere
       \/ /\ BundleOf(b, c.version)
          /\ ~b.cut => (b.progress.ocr.guided => c.assembly.guided)
  /\ c.pc \notin {"clearing", "opening"} => BundleOf(b, c.version)
  /\ c.pc \in {"resuming", "saving", "rewriting", "binding", "verifying"} =>
       b.progress # NotThere /\ b.progress.ocr = c.ocr
  /\ c.pc \in {"saving", "rewriting", "binding"} => ResultsOf(c, b)
  /\ c.pc \in {"rewriting", "binding"} => \A p \in Pages : c.results[p] # NotThere
  /\ c.pc \in {"publishing", "copying"} => b.book # NotThere

SettingsOK == source \in Versions
BundleOK == bundle = NotThere \/ \E version \in Versions : BundleOf(bundle, version)
ConversionOK == conversion = NoConversion \/ ConversionOf(conversion, bundle)
TargetOK ==
  target # NotThere =>
    /\ target = [form |-> target.form, whole |-> target.whole, stamp |-> target.stamp,
                 pages |-> target.pages, cut |-> target.cut, shown |-> target.shown]
    /\ Bound(target.pages, target.stamp, target.cut)

PagesInv == SettingsOK /\ BundleOK /\ ConversionOK /\ TargetOK

LEMMA RecordsAreThere ==
  /\ \A sheet : IsPage(sheet) => sheet # NotThere
  /\ \A note : IsNote(note) => note # NotThere
  /\ \A b, version : BundleOf(b, version) => b # NotThere
<1>1. ASSUME NEW sheet, IsPage(sheet), sheet = NotThere PROVE FALSE
  <2>1. DOMAIN sheet = {"read", "text", "figure", "version", "guided", "assembly", "by", "joined"}
    BY <1>1 DEF IsPage
  <2>2. DOMAIN NotThere = {"none"}
    BY DEF NotThere
  <2> QED
    BY <1>1, <2>1, <2>2
<1>2. ASSUME NEW note, IsNote(note), note = NotThere PROVE FALSE
  <2>1. DOMAIN note = {"ocr", "assembly", "status"}
    BY <1>2 DEF IsNote
  <2>2. DOMAIN NotThere = {"none"}
    BY DEF NotThere
  <2> QED
    BY <1>2, <2>1, <2>2
<1>3. ASSUME NEW b, NEW version, BundleOf(b, version), b = NotThere PROVE FALSE
  <2>1. DOMAIN b = {"progress", "metadata", "pages", "raw", "manifest", "files", "book", "cut"}
    BY <1>3 DEF BundleOf
  <2>2. DOMAIN NotThere = {"none"}
    BY DEF NotThere
  <2> QED
    BY <1>3, <2>1, <2>2
<1> QED
  BY <1>1, <1>2, <1>3

(* What a conversion says of itself. *)
LEMMA ProgressFacts ==
  ASSUME NEW status, ConversionShape(conversion)
  PROVE  /\ IsNote(Progress(status)) /\ Progress(status) # NotThere
         /\ Progress(status).ocr = conversion.ocr
         /\ Progress(status).ocr.version = conversion.version
         /\ Progress(status).ocr.guided = conversion.assembly.guided
<1>1. conversion.ocr = [version |-> conversion.version, guided |-> conversion.assembly.guided]
  BY DEF ConversionShape, OcrOf
<1>2. /\ Progress(status).ocr = conversion.ocr
      /\ Progress(status) = [ocr |-> conversion.ocr, assembly |-> conversion.assembly,
                             status |-> status]
  BY DEF Progress
<1>3. IsNote(Progress(status))
  BY <1>1, <1>2 DEF IsNote
<1> QED
  BY <1>1, <1>2, <1>3, RecordsAreThere

(* The phases between the opening of the workspace and its verification. *)
Working(c, b) ==
  /\ ConversionShape(c)
  /\ BundleOf(b, c.version)
  /\ b.progress # NotThere /\ b.progress.ocr = c.ocr

Phases == {"resuming", "saving", "rewriting", "binding", "verifying"}

LEMMA WorkingFacts ==
  ASSUME ConversionOK, conversion.pc \in Phases
  PROVE  /\ Working(conversion, bundle)
         /\ conversion.pc \in {"saving", "rewriting", "binding"} => ResultsOf(conversion, bundle)
         /\ conversion.pc \in {"rewriting", "binding"} =>
              \A p \in Pages : conversion.results[p] # NotThere
<1>1. conversion # NoConversion
  BY DEF NoConversion, Phases
<1>2. ConversionOf(conversion, bundle)
  BY <1>1 DEF ConversionOK
<1> QED
  BY <1>2 DEF ConversionOf, Working, Phases

LEMMA WorkingGoesOn ==
  ASSUME NEW c, NEW b, Working(c, b), c.pc \in Phases,
         c.pc \in {"saving", "rewriting", "binding"} => ResultsOf(c, b),
         c.pc \in {"rewriting", "binding"} => \A p \in Pages : c.results[p] # NotThere
  PROVE  /\ ConversionOf(c, b)
         /\ \E version \in Versions : BundleOf(b, version)
<1>1. c.version \in Versions
  BY DEF Working, ConversionShape
<1> QED
  BY <1>1 DEF ConversionOf, Working, Phases

(* Changes of a workspace that touch neither its notes nor its pages. *)
LEMMA SamePages ==
  ASSUME NEW b, NEW d, NEW version, BundleOf(b, version),
         d = [progress |-> b.progress, metadata |-> b.metadata, pages |-> b.pages,
              raw |-> d.raw, manifest |-> d.manifest, files |-> d.files, book |-> b.book,
              cut |-> b.cut]
  PROVE  BundleOf(d, version) /\ d.progress = b.progress /\ d.cut = b.cut
<1>1. /\ d.progress = b.progress /\ d.metadata = b.metadata /\ d.pages = b.pages
      /\ d.book = b.book /\ d.cut = b.cut
  OBVIOUS
<1>2. d = [progress |-> d.progress, metadata |-> d.metadata, pages |-> d.pages,
           raw |-> d.raw, manifest |-> d.manifest, files |-> d.files, book |-> d.book,
           cut |-> d.cut]
  BY <1>1
<1> QED
  BY <1>1, <1>2 DEF BundleOf

(* A new progress, of the same source and no less guided. *)
LEMMA SaysMore ==
  ASSUME NEW b, NEW d, NEW version, NEW note, BundleOf(b, version),
         IsNote(note), note # NotThere, note.ocr.version = version,
         ~b.cut => (b.progress.ocr.guided => note.ocr.guided),
         d = [progress |-> note, metadata |-> b.metadata, pages |-> b.pages,
              raw |-> b.raw, manifest |-> b.manifest, files |-> d.files, book |-> b.book,
              cut |-> b.cut]
  PROVE  BundleOf(d, version) /\ d.progress = note /\ d.cut = b.cut
<1>1. /\ d.progress = note /\ d.metadata = b.metadata /\ d.pages = b.pages
      /\ d.book = b.book /\ d.cut = b.cut
  OBVIOUS
<1>2. d = [progress |-> d.progress, metadata |-> d.metadata, pages |-> d.pages,
           raw |-> d.raw, manifest |-> d.manifest, files |-> d.files, book |-> d.book,
           cut |-> d.cut]
  OBVIOUS
<1>3. ASSUME NEW p \in Pages, d.pages[p] # NotThere
      PROVE  /\ IsPage(d.pages[p]) /\ d.pages[p].version = version
             /\ ~d.cut => (d.pages[p].guided => d.progress.ocr.guided)
  BY <1>1, <1>3 DEF BundleOf
<1> QED
  BY <1>1, <1>2, <1>3 DEF BundleOf

(* One page of the workspace is replaced by one of the conversion. *)
LEMMA PageStored ==
  ASSUME NEW b, NEW c, NEW d, NEW q, Working(c, b), ResultsOf(c, b),
         d = [progress |-> b.progress, metadata |-> b.metadata,
              pages |-> [b.pages EXCEPT ![q] = c.results[q]],
              raw |-> b.raw, manifest |-> b.manifest, files |-> b.files, book |-> b.book,
              cut |-> b.cut]
  PROVE  BundleOf(d, c.version) /\ d.progress = b.progress /\ d.cut = b.cut
<1>1. /\ d.progress = b.progress /\ d.metadata = b.metadata
      /\ d.book = b.book /\ d.cut = b.cut /\ d.pages = [b.pages EXCEPT ![q] = c.results[q]]
  OBVIOUS
<1>2. d = [progress |-> d.progress, metadata |-> d.metadata, pages |-> d.pages,
           raw |-> d.raw, manifest |-> d.manifest, files |-> d.files, book |-> d.book,
           cut |-> d.cut]
  OBVIOUS
<1>3. b.pages = [p \in Pages |-> b.pages[p]]
  BY DEF Working, BundleOf
<1>4. d.pages = [p \in Pages |-> d.pages[p]]
  BY <1>1, <1>3
<1>5. b.progress.ocr.guided = c.assembly.guided
  BY DEF Working, ConversionShape, OcrOf
<1>6. ASSUME NEW p \in Pages, d.pages[p] # NotThere
      PROVE  /\ IsPage(d.pages[p]) /\ d.pages[p].version = c.version
             /\ ~d.cut => (d.pages[p].guided => d.progress.ocr.guided)
  <2>1. CASE p = q
    <3>1. d.pages[p] = c.results[p]
      BY <1>1, <1>3, <2>1
    <3>2. ResultOf(c, b, c.results[p])
      BY <1>6, <3>1 DEF ResultsOf
    <3> QED
      BY <1>1, <1>5, <3>1, <3>2 DEF ResultOf
  <2>2. CASE p # q
    <3>1. d.pages[p] = b.pages[p]
      BY <1>1, <1>3, <2>2
    <3> QED
      BY <1>1, <1>6, <3>1 DEF Working, BundleOf
  <2> QED
    BY <2>1, <2>2
<1> QED
  BY <1>1, <1>2, <1>4, <1>6 DEF Working, BundleOf

(***************************************************************************)
(* Each step, by what it does to the workspace and the conversion.         *)
(***************************************************************************)
LEMMA ConvertKeeps ==
  ASSUME PagesInv, NEW guided \in BOOLEAN, NEW fresh \in BOOLEAN, NEW force \in BOOLEAN,
         Convert(guided, fresh, force)
  PROVE  BundleOK' /\ ConversionOK'
<1> DEFINE ocr == OcrOf(source, guided)
           assembly == AssemblyOf(code, guided)
           reuses == ReusesOcr(bundle, ocr)
<1>1. /\ conversion' = [pc |-> IF bundle # NotThere /\ ~reuses THEN "clearing"
                          ELSE IF Finished(bundle, ocr, assembly, fresh)
                               THEN "publishing" ELSE "opening",
                   version |-> source, ocr |-> ocr, assembly |-> assembly,
                   reuses |-> reuses,
                   resumes |-> ResumesPages(bundle, ocr, assembly, fresh),
                   results |-> [p \in Pages |-> NotThere], assets |-> <<>>,
                   unsaved |-> {}, group |-> <<>>, segments |-> <<>>,
                   failed |-> {}, kept |-> FALSE, at |-> 0]
      /\ bundle' = bundle
  BY DEF Convert
<1>2. source \in Versions /\ BundleOK
  BY DEF PagesInv, SettingsOK
<1>3. ASSUME reuses
      PROVE  /\ BundleOf(bundle, source)
             /\ ~bundle.cut => (bundle.progress.ocr.guided => guided)
  <2>1. /\ State(bundle) # NotThere /\ State(bundle).ocr.version = source
        /\ ~(State(bundle).ocr.guided /\ ~guided)
    BY <1>3 DEF ReusesOcr, CompatibleOcr, OcrOf
  <2>2. /\ bundle # NotThere
        /\ State(bundle) = IF bundle.progress # NotThere THEN bundle.progress ELSE bundle.metadata
    BY <2>1 DEF State
  <2>3. PICK version \in Versions : BundleOf(bundle, version)
    BY <1>2, <2>2 DEF BundleOK
  <2>4. version = source
    BY <2>1, <2>2, <2>3 DEF BundleOf
  <2>5. ~bundle.cut => State(bundle) = bundle.progress
    BY <2>2, <2>3 DEF BundleOf
  <2> QED
    BY <2>1, <2>3, <2>4, <2>5
<1>4. /\ conversion'.version = source /\ conversion'.ocr = ocr
      /\ conversion'.assembly = assembly
      /\ conversion'.results = [p \in Pages |-> NotThere]
      /\ assembly.guided = guided /\ assembly.code = code
      /\ conversion'.pc = IF bundle # NotThere /\ ~reuses THEN "clearing"
                          ELSE IF Finished(bundle, ocr, assembly, fresh)
                               THEN "publishing" ELSE "opening"
  BY <1>1 DEF AssemblyOf
<1>5. ConversionShape(conversion')
  BY <1>1, <1>2, <1>4 DEF ConversionShape, OcrOf, AssemblyOf
<1>6. Finished(bundle, ocr, assembly, fresh) => reuses /\ bundle.book # NotThere
  BY DEF Finished, ResumesPages, Verified
<1> HIDE DEF ocr, assembly, reuses
<1>7. ASSUME conversion'.pc = "clearing" PROVE ConversionOf(conversion', bundle')
  BY <1>1, <1>4, <1>5, <1>7 DEF ConversionOf
<1>8. ASSUME conversion'.pc = "opening" PROVE ConversionOf(conversion', bundle')
  <2>1. bundle = NotThere \/ reuses
    BY <1>4, <1>8
  <2>2. \/ bundle = NotThere
        \/ /\ BundleOf(bundle, conversion'.version)
           /\ ~bundle.cut => (bundle.progress.ocr.guided => conversion'.assembly.guided)
    BY <1>3, <1>4, <2>1
  <2> QED
    BY <1>1, <1>5, <1>8, <2>2 DEF ConversionOf
<1>9. ASSUME conversion'.pc = "publishing" PROVE ConversionOf(conversion', bundle')
  <2>1. reuses /\ bundle.book # NotThere
    BY <1>4, <1>6, <1>9
  <2>2. BundleOf(bundle, conversion'.version)
    BY <1>3, <1>4, <2>1
  <2> QED
    BY <1>1, <1>5, <1>9, <2>1, <2>2 DEF ConversionOf
<1>10. ConversionOf(conversion', bundle')
  BY <1>1, <1>4, <1>7, <1>8, <1>9
<1> QED
  BY <1>1, <1>2, <1>10 DEF BundleOK, ConversionOK

LEMMA ClearKeeps ==
  ASSUME PagesInv, Clear
  PROVE  BundleOK' /\ ConversionOK'
<1>1. /\ conversion.pc = "clearing" /\ bundle' = NotThere
      /\ conversion' = [conversion EXCEPT !.pc = "opening"]
  BY DEF Clear
<1>2. ConversionShape(conversion)
  BY <1>1 DEF PagesInv, ConversionOK, ConversionOf, NoConversion
<1>3. ConversionShape(conversion') /\ conversion'.pc = "opening"
  BY <1>1, <1>2 DEF ConversionShape
<1>4. ConversionOf(conversion', bundle')
  BY <1>1, <1>3 DEF ConversionOf
<1> QED
  BY <1>1, <1>4 DEF BundleOK, ConversionOK

LEMMA OpenKeeps ==
  ASSUME PagesInv, Open
  PROVE  BundleOK' /\ ConversionOK'
<1>1. conversion.pc = "opening" /\ conversion' = [conversion EXCEPT !.pc = "resuming"]
  BY DEF Open
<1>2. ConversionOf(conversion, bundle)
  BY <1>1 DEF PagesInv, ConversionOK, NoConversion
<1>3. ConversionShape(conversion)
  BY <1>2 DEF ConversionOf
<1>4. /\ ConversionShape(conversion') /\ conversion'.pc = "resuming"
      /\ conversion'.version = conversion.version /\ conversion'.ocr = conversion.ocr
  BY <1>1, <1>3 DEF ConversionShape
<1> DEFINE note == Progress("opening")
<1>5. /\ IsNote(note) /\ note # NotThere /\ note.ocr = conversion.ocr
      /\ note.ocr.version = conversion.version
      /\ note.ocr.guided = conversion.assembly.guided
  BY <1>3, ProgressFacts
<1> HIDE DEF note
<1>6. BundleOf(bundle', conversion.version) /\ bundle'.progress = note
  <2>1. CASE bundle = NotThere
    <3>1. bundle' = [progress |-> note, metadata |-> NotThere,
                     pages |-> [p \in Pages |-> NotThere], raw |-> {},
                     manifest |-> <<>>, files |-> <<>>, book |-> NotThere, cut |-> FALSE]
      BY <2>1 DEF Open, note
    <3>2. /\ bundle'.progress = note /\ bundle'.metadata = NotThere
          /\ bundle'.pages = [p \in Pages |-> NotThere]
          /\ bundle'.book = NotThere /\ bundle'.cut = FALSE
      BY <3>1
    <3> QED
      BY <1>5, <3>1, <3>2 DEF BundleOf
  <2>2. CASE bundle # NotThere
    <3>1. bundle' = [bundle EXCEPT !.progress = note]
      BY <2>2 DEF Open, note
    <3>2. /\ BundleOf(bundle, conversion.version)
          /\ ~bundle.cut => (bundle.progress.ocr.guided => conversion.assembly.guided)
      BY <1>1, <1>2, <2>2 DEF ConversionOf
    <3>3. bundle' = [progress |-> note, metadata |-> bundle.metadata, pages |-> bundle.pages,
                     raw |-> bundle.raw, manifest |-> bundle.manifest,
                     files |-> bundle'.files, book |-> bundle.book, cut |-> bundle.cut]
      BY <3>1, <3>2 DEF BundleOf
    <3> QED
      BY <1>5, <3>2, <3>3, SaysMore
  <2> QED
    BY <2>1, <2>2
<1>7. Working(conversion', bundle')
  BY <1>4, <1>5, <1>6 DEF Working
<1> QED
  BY <1>4, <1>7, WorkingGoesOn DEF Phases, BundleOK, ConversionOK

LEMMA AssembledAgain ==
  ASSUME NEW sheet, NEW figure, IsPage(sheet)
  PROVE  LET again == ReassembledPage(sheet, figure)
         IN  /\ again.version = sheet.version /\ again.guided = sheet.guided
             /\ again.by = conversion.assembly /\ IsPage(again)
<1> DEFINE again == ReassembledPage(sheet, figure)
           read == Pieces(sheet.read)
<1>1. again = [sheet EXCEPT !.text = read, !.figure = figure,
                           !.assembly = conversion.assembly, !.by = conversion.assembly,
                           !.joined = "no"]
  BY DEF ReassembledPage
<1> HIDE DEF again, read
<1>2. again = [read |-> sheet.read, text |-> read, figure |-> figure,
               version |-> sheet.version, guided |-> sheet.guided,
               assembly |-> conversion.assembly, by |-> conversion.assembly, joined |-> "no"]
  BY <1>1 DEF IsPage
<1>3. IsPage(again)
  BY <1>2 DEF IsPage
<1> QED
  BY <1>2, <1>3 DEF again

LEMMA BlankAssembled ==
  ASSUME NEW p
  PROVE  LET sheet == PageOf(p, <<>>, FALSE)
         IN  /\ sheet.version = conversion.version /\ sheet.guided = FALSE
             /\ sheet.by = conversion.assembly /\ IsPage(sheet)
BY DEF PageOf, IsPage

LEMMA ResumeKeeps ==
  ASSUME PagesInv, Resume
  PROVE  BundleOK' /\ ConversionOK'
<1>1. conversion.pc = "resuming"
  BY DEF Resume
<1>2. Working(conversion, bundle)
  BY <1>1, WorkingFacts DEF PagesInv, Phases
<1> DEFINE loaded == IF conversion.reuses THEN bundle.manifest ELSE <<>>
           added == WithFigures(loaded, Reassembled)
           blanks == BlankPages \ (Resumed \union Reassembled)
           results == [p \in Pages |->
                    CASE p \in Resumed -> bundle.pages[p]
                      [] p \in Reassembled ->
                            ReassembledPage(bundle.pages[p], FigureOf(added, p))
                      [] p \in blanks ->
                            [PageOf(p, <<>>, FALSE) EXCEPT !.assembly = NotThere]
                      [] OTHER -> NotThere]
           note == Progress("running")
<1>3. /\ conversion' = [conversion EXCEPT !.pc = "saving", !.assets = added,
                          !.unsaved = Reassembled \union blanks, !.results = results]
      /\ bundle' = [bundle EXCEPT !.progress = note,
                                  !.files = FilesAfter(bundle.files, loaded, added)]
  BY DEF Resume
<1>4. /\ IsNote(note) /\ note # NotThere /\ note.ocr = conversion.ocr
      /\ note.ocr.version = conversion.version
      /\ note.ocr.guided = conversion.assembly.guided
  BY <1>2, ProgressFacts DEF Working
<1>5. /\ BundleOf(bundle, conversion.version) /\ bundle.progress.ocr = conversion.ocr
      /\ conversion.ocr.guided = conversion.assembly.guided
      /\ ConversionShape(conversion)
  BY <1>2 DEF Working, ConversionShape, OcrOf
<1>6. ASSUME NEW p \in Pages, results[p] # NotThere
      PROVE  ResultOf(conversion, bundle, results[p])
  <2>1. CASE p \in Resumed
    <3>1. p \notin Reassembled /\ p \notin blanks
      BY <2>1 DEF Reassembled
    <3>2. results[p] = bundle.pages[p]
      BY <2>1, <3>1
    <3> HIDE DEF results
    <3>3. /\ bundle.pages[p] # NotThere
          /\ bundle.pages[p].assembly = conversion.assembly
      BY <2>1 DEF Resumed, OwnAssembly
    <3>4. conversion.assembly # NotThere
      <4>1. DOMAIN conversion.assembly = {"code", "guided"}
        BY <1>5 DEF ConversionShape, AssemblyOf
      <4>2. DOMAIN NotThere = {"none"}
        BY DEF NotThere
      <4> QED
        BY <4>1, <4>2
    <3> QED
      BY <1>5, <3>2, <3>3, <3>4 DEF ResultOf, BundleOf, IsPage
  <2>2. CASE p \notin Resumed /\ p \in Reassembled
    <3> DEFINE sheet == bundle.pages[p]
               figure == FigureOf(added, p)
    <3>1. results[p] = ReassembledPage(sheet, figure)
      BY <2>2
    <3> HIDE DEF results, figure
    <3>2. sheet # NotThere
      BY <2>2 DEF Reassembled
    <3>3. /\ IsPage(bundle.pages[p]) /\ bundle.pages[p].version = conversion.version
          /\ ~bundle.cut => (bundle.pages[p].guided => bundle.progress.ocr.guided)
      BY <1>5, <3>2 DEF BundleOf
    <3>4. /\ IsPage(sheet) /\ sheet.version = conversion.version
          /\ ~bundle.cut => (sheet.guided => conversion.assembly.guided)
      BY <1>5, <3>3
    <3> HIDE DEF sheet
    <3>5. /\ results[p].version = sheet.version /\ results[p].guided = sheet.guided
          /\ results[p].by = conversion.assembly /\ IsPage(results[p])
      BY <3>1, <3>4, AssembledAgain
    <3> QED
      BY <3>4, <3>5 DEF ResultOf
  <2>3. CASE p \notin Resumed /\ p \notin Reassembled /\ p \in blanks
    <3> DEFINE sheet == PageOf(p, <<>>, FALSE)
    <3>1. results[p] = [sheet EXCEPT !.assembly = NotThere]
      BY <2>3
    <3> HIDE DEF results, sheet
    <3>2. /\ sheet.version = conversion.version /\ sheet.guided = FALSE
          /\ sheet.by = conversion.assembly /\ IsPage(sheet)
      BY BlankAssembled DEF sheet
    <3>3. /\ results[p].version = conversion.version /\ results[p].guided = FALSE
          /\ results[p].by = conversion.assembly /\ IsPage(results[p])
      BY <3>1, <3>2 DEF IsPage
    <3> QED
      BY <3>3 DEF ResultOf
  <2>4. CASE p \notin Resumed /\ p \notin Reassembled /\ p \notin blanks
    BY <1>6, <2>4
  <2> QED
    BY <2>1, <2>2, <2>3, <2>4
<1>7. results = [p \in Pages |-> results[p]]
  OBVIOUS
<1> HIDE DEF loaded, added, blanks, results, note
<1>8. bundle' = [progress |-> note, metadata |-> bundle.metadata, pages |-> bundle.pages,
                 raw |-> bundle.raw, manifest |-> bundle.manifest,
                 files |-> bundle'.files, book |-> bundle.book, cut |-> bundle.cut]
  BY <1>3, <1>5 DEF BundleOf
<1>9. BundleOf(bundle', conversion.version) /\ bundle'.progress = note
      /\ bundle'.cut = bundle.cut
  BY <1>4, <1>5, <1>8, SaysMore
<1>10. /\ ConversionShape(conversion') /\ conversion'.pc = "saving"
       /\ conversion'.version = conversion.version /\ conversion'.ocr = conversion.ocr
       /\ conversion'.assembly = conversion.assembly /\ conversion'.results = results
  BY <1>3, <1>5, <1>7 DEF ConversionShape
<1>11. Working(conversion', bundle')
  BY <1>4, <1>9, <1>10 DEF Working
<1>12. ResultsOf(conversion', bundle')
  BY <1>6, <1>9, <1>10 DEF ResultsOf, ResultOf
<1> QED
  BY <1>10, <1>11, <1>12, WorkingGoesOn DEF Phases, BundleOK, ConversionOK

(* A step within a working phase that keeps the results, notes and pages. *)
LEMMA WorkGoesOn ==
  ASSUME PagesInv, conversion.pc \in Phases,
         ConversionShape(conversion'), conversion'.pc = conversion.pc,
         conversion'.version = conversion.version, conversion'.ocr = conversion.ocr,
         conversion'.assembly = conversion.assembly,
         conversion'.results = conversion.results,
         BundleOf(bundle', conversion.version), bundle'.progress = bundle.progress,
         bundle'.cut = bundle.cut
  PROVE  BundleOK' /\ ConversionOK'
<1>1. /\ Working(conversion, bundle)
      /\ conversion.pc \in {"saving", "rewriting", "binding"} => ResultsOf(conversion, bundle)
      /\ conversion.pc \in {"rewriting", "binding"} =>
           \A p \in Pages : conversion.results[p] # NotThere
  BY WorkingFacts DEF PagesInv
<1>2. Working(conversion', bundle')
  BY <1>1 DEF Working
<1>3. conversion'.pc \in {"saving", "rewriting", "binding"} => ResultsOf(conversion', bundle')
  BY <1>1 DEF ResultsOf, ResultOf
<1> QED
  BY <1>1, <1>2, <1>3, WorkingGoesOn DEF BundleOK, ConversionOK

LEMMA StoreManifestKeeps ==
  ASSUME PagesInv, StoreManifest
  PROVE  BundleOK' /\ ConversionOK'
<1>1. /\ conversion.pc = "saving"
      /\ bundle' = [bundle EXCEPT !.manifest = KeptManifest(bundle.manifest, conversion.assets)]
      /\ conversion' = [conversion EXCEPT !.kept = TRUE]
  BY DEF StoreManifest
<1>2. Working(conversion, bundle)
  BY <1>1, WorkingFacts DEF PagesInv, Phases
<1>3. bundle' = [progress |-> bundle.progress, metadata |-> bundle.metadata,
                 pages |-> bundle.pages, raw |-> bundle'.raw, manifest |-> bundle'.manifest,
                 files |-> bundle'.files, book |-> bundle.book, cut |-> bundle.cut]
  BY <1>1, <1>2 DEF Working, BundleOf
<1>4. /\ BundleOf(bundle', conversion.version) /\ bundle'.progress = bundle.progress
      /\ bundle'.cut = bundle.cut
  BY <1>2, <1>3, SamePages DEF Working
<1>5. /\ ConversionShape(conversion') /\ conversion'.pc = conversion.pc
      /\ conversion'.version = conversion.version /\ conversion'.ocr = conversion.ocr
      /\ conversion'.assembly = conversion.assembly /\ conversion'.results = conversion.results
  BY <1>1, <1>2 DEF Working, ConversionShape
<1> QED
  BY <1>1, <1>4, <1>5, WorkGoesOn DEF Phases

LEMMA StorePageKeeps ==
  ASSUME PagesInv, StorePage
  PROVE  BundleOK' /\ ConversionOK'
<1> DEFINE p == FirstOf(conversion.unsaved)
<1>1. /\ conversion.pc = "saving"
      /\ bundle' = [bundle EXCEPT !.pages[p] = conversion.results[p]]
      /\ conversion' = [conversion EXCEPT !.unsaved = conversion.unsaved \ {p}, !.kept = FALSE]
  BY DEF StorePage
<1> HIDE DEF p
<1>2. Working(conversion, bundle) /\ ResultsOf(conversion, bundle)
  BY <1>1, WorkingFacts DEF PagesInv, Phases
<1>3. bundle' = [progress |-> bundle.progress, metadata |-> bundle.metadata,
                 pages |-> [bundle.pages EXCEPT ![p] = conversion.results[p]],
                 raw |-> bundle.raw, manifest |-> bundle.manifest,
                 files |-> bundle.files, book |-> bundle.book, cut |-> bundle.cut]
  BY <1>1, <1>2 DEF Working, BundleOf
<1>4. /\ BundleOf(bundle', conversion.version) /\ bundle'.progress = bundle.progress
      /\ bundle'.cut = bundle.cut
  BY <1>2, <1>3, PageStored
<1>5. /\ ConversionShape(conversion') /\ conversion'.pc = conversion.pc
      /\ conversion'.version = conversion.version /\ conversion'.ocr = conversion.ocr
      /\ conversion'.assembly = conversion.assembly /\ conversion'.results = conversion.results
  BY <1>1, <1>2 DEF Working, ConversionShape
<1> QED
  BY <1>1, <1>4, <1>5, WorkGoesOn DEF Phases

LEMMA ReadGroupKeeps ==
  ASSUME PagesInv, ReadGroup
  PROVE  BundleOK' /\ ConversionOK'
<1>1. conversion.pc = "saving"
  BY DEF ReadGroup
<1>2. Working(conversion, bundle)
  BY <1>1, WorkingFacts DEF PagesInv, Phases
<1>3. /\ \E raw : bundle' = [bundle EXCEPT !.raw = raw]
      /\ \E group, segments, failed :
           conversion' = [conversion EXCEPT !.group = group, !.segments = segments,
                                            !.failed = failed]
  <2>1. CASE \E starts \in {s \in SUBSET Range(NextGroup) : NextGroup[1] \in s} :
                /\ bundle' = [bundle EXCEPT !.raw = bundle.raw \union Range(NextGroup)]
                /\ conversion' = [conversion EXCEPT
                    !.group = NextGroup,
                    !.segments = [i \in 1..Len(NextGroup) |->
                                    Segment(NextGroup, starts, NextGroup[i])]]
    <3>1. PICK starts : conversion' = [conversion EXCEPT
                    !.group = NextGroup,
                    !.segments = [i \in 1..Len(NextGroup) |->
                                    Segment(NextGroup, starts, NextGroup[i])]]
      BY <2>1
    <3> DEFINE segments == [i \in 1..Len(NextGroup) |->
                              Segment(NextGroup, starts, NextGroup[i])]
    <3>2. conversion' = [conversion EXCEPT !.group = NextGroup, !.segments = segments]
      BY <3>1
    <3> HIDE DEF segments
    <3>3. conversion' = [conversion EXCEPT !.group = NextGroup, !.segments = segments,
                                           !.failed = conversion.failed]
      BY <1>2, <3>2 DEF Working, ConversionShape
    <3> QED
      BY <2>1, <3>3
  <2>2. CASE /\ conversion' = [conversion EXCEPT
                  !.failed = conversion.failed \union Range(NextGroup)]
             /\ UNCHANGED bundle
    <3> DEFINE failed == conversion.failed \union Range(NextGroup)
    <3>1. conversion' = [conversion EXCEPT !.failed = failed]
      BY <2>2
    <3> HIDE DEF failed
    <3>2. conversion' = [conversion EXCEPT !.group = conversion.group,
                                           !.segments = conversion.segments, !.failed = failed]
      BY <1>2, <3>1 DEF Working, ConversionShape
    <3>3. bundle' = [bundle EXCEPT !.raw = bundle.raw]
      BY <1>2, <2>2 DEF Working, BundleOf
    <3> QED
      BY <3>2, <3>3
  <2> QED
    BY <2>1, <2>2 DEF ReadGroup
<1>4. bundle' = [progress |-> bundle.progress, metadata |-> bundle.metadata,
                 pages |-> bundle.pages, raw |-> bundle'.raw, manifest |-> bundle'.manifest,
                 files |-> bundle'.files, book |-> bundle.book, cut |-> bundle.cut]
  BY <1>2, <1>3 DEF Working, BundleOf
<1>5. /\ BundleOf(bundle', conversion.version) /\ bundle'.progress = bundle.progress
      /\ bundle'.cut = bundle.cut
  BY <1>2, <1>4, SamePages DEF Working
<1>6. /\ ConversionShape(conversion') /\ conversion'.pc = conversion.pc
      /\ conversion'.version = conversion.version /\ conversion'.ocr = conversion.ocr
      /\ conversion'.assembly = conversion.assembly /\ conversion'.results = conversion.results
  BY <1>2, <1>3 DEF Working, ConversionShape
<1> QED
  BY <1>1, <1>5, <1>6, WorkGoesOn DEF Phases

LEMMA AssemblePageKeeps ==
  ASSUME PagesInv, AssemblePage
  PROVE  BundleOK' /\ ConversionOK'
<1>1. conversion.pc = "saving"
  BY DEF AssemblePage
<1>2. Working(conversion, bundle) /\ ResultsOf(conversion, bundle)
  BY <1>1, WorkingFacts DEF PagesInv, Phases
<1>3. /\ ConversionShape(conversion) /\ BundleOf(bundle, conversion.version)
      /\ conversion.ocr.guided = conversion.assembly.guided
  BY <1>2 DEF Working, ConversionShape, OcrOf
<1> DEFINE p == Head(conversion.group)
           read == Head(conversion.segments)
           added == WithFigures(conversion.assets, {p})
           rest == [conversion EXCEPT !.group = Tail(conversion.group),
                                      !.segments = Tail(conversion.segments)]
           files == FilesAfter(bundle.files, conversion.assets, added)
<1>4. /\ ConversionShape(rest) /\ rest.pc = conversion.pc
      /\ rest.version = conversion.version /\ rest.ocr = conversion.ocr
      /\ rest.assembly = conversion.assembly /\ rest.results = conversion.results
  <2> DEFINE group == Tail(conversion.group)
             segments == Tail(conversion.segments)
  <2>1. rest = [conversion EXCEPT !.group = group, !.segments = segments]
    OBVIOUS
  <2> HIDE DEF rest, group, segments
  <2> QED
    BY <1>3, <2>1 DEF ConversionShape
<1>5. \/ \E kept \in {read, <<p>>} :
           /\ conversion' = [rest EXCEPT
                !.results[p] = [PageOf(p, kept, conversion.ocr.guided) EXCEPT
                                  !.figure = FigureOf(added, p)],
                !.assets = added,
                !.unsaved = {p}]
           /\ bundle' = [bundle EXCEPT !.files = files]
      \/ /\ conversion' = [rest EXCEPT !.failed = rest.failed \union {p}]
         /\ UNCHANGED bundle
  BY DEF AssemblePage
<1> HIDE DEF p, read, added, rest, files
<1>6. CASE /\ conversion' = [rest EXCEPT !.failed = rest.failed \union {p}]
           /\ UNCHANGED bundle
  <2>1. /\ ConversionShape(conversion') /\ conversion'.pc = conversion.pc
        /\ conversion'.version = conversion.version /\ conversion'.ocr = conversion.ocr
        /\ conversion'.assembly = conversion.assembly /\ conversion'.results = conversion.results
    BY <1>4, <1>6 DEF ConversionShape
  <2> QED
    BY <1>1, <1>3, <1>6, <2>1, WorkGoesOn DEF Phases
<1>7. ASSUME NEW kept \in {read, <<p>>},
             conversion' = [rest EXCEPT
                !.results[p] = [PageOf(p, kept, conversion.ocr.guided) EXCEPT
                                  !.figure = FigureOf(added, p)],
                !.assets = added,
                !.unsaved = {p}],
             bundle' = [bundle EXCEPT !.files = files]
      PROVE  BundleOK' /\ ConversionOK'
  <2> DEFINE sheet == [PageOf(p, kept, conversion.ocr.guided) EXCEPT
                        !.figure = FigureOf(added, p)]
  <2>1. ResultOf(conversion, bundle, sheet)
    <3> DEFINE text == Pieces(kept)
               figure == FigureOf(added, p)
    <3>1. sheet = [read |-> kept, text |-> text, figure |-> figure,
                  version |-> conversion.version, guided |-> conversion.ocr.guided,
                  assembly |-> conversion.assembly, by |-> conversion.assembly,
                  joined |-> "no"]
      BY DEF PageOf
    <3> HIDE DEF sheet, text, figure
    <3> QED
      BY <1>3, <3>1 DEF ResultOf, IsPage
  <2>2. conversion' = [rest EXCEPT !.results[p] = sheet, !.assets = added, !.unsaved = {p}]
    BY <1>7
  <2> HIDE DEF sheet
  <2>3. /\ ConversionShape(conversion') /\ conversion'.pc = conversion.pc
        /\ conversion'.version = conversion.version /\ conversion'.ocr = conversion.ocr
        /\ conversion'.assembly = conversion.assembly
        /\ conversion'.results = [conversion.results EXCEPT ![p] = sheet]
    BY <1>4, <2>2 DEF ConversionShape
  <2>4. bundle' = [progress |-> bundle.progress, metadata |-> bundle.metadata,
                   pages |-> bundle.pages, raw |-> bundle'.raw, manifest |-> bundle'.manifest,
                   files |-> bundle'.files, book |-> bundle.book, cut |-> bundle.cut]
    BY <1>3, <1>7 DEF BundleOf
  <2>5. /\ BundleOf(bundle', conversion.version) /\ bundle'.progress = bundle.progress
        /\ bundle'.cut = bundle.cut
    BY <1>3, <2>4, SamePages
  <2>6. Working(conversion', bundle')
    BY <1>2, <2>3, <2>5 DEF Working
  <2>7. ASSUME NEW q \in Pages, conversion'.results[q] # NotThere
        PROVE  ResultOf(conversion', bundle', conversion'.results[q])
    <3>1. ResultOf(conversion, bundle, conversion'.results[q])
      <4>1. CASE q = p
        BY <1>3, <2>1, <2>3, <4>1 DEF ConversionShape
      <4>2. CASE q # p
        BY <1>2, <1>3, <2>3, <2>7, <4>2 DEF ResultsOf, ConversionShape
      <4> QED
        BY <4>1, <4>2
    <3> QED
      BY <2>3, <2>5, <3>1 DEF ResultOf
  <2> QED
    BY <1>1, <2>3, <2>6, <2>7, WorkingGoesOn DEF Phases, BundleOK, ConversionOK, ResultsOf
<1> QED
  BY <1>5, <1>6, <1>7

LEMMA FailPagesKeeps ==
  ASSUME PagesInv, FailPages
  PROVE  BundleOK' /\ ConversionOK'
<1> DEFINE note == Progress("failed")
<1>1. /\ conversion.pc = "saving" /\ conversion' = NoConversion
      /\ bundle' = [bundle EXCEPT !.progress = note]
  BY DEF FailPages, PagesDone
<1>2. Working(conversion, bundle)
  BY <1>1, WorkingFacts DEF PagesInv, Phases
<1>3. /\ IsNote(note) /\ note # NotThere /\ note.ocr.version = conversion.version
      /\ note.ocr.guided = conversion.assembly.guided
  BY <1>2, ProgressFacts DEF Working
<1>4. BundleOf(bundle, conversion.version) /\ conversion.version \in Versions
      /\ bundle.progress.ocr.guided = conversion.assembly.guided
  BY <1>2 DEF Working, ConversionShape, OcrOf
<1> HIDE DEF note
<1>5. bundle' = [progress |-> note, metadata |-> bundle.metadata, pages |-> bundle.pages,
                 raw |-> bundle.raw, manifest |-> bundle.manifest,
                 files |-> bundle'.files, book |-> bundle.book, cut |-> bundle.cut]
  BY <1>1, <1>4 DEF BundleOf
<1>6. BundleOf(bundle', conversion.version)
  BY <1>3, <1>4, <1>5, SaysMore
<1> QED
  BY <1>1, <1>4, <1>6 DEF BundleOK, ConversionOK

LEMMA NormalizeKeeps ==
  ASSUME PagesInv, Normalize
  PROVE  BundleOK' /\ ConversionOK'
<1>1. /\ conversion.pc = "saving" /\ ToRead = {} /\ conversion.failed = {} /\ bundle' = bundle
  BY DEF Normalize, PagesDone
<1>2. Working(conversion, bundle) /\ ResultsOf(conversion, bundle)
  BY <1>1, WorkingFacts DEF PagesInv, Phases
<1>3. ConversionShape(conversion)
  BY <1>2 DEF Working
<1> DEFINE texts == Normalized([p \in Pages |-> conversion.results[p].text])
           alike == \E j \in {"no", "yes"} : \A p \in Pages : conversion.results[p].joined = j
           joined == IF alike THEN "yes" ELSE "mixed"
           results == [p \in Pages |->
                        [conversion.results[p] EXCEPT
                           !.text = texts[p], !.assembly = conversion.assembly,
                           !.joined = joined]]
<1>4. conversion' = [conversion EXCEPT !.pc = "rewriting", !.at = 1, !.results = results]
  BY DEF Normalize
<1> HIDE DEF texts, joined
<1>5. ASSUME NEW p \in Pages
      PROVE  results[p] # NotThere /\ ResultOf(conversion, bundle, results[p])
  <2>1. conversion.results[p] # NotThere
    BY <1>1 DEF ToRead
  <2>2. ResultOf(conversion, bundle, conversion.results[p])
    BY <1>2, <2>1 DEF ResultsOf
  <2> DEFINE text == texts[p]
             sheet == conversion.results[p]
  <2>3. results[p] = [sheet EXCEPT !.text = text, !.assembly = conversion.assembly,
                                  !.joined = joined]
    OBVIOUS
  <2> HIDE DEF results, text
  <2>4. /\ IsPage(results[p]) /\ results[p].version = sheet.version
        /\ results[p].by = sheet.by /\ results[p].guided = sheet.guided
    BY <2>2, <2>3 DEF ResultOf, IsPage
  <2> QED
    BY <2>2, <2>4, RecordsAreThere DEF ResultOf
<1>6. results = [p \in Pages |-> results[p]]
  OBVIOUS
<1> HIDE DEF results
<1>7. /\ ConversionShape(conversion') /\ conversion'.pc = "rewriting"
      /\ conversion'.version = conversion.version /\ conversion'.ocr = conversion.ocr
      /\ conversion'.assembly = conversion.assembly /\ conversion'.results = results
  BY <1>3, <1>4, <1>6 DEF ConversionShape
<1>8. Working(conversion', bundle')
  BY <1>1, <1>2, <1>7 DEF Working
<1>9. ResultsOf(conversion', bundle')
  BY <1>1, <1>5, <1>7 DEF ResultsOf, ResultOf
<1> QED
  BY <1>5, <1>7, <1>8, <1>9, WorkingGoesOn DEF Phases, BundleOK, ConversionOK

LEMMA RewritePageKeeps ==
  ASSUME PagesInv, RewritePage
  PROVE  BundleOK' /\ ConversionOK'
<1> DEFINE p == conversion.at
           pc == IF p = PageCount THEN "binding" ELSE conversion.pc
<1>1. /\ conversion.pc = "rewriting"
      /\ bundle' = [bundle EXCEPT !.pages[p] = conversion.results[p]]
      /\ conversion' = [conversion EXCEPT !.at = p + 1, !.pc = pc]
      /\ pc \in {"rewriting", "binding"}
  BY DEF RewritePage
<1> HIDE DEF p, pc
<1>2. /\ Working(conversion, bundle) /\ ResultsOf(conversion, bundle)
      /\ \A q \in Pages : conversion.results[q] # NotThere
  BY <1>1, WorkingFacts DEF PagesInv, Phases
<1>3. bundle' = [progress |-> bundle.progress, metadata |-> bundle.metadata,
                 pages |-> [bundle.pages EXCEPT ![p] = conversion.results[p]],
                 raw |-> bundle.raw, manifest |-> bundle.manifest,
                 files |-> bundle.files, book |-> bundle.book, cut |-> bundle.cut]
  BY <1>1, <1>2 DEF Working, BundleOf
<1>4. /\ BundleOf(bundle', conversion.version) /\ bundle'.progress = bundle.progress
      /\ bundle'.cut = bundle.cut
  BY <1>2, <1>3, PageStored
<1>5. /\ ConversionShape(conversion') /\ conversion'.pc \in {"rewriting", "binding"}
      /\ conversion'.version = conversion.version /\ conversion'.ocr = conversion.ocr
      /\ conversion'.assembly = conversion.assembly /\ conversion'.results = conversion.results
  BY <1>1, <1>2 DEF Working, ConversionShape
<1>6. Working(conversion', bundle')
  BY <1>2, <1>4, <1>5 DEF Working
<1>7. ResultsOf(conversion', bundle')
  BY <1>2, <1>4, <1>5 DEF ResultsOf, ResultOf
<1> QED
  BY <1>2, <1>5, <1>6, <1>7, WorkingGoesOn DEF Phases, BundleOK, ConversionOK

LEMMA BindKeeps ==
  ASSUME PagesInv, Bind
  PROVE  BundleOK' /\ ConversionOK'
<1> DEFINE note == Progress("assembled")
           entry == Progress("described")
<1>1. /\ conversion.pc = "binding"
      /\ bundle' = [bundle EXCEPT !.book = conversion.results, !.manifest = conversion.assets,
                                  !.metadata = entry, !.progress = note]
      /\ conversion' = [conversion EXCEPT !.pc = "verifying"]
  BY DEF Bind
<1>2. /\ Working(conversion, bundle) /\ ResultsOf(conversion, bundle)
      /\ \A q \in Pages : conversion.results[q] # NotThere
  BY <1>1, WorkingFacts DEF PagesInv, Phases
<1>3. /\ IsNote(note) /\ note # NotThere /\ note.ocr = conversion.ocr
      /\ note.ocr.version = conversion.version
      /\ note.ocr.guided = conversion.assembly.guided
      /\ IsNote(entry) /\ entry.ocr.version = conversion.version
  BY <1>2, ProgressFacts DEF Working
<1>4. BundleOf(bundle, conversion.version) /\ ConversionShape(conversion)
      /\ bundle.progress.ocr.guided = conversion.assembly.guided
  BY <1>2 DEF Working, ConversionShape, OcrOf
<1> HIDE DEF note, entry
<1>5. bundle' = [progress |-> note, metadata |-> entry, pages |-> bundle.pages,
                 raw |-> bundle.raw, manifest |-> bundle'.manifest, files |-> bundle.files,
                 book |-> conversion.results, cut |-> bundle.cut]
  BY <1>1, <1>4 DEF BundleOf
<1>6. /\ bundle'.progress = note /\ bundle'.metadata = entry /\ bundle'.pages = bundle.pages
      /\ bundle'.book = conversion.results /\ bundle'.cut = bundle.cut
  BY <1>5
<1>7. Bound(bundle'.book, conversion.version, bundle'.cut)
  <2>1. \A p \in Pages : ResultOf(conversion, bundle, conversion.results[p])
    BY <1>2 DEF ResultsOf
  <2> QED
    BY <1>4, <1>6, <2>1 DEF Bound, ResultOf, BundleOf
<1>8. bundle' = [progress |-> bundle'.progress, metadata |-> bundle'.metadata,
                 pages |-> bundle'.pages, raw |-> bundle'.raw, manifest |-> bundle'.manifest,
                 files |-> bundle'.files, book |-> bundle'.book, cut |-> bundle'.cut]
  BY <1>5
<1>9. BundleOf(bundle', conversion.version)
  BY <1>3, <1>4, <1>6, <1>7, <1>8 DEF BundleOf
<1>10. /\ ConversionShape(conversion') /\ conversion'.pc = "verifying"
       /\ conversion'.version = conversion.version /\ conversion'.ocr = conversion.ocr
  BY <1>1, <1>4 DEF ConversionShape
<1>11. Working(conversion', bundle')
  BY <1>3, <1>6, <1>9, <1>10 DEF Working
<1> QED
  BY <1>10, <1>11, WorkingGoesOn DEF Phases, BundleOK, ConversionOK

LEMMA VerifyKeeps ==
  ASSUME PagesInv, Verify
  PROVE  BundleOK' /\ ConversionOK'
<1>1. conversion.pc = "verifying"
  BY DEF Verify
<1>2. Working(conversion, bundle)
  BY <1>1, WorkingFacts DEF PagesInv, Phases
<1>3. PICK status : /\ bundle' = [bundle EXCEPT !.progress = Progress(status)]
                    /\ \/ conversion' = NoConversion
                       \/ /\ bundle.book # NotThere
                          /\ conversion' = [conversion EXCEPT !.pc = "publishing"]
  BY DEF Verify, Verified
<1> DEFINE note == Progress(status)
<1>4. /\ IsNote(note) /\ note # NotThere /\ note.ocr.version = conversion.version
      /\ note.ocr.guided = conversion.assembly.guided
  BY <1>2, ProgressFacts DEF Working
<1>5. BundleOf(bundle, conversion.version) /\ ConversionShape(conversion)
      /\ conversion.version \in Versions
      /\ bundle.progress.ocr.guided = conversion.assembly.guided
  BY <1>2 DEF Working, ConversionShape, OcrOf
<1>6. bundle' = [bundle EXCEPT !.progress = note]
  BY <1>3
<1> HIDE DEF note
<1>7. /\ bundle' = [progress |-> note, metadata |-> bundle.metadata, pages |-> bundle.pages,
                    raw |-> bundle.raw, manifest |-> bundle.manifest,
                    files |-> bundle'.files, book |-> bundle.book, cut |-> bundle.cut]
      /\ bundle'.book = bundle.book
  BY <1>5, <1>6 DEF BundleOf
<1>8. BundleOf(bundle', conversion.version)
  BY <1>4, <1>5, <1>7, SaysMore
<1>9. ASSUME bundle.book # NotThere, conversion' = [conversion EXCEPT !.pc = "publishing"]
      PROVE  ConversionOf(conversion', bundle')
  <2>1. /\ ConversionShape(conversion') /\ conversion'.pc = "publishing"
        /\ conversion'.version = conversion.version
    BY <1>5, <1>9 DEF ConversionShape
  <2> QED
    BY <1>7, <1>8, <1>9, <2>1 DEF ConversionOf
<1> QED
  BY <1>3, <1>5, <1>8, <1>9 DEF BundleOK, ConversionOK

(* What is published is bound, and the workspace stays as it is. *)
LEMMA OutputIsBound ==
  ASSUME PagesInv, conversion.pc \in {"publishing", "copying"},
         NEW form, NEW whole, target' = Output(form, whole)
  PROVE  TargetOK'
<1>1. ConversionOf(conversion, bundle)
  BY DEF PagesInv, ConversionOK, NoConversion
<1>2. BundleOf(bundle, conversion.version) /\ bundle.book # NotThere
  BY <1>1 DEF ConversionOf
<1>3. Bound(bundle.book, conversion.version, bundle.cut)
  BY <1>2 DEF BundleOf
<1> DEFINE shown == [p \in Pages |-> IF bundle.book[p].figure = 0 THEN NotThere
                                     ELSE bundle.files[bundle.book[p].figure]]
<1>4. target' = [form |-> form, whole |-> whole, stamp |-> conversion.version,
                 pages |-> bundle.book, cut |-> bundle.cut, shown |-> shown]
  BY DEF Output
<1> HIDE DEF shown
<1>5. /\ target' = [form |-> target'.form, whole |-> target'.whole, stamp |-> target'.stamp,
                    pages |-> target'.pages, cut |-> target'.cut, shown |-> target'.shown]
      /\ target'.stamp = conversion.version /\ target'.pages = bundle.book
      /\ target'.cut = bundle.cut
  BY <1>4
<1> QED
  BY <1>3, <1>5 DEF TargetOK

LEMMA SameWorkspace ==
  ASSUME PagesInv, UNCHANGED bundle, conversion' = conversion \/ conversion' = NoConversion
  PROVE  BundleOK' /\ ConversionOK'
BY DEF PagesInv, BundleOK, ConversionOK

LEMMA PublicationKeeps ==
  ASSUME PagesInv, TearOutput \/ RemoveOutput \/ PublishFile \/ CopyDirectory
  PROVE  BundleOK' /\ ConversionOK' /\ TargetOK'
<1>1. CASE TearOutput
  <2>1. /\ target # NotThere /\ target' = [target EXCEPT !.whole = FALSE]
        /\ UNCHANGED <<bundle, conversion>>
    BY <1>1 DEF TearOutput
  <2>2. TargetOK
    BY DEF PagesInv
  <2>3. /\ target' = [form |-> target'.form, whole |-> target'.whole, stamp |-> target'.stamp,
                      pages |-> target'.pages, cut |-> target'.cut, shown |-> target'.shown]
        /\ target'.stamp = target.stamp /\ target'.pages = target.pages
        /\ target'.cut = target.cut
    BY <2>1, <2>2 DEF TargetOK
  <2> QED
    BY <2>1, <2>2, <2>3, SameWorkspace DEF TargetOK
<1>2. CASE RemoveOutput
  <2>1. target' = NotThere /\ UNCHANGED <<bundle, conversion>>
    BY <1>2 DEF RemoveOutput
  <2> QED
    BY <2>1, SameWorkspace DEF TargetOK
<1>3. CASE PublishFile
  <2>1. /\ conversion.pc = "publishing" /\ target' = Output("file", TRUE)
        /\ conversion' = NoConversion /\ UNCHANGED bundle
    BY <1>3 DEF PublishFile
  <2> QED
    BY <2>1, SameWorkspace, OutputIsBound
<1>4. CASE CopyDirectory
  <2>1. CASE /\ conversion.pc = "publishing" /\ target' = Output("directory", FALSE)
             /\ conversion' = [conversion EXCEPT !.pc = "copying"]
    <3>1. TargetOK'
      BY <2>1, OutputIsBound
    <3>2. ConversionOf(conversion, bundle) /\ BundleOK /\ UNCHANGED bundle
      BY <1>4, <2>1 DEF CopyDirectory, PagesInv, ConversionOK, NoConversion
    <3>3. /\ ConversionShape(conversion') /\ conversion'.pc = "copying"
          /\ conversion'.version = conversion.version
      BY <2>1, <3>2 DEF ConversionOf, ConversionShape
    <3>4. BundleOf(bundle, conversion.version) /\ bundle.book # NotThere
      BY <2>1, <3>2 DEF ConversionOf
    <3>5. ConversionOf(conversion', bundle')
      BY <3>2, <3>3, <3>4 DEF ConversionOf
    <3> QED
      BY <3>1, <3>2, <3>5 DEF BundleOK, ConversionOK
  <2>2. CASE /\ conversion.pc = "copying" /\ target' = Output("directory", TRUE)
             /\ conversion' = NoConversion
    <3>1. UNCHANGED bundle
      BY <1>4 DEF CopyDirectory
    <3> QED
      BY <2>2, <3>1, SameWorkspace, OutputIsBound
  <2> QED
    BY <1>4, <2>1, <2>2 DEF CopyDirectory
<1> QED
  BY <1>1, <1>2, <1>3, <1>4

(* What is left of a workspace of one version is of that version. *)
LEMMA InterruptKeeps ==
  ASSUME PagesInv, Interrupt
  PROVE  BundleOK' /\ ConversionOK'
<1>1. conversion' = NoConversion
  BY DEF Interrupt
<1>2. CASE UNCHANGED bundle
  BY <1>1, <1>2, SameWorkspace
<1>3. CASE conversion.pc = "clearing" /\ \E kept \in Kept : bundle' = Remains(kept)
  <2>1. PICK version \in Versions : BundleOf(bundle, version)
    BY <1>3 DEF PagesInv, BundleOK, ConversionOK, ConversionOf, NoConversion
  <2>2. PICK kept \in Kept : bundle' = Remains(kept)
    BY <1>3
  <2> DEFINE left == [p \in Pages |-> IF p \in kept.pages THEN bundle.pages[p] ELSE NotThere]
             book == IF kept.book THEN bundle.book ELSE NotThere
  <2>3. /\ kept.progress \in {NotThere, bundle.progress}
        /\ kept.metadata \in {NotThere, bundle.metadata}
        /\ book \in {NotThere, bundle.book}
    BY <2>2 DEF Kept
  <2>4. bundle' = [progress |-> kept.progress, metadata |-> kept.metadata, pages |-> left,
                   raw |-> kept.raw, manifest |-> kept.manifest, files |-> kept.files,
                   book |-> book, cut |-> TRUE]
    BY <2>1, <2>2 DEF BundleOf, Remains
  <2>5. left = [p \in Pages |-> left[p]]
        /\ \A p \in Pages : left[p] # NotThere => left[p] = bundle.pages[p]
    OBVIOUS
  <2> HIDE DEF left, book
  <2>6. /\ bundle'.progress = kept.progress /\ bundle'.metadata = kept.metadata
        /\ bundle'.pages = left /\ bundle'.book = book /\ bundle'.cut = TRUE
        /\ bundle' = [progress |-> bundle'.progress, metadata |-> bundle'.metadata,
                 pages |-> bundle'.pages, raw |-> bundle'.raw, manifest |-> bundle'.manifest,
                 files |-> bundle'.files, book |-> bundle'.book, cut |-> bundle'.cut]
    BY <2>4
  <2>7. bundle'.book # NotThere => Bound(bundle'.book, version, TRUE)
    <3> SUFFICES ASSUME bundle'.book # NotThere PROVE Bound(bundle'.book, version, TRUE)
      OBVIOUS
    <3>1. bundle'.book = bundle.book /\ Bound(bundle.book, version, bundle.cut)
      BY <2>1, <2>3, <2>6 DEF BundleOf
    <3>2. PICK assembly : \A p \in Pages :
            bundle.book[p].version = version /\ bundle.book[p].by = assembly
      BY <3>1 DEF Bound
    <3> QED
      BY <3>1, <3>2 DEF Bound
  <2>8. \A note \in {bundle'.progress, bundle'.metadata} :
          note # NotThere => IsNote(note) /\ note.ocr.version = version
    BY <2>1, <2>3, <2>6 DEF BundleOf
  <2>9. \A p \in Pages : bundle'.pages[p] # NotThere =>
          IsPage(bundle'.pages[p]) /\ bundle'.pages[p].version = version
    BY <2>1, <2>5, <2>6 DEF BundleOf
  <2>10. BundleOf(bundle', version)
    BY <2>5, <2>6, <2>7, <2>8, <2>9 DEF BundleOf
  <2> QED
    BY <1>1, <2>10 DEF BundleOK, ConversionOK
<1> QED
  BY <1>2, <1>3 DEF Interrupt

LEMMA PagesInitInv == PagesInit => PagesInv
BY DEF PagesInit, PagesInv, SettingsOK, BundleOK, ConversionOK, TargetOK

LEMMA PagesStepInv == PagesInv /\ [PagesNext]_pagesVars => PagesInv'
<1> SUFFICES ASSUME PagesInv, [PagesNext]_pagesVars PROVE PagesInv'
  OBVIOUS
<1>1. SettingsOK /\ BundleOK /\ ConversionOK /\ TargetOK
  BY DEF PagesInv
<1>2. SettingsOK'
  BY <1>1 DEF SettingsOK, PagesNext, PagesSteps, pagesVars, Convert, Clear, Open, Resume,
    StoreManifest, StorePage, ReadGroup, AssemblePage, FailPages, Normalize, RewritePage,
    Bind, Verify, TearOutput, RemoveOutput, PublishFile, CopyDirectory, Interrupt,
    ReviseSource, Upgrade
<1>3. CASE TearOutput \/ RemoveOutput \/ PublishFile \/ CopyDirectory
  BY <1>2, <1>3, PublicationKeeps DEF PagesInv
<1>4. CASE UNCHANGED pagesVars \/ ReviseSource \/ Upgrade
  <2>1. UNCHANGED <<bundle, conversion, target>>
    BY <1>4 DEF pagesVars, ReviseSource, Upgrade
  <2> QED
    BY <1>1, <1>2, <2>1 DEF PagesInv, BundleOK, ConversionOK, TargetOK
<1>5. CASE \/ \E guided, fresh, force \in BOOLEAN : Convert(guided, fresh, force)
           \/ Clear \/ Open \/ Resume \/ StoreManifest \/ StorePage \/ ReadGroup
           \/ AssemblePage \/ FailPages \/ Normalize \/ RewritePage \/ Bind \/ Verify
           \/ Interrupt
  <2>1. UNCHANGED target
    BY <1>5 DEF Convert, Clear, Open, Resume, StoreManifest, StorePage, ReadGroup,
      AssemblePage, FailPages, Normalize, RewritePage, Bind, Verify, Interrupt
  <2>2. BundleOK' /\ ConversionOK'
    BY <1>5, ConvertKeeps, ClearKeeps, OpenKeeps, ResumeKeeps, StoreManifestKeeps,
      StorePageKeeps, ReadGroupKeeps, AssemblePageKeeps, FailPagesKeeps, NormalizeKeeps,
      RewritePageKeeps, BindKeeps, VerifyKeeps, InterruptKeeps
  <2> QED
    BY <1>1, <1>2, <2>1, <2>2 DEF PagesInv, TargetOK
<1> QED
  BY <1>3, <1>4, <1>5 DEF PagesNext, PagesSteps

(* However conversions are interrupted, whatever is revised, upgraded and   *)
(* forced between them, and however many there are: what is on disk and     *)
(* what a conversion holds is of one source.                                *)
THEOREM PagesInvariant == PagesSpec => []PagesInv
BY PagesInitInv, PagesStepInv, PTL DEF PagesSpec

(* A published book is of one source, that of its stamp, and one assembly;  *)
(* no guided read is in an unguided book, unless the removal of its         *)
(* workspace was once interrupted.                                          *)
THEOREM BooksAreOfOneConversion == PagesSpec => []PagesAreOfOneConversion
<1>1. PagesInv => PagesAreOfOneConversion
  BY DEF PagesInv, TargetOK, Bound, PagesAreOfOneConversion, Published
<1> QED
  BY <1>1, PagesInvariant, PTL
-----------------------------------------------------------------------------
(***************************************************************************)
(* pages2md, one call.  That a retry gets past its fork needs that it goes *)
(* through the states the first read went through, which are not kept: a   *)
(* Course is a sequence of states such a read may have gone through, and a *)
(* retry is on that of the first read until the fork (OnCourse).           *)
(***************************************************************************)
StreamShape(s) ==
  /\ s = [field \in DOMAIN s |-> s[field]]
  /\ DOMAIN s = {"tokens", "guide", "steered", "prefix", "banned", "loopSince", "finish"}

StreamOK(s) == /\ StreamShape(s)
               /\ s.tokens \in Seq(Vocabulary)
               /\ s.finish # Untold => s.finish \in Finishes

(* Streams that differ in what they replay only. *)
Alike(s, t) == /\ s.tokens = t.tokens /\ s.guide = t.guide /\ s.steered = t.steered
               /\ s.loopSince = t.loopSince /\ s.finish = t.finish

Course(qs, tokens, steered) ==
  /\ \A n \in 1 .. (Len(tokens) + 1) : StreamShape(qs[n])
  /\ Alike(qs[1], FreshStream(steered, <<>>, {}))
  /\ \A n \in 1 .. Len(tokens) :
       /\ qs[n].finish = Untold
       /\ Alike(qs[n + 1], Take(qs[n], tokens[n]))

OnCourse(s, tokens, length, steered) ==
  \E qs : /\ Course(qs, tokens, steered)
          /\ Len(s.tokens) < length => Alike(s, qs[Len(s.tokens) + 1])

(* The beginning of a read up to the fork: other reads took other ways there. *)
WayOf(way, first, fork) ==
  /\ Len(way) = fork
  /\ \A i \in 1 .. (fork - 1) : way[i] = first[i]

WaysOK(c) ==
  /\ c.tried \in Seq(Seq(Vocabulary))
  /\ \A n \in 1 .. Len(c.tried) :
       /\ WayOf(c.tried[n], c.first.tokens, c.fork)
       /\ c.tried[n][c.fork] # c.first.tokens[c.fork]
       /\ \A m \in 1 .. (n - 1) : c.tried[m][c.fork] # c.tried[n][c.fork]

(* What a read may be replaced by. *)
NoWorse(read, original) ==
  /\ Reference(original.tokens) \ page.furniture \subseteq BodyRegions(read.tokens)
  /\ Cardinality(DuplicateBlocks(read.tokens)) <= Cardinality(DuplicateBlocks(original.tokens))
  /\ read.tokens # original.tokens => read.finish = "stop"

CallOK(c) ==
  /\ c = [first |-> c.first, best |-> c.best, fork |-> c.fork, tried |-> c.tried]
  /\ c.first \in ReadsFor(page) /\ c.best \in ReadsFor(page)
  /\ c.first.tokens \in Seq(Vocabulary)
  /\ c.fork \in 1 .. Len(c.first.tokens)
  /\ NoWorse(c.best, c.first)
  /\ WaysOK(c)

(* The call after one more retry. *)
AfterRetry(d, c, best, s) ==
  /\ d = [first |-> d.first, best |-> d.best, fork |-> d.fork, tried |-> d.tried]
  /\ d.first = c.first /\ d.best = best /\ d.fork = c.fork
  /\ d.tried = Append(c.tried, SubSeq(s.tokens, 1, c.fork))

RetryOK(c, s) ==
  LET first == c.first.tokens
  IN  /\ s.prefix = SubSeq(first, 1, c.fork - 1)
      /\ first[c.fork] \in s.banned
      /\ \A n \in 1 .. Len(c.tried) : c.tried[n][c.fork] \in s.banned
      /\ OnCourse(s, first, c.fork, rescued # Untold)
      /\ s.steered = (rescued # Untold)
      /\ \A i \in 1 .. Len(s.tokens) : i < c.fork => s.tokens[i] = first[i]
      /\ Len(s.tokens) >= c.fork => s.tokens[c.fork] \notin s.banned

DecodingInv ==
  /\ page \in DecodingScenarios
  /\ StreamOK(stream)
  /\ rescued # Untold => rescued \in ReadsFor(page) /\ BodyRegions(rescued.tokens) = {}
  /\ call # NoCall => CallOK(call)
  /\ answer = Untold =>
       IF call = NoCall
       THEN OnCourse(stream, stream.tokens, Len(stream.tokens) + 1, rescued # Untold)
       ELSE RetryOK(call, stream)
  /\ ReadsNeverWorsen

-----------------------------------------------------------------------------
(* The scenario does not change, nor does what is said of its reads.         *)

LEMMA PageStays ==
  ASSUME page' = page
  PROVE  /\ \A t : (BodyRegions(t))' = BodyRegions(t)
         /\ \A t : (DuplicateBlocks(t))' = DuplicateBlocks(t)
         /\ \A t : (Reference(t))' = Reference(t)
         /\ Vocabulary' = Vocabulary /\ FreshGuide' = FreshGuide /\ Single' = Single
<1>1. Openers' = Openers
  BY DEF Openers
<1>2. \A t, b : (Substance(t, b))' = Substance(t, b)
  BY <1>1 DEF Substance
<1>3. /\ \A t : (DuplicateBlocks(t))' = DuplicateBlocks(t)
      /\ \A t : (Reference(t))' = Reference(t)
  <2>1. \A t, b, c : (Repeats(t, b, c))' = Repeats(t, b, c)
    BY DEF Repeats, Risky
  <2>2. \A t : (DuplicateBlocks(t))' = DuplicateBlocks(t)
    BY <1>2, <2>1 DEF DuplicateBlocks
  <2> QED
    BY <2>2 DEF Reference
<1>4. \A t : (BodyRegions(t))' = BodyRegions(t)
  BY DEF BodyRegions
<1>5. Vocabulary' = Vocabulary /\ FreshGuide' = FreshGuide /\ Single' = Single
  BY DEF Vocabulary, FreshGuide, Single
<1> QED
  BY <1>3, <1>4, <1>5

LEMMA FeedStays ==
  ASSUME page' = page
  PROVE  \A g, x, at : (Feed(g, x, at))' = Feed(g, x, at)
<1>1. \A g, r : (SelectRegion(g, r))' = SelectRegion(g, r)
  BY DEF SelectRegion
<1>2. \A g : (Frontier(g))' = Frontier(g)
  BY DEF Frontier
<1>3. \A g, w, at : (Consume(g, w, at))' = Consume(g, w, at)
  <2> TAKE g, w, at
  <2> DEFINE matches == {j \in Frontier(g) : page.evidence[g.active][j] = w}
  <2>1. matches' = matches
    BY <1>2
  <2> HIDE DEF matches
  <2> QED
    BY <2>1, Zenon DEF Consume, matches
<1> QED
  BY <1>1, <1>3 DEF Feed

LEMMA TakeStays ==
  ASSUME page' = page
  PROVE  \A s, x : (Take(s, x))' = Take(s, x)
<1>1. \A s, l : (Finish(s, l))' = Finish(s, l)
  BY PageStays DEF Finish
<1> QED
  BY <1>1, FeedStays DEF Take

LEMMA CourseStays ==
  ASSUME page' = page
  PROVE  /\ \A steered, prefix, banned :
              (FreshStream(steered, prefix, banned))' = FreshStream(steered, prefix, banned)
         /\ \A qs, t, steered : (Course(qs, t, steered))' <=> Course(qs, t, steered)
         /\ \A s, t, l, steered : (OnCourse(s, t, l, steered))' <=> OnCourse(s, t, l, steered)
<1>1. \A steered, prefix, banned :
        (FreshStream(steered, prefix, banned))' = FreshStream(steered, prefix, banned)
  BY PageStays DEF FreshStream
<1>2. \A qs, t, steered : (Course(qs, t, steered))' <=> Course(qs, t, steered)
  BY <1>1, TakeStays DEF Course
<1> QED
  BY <1>1, <1>2 DEF OnCourse

LEMMA CallStays ==
  ASSUME page' = page
  PROVE  /\ \A r : (r \in ReadsFor(page))' <=> r \in ReadsFor(page)
         /\ \A r, o : (NoWorse(r, o))' <=> NoWorse(r, o)
         /\ \A c : (CallOK(c))' <=> CallOK(c)
         /\ \A s : (StreamOK(s))' <=> StreamOK(s)
<1>1. \A r, o : (NoWorse(r, o))' <=> NoWorse(r, o)
  BY PageStays DEF NoWorse
<1>2. \A c : (WaysOK(c))' <=> WaysOK(c)
  BY PageStays DEF WaysOK
<1>3. \A c : (CallOK(c))' <=> CallOK(c)
  BY <1>1, <1>2, PageStays DEF CallOK
<1>4. \A s : (StreamOK(s))' <=> StreamOK(s)
  BY PageStays DEF StreamOK
<1> QED
  BY <1>1, <1>3, <1>4

-----------------------------------------------------------------------------
(* Blocks.                                                                   *)

LEMMA Least ==
  ASSUME NEW S \in SUBSET Nat, S # {}
  PROVE  Min(S) \in S /\ \A m \in S : Min(S) <= m
<1> DEFINE R == OpToRel(<, Nat)
<1>1. IsWellFoundedOn(R, Nat)
  BY NatLessThanWellFounded
<1>2. \A a, b \in Nat : a < b => <<a, b>> \in R
  BY DEF OpToRel
<1> HIDE DEF R
<1>3. PICK n \in S : \A m \in S : ~ (<<m, n>> \in R)
  BY <1>1, WFMin
<1>4. \A m \in S : n <= m
  <2> SUFFICES ASSUME NEW m \in S PROVE n <= m
    OBVIOUS
  <2>1. m \in Nat /\ n \in Nat /\ ~ (m < n)
    BY <1>2, <1>3
  <2> QED
    BY <2>1
<1> QED
  BY <1>4 DEF Min

LEMMA BlocksFinite ==
  ASSUME NEW S, NEW tokens \in Seq(S)
  PROVE  /\ Blocks(tokens) \subseteq 1 .. Len(tokens)
         /\ DuplicateBlocks(tokens) \subseteq 1 .. Len(tokens)
         /\ IsFiniteSet(DuplicateBlocks(tokens))
         /\ Cardinality(DuplicateBlocks(tokens)) \in Nat
<1>1. Blocks(tokens) \subseteq 1 .. Len(tokens)
  BY DEF Blocks
<1>2. DuplicateBlocks(tokens) \subseteq 1 .. Len(tokens)
  BY <1>1 DEF DuplicateBlocks
<1>3. IsFiniteSet(1 .. Len(tokens))
  BY FS_Interval
<1>4. IsFiniteSet(DuplicateBlocks(tokens))
  BY <1>2, <1>3, FS_Subset
<1> QED
  BY <1>1, <1>2, <1>4, FS_CardinalityType

(* A duplicate has something to fork at, as it has substance. *)
LEMMA ForkOK ==
  ASSUME NEW S, NEW tokens \in Seq(S), DuplicateBlocks(tokens) # {}
  PROVE  Fork(tokens) \in 1 .. Len(tokens)
<1> DEFINE first == Min(DuplicateBlocks(tokens))
           later == {c \in Blocks(tokens) : first < c}
           places == {i \in first + 1 .. Len(tokens) : tokens[i] \notin Openers}
<1>1. DuplicateBlocks(tokens) \in SUBSET Nat
  <2>1. DuplicateBlocks(tokens) \subseteq 1 .. Len(tokens) /\ 1 .. Len(tokens) \subseteq Nat
    BY BlocksFinite
  <2> QED
    BY <2>1
<1>2. first \in DuplicateBlocks(tokens)
  BY <1>1, Least
<1>3. first \in 1 .. Len(tokens) /\ Len(tokens) \in Nat
  <2>1. DuplicateBlocks(tokens) \subseteq 1 .. Len(tokens)
    BY BlocksFinite
  <2> QED
    BY <1>2, <2>1
<1>4. BlockEnd(tokens, first) <= Len(tokens) /\ BlockEnd(tokens, first) \in Int
  <2>1. CASE later = {}
    BY <1>3, <2>1 DEF BlockEnd
  <2>2. CASE later # {}
    <3>1. later \subseteq 1 .. Len(tokens)
      BY BlocksFinite
    <3>2. later \in SUBSET Nat
      BY <3>1
    <3> HIDE DEF later
    <3>3. Min(later) \in 1 .. Len(tokens)
      BY <2>2, <3>1, <3>2, Least
    <3>4. BlockEnd(tokens, first) = Min(later) - 1
      BY <2>2 DEF BlockEnd, later
    <3> QED
      BY <1>3, <3>3, <3>4
  <2> QED
    BY <2>1, <2>2
<1>5. PICK i \in Substance(tokens, first) : TRUE
  <2>1. Cardinality(Substance(tokens, first)) >= LongBlock /\ LongBlock \in Nat \ {0}
    BY <1>2, DecodingAssumption DEF DuplicateBlocks
  <2>2. Cardinality({}) = 0
    BY FS_EmptySet
  <2> QED
    BY <2>1, <2>2
<1>6. i \in places
  <2>1. i \in first + 1 .. BlockEnd(tokens, first) /\ tokens[i] \notin Openers
    BY DEF Substance
  <2> HIDE DEF first
  <2> QED
    BY <1>3, <1>4, <2>1
<1>7. places \subseteq 1 .. Len(tokens)
  <2> HIDE DEF first
  <2> QED
    BY <1>3
<1>8. Min(places) \in places
  <2>1. places \in SUBSET Nat
    BY <1>7
  <2> HIDE DEF places
  <2> QED
    BY <1>6, <2>1, Least
<1> QED
  BY <1>7, <1>8 DEF Fork

-----------------------------------------------------------------------------
(* Streams.                                                                  *)

LEMMA FinishNames ==
  \A s, l : Finish(s, l) # Untold => Finish(s, l) \in Finishes
<1> TAKE s, l
<1> DEFINE ungrounded == /\ Single /\ ~s.steered /\ Len(s.tokens) >= StartupGuard
                         /\ BodyRegions(s.tokens) = {}
           looped == l # Untold /\ Len(s.tokens) - l >= LoopSustained
           ended == Last(s.tokens) = End
           full == Len(s.tokens) = page.budget
<1>1. Finish(s, l) = IF ungrounded THEN "ungrounded_guard"
                     ELSE IF looped THEN "repetition_guard"
                     ELSE IF ended THEN "stop"
                     ELSE IF full THEN "length" ELSE Untold
  BY DEF Finish
<1> HIDE DEF ungrounded, looped, ended, full
<1>2. Finish(s, l) \in {"ungrounded_guard", "repetition_guard", "stop", "length", Untold}
  BY <1>1
<1> QED
  BY <1>2 DEF Finishes

LEMMA TakeOK ==
  ASSUME NEW s, NEW x \in Vocabulary, StreamOK(s)
  PROVE  /\ StreamOK(Take(s, x))
         /\ Take(s, x).tokens = Append(s.tokens, x)
         /\ Take(s, x).prefix = s.prefix /\ Take(s, x).banned = s.banned
         /\ Take(s, x).steered = s.steered
<1> DEFINE next == [s EXCEPT !.tokens = Append(@, x), !.guide = Feed(@, x, Len(s.tokens) + 1)]
           since == LoopSince(next)
           finish == Finish(next, since)
<1>1. Take(s, x) = [next EXCEPT !.loopSince = since, !.finish = finish]
  BY DEF Take
<1>2. finish # Untold => finish \in Finishes
  BY FinishNames
<1>3. Append(s.tokens, x) \in Seq(Vocabulary)
  BY DEF StreamOK
<1>4. /\ StreamShape(next) /\ next.tokens = Append(s.tokens, x) /\ next.prefix = s.prefix
      /\ next.banned = s.banned /\ next.steered = s.steered
  BY DEF StreamOK, StreamShape
<1> HIDE DEF next, since, finish
<1> QED
  BY <1>1, <1>2, <1>3, <1>4 DEF StreamOK, StreamShape

LEMMA TakeShape ==
  ASSUME NEW s, NEW x, StreamShape(s)
  PROVE  StreamShape(Take(s, x))
<1> DEFINE next == [s EXCEPT !.tokens = Append(@, x), !.guide = Feed(@, x, Len(s.tokens) + 1)]
           since == LoopSince(next)
           finish == Finish(next, since)
<1>1. Take(s, x) = [next EXCEPT !.loopSince = since, !.finish = finish]
  BY DEF Take
<1>2. StreamShape(next)
  BY DEF StreamShape
<1> HIDE DEF next, since, finish
<1> QED
  BY <1>1, <1>2 DEF StreamShape

(* Streams that are alike take a token alike, whatever they replay. *)
LEMMA TakeAlike ==
  ASSUME NEW s, NEW t, NEW x, StreamShape(s), StreamShape(t), Alike(s, t)
  PROVE  Alike(Take(s, x), Take(t, x))
<1> DEFINE After(r) == [r EXCEPT !.tokens = Append(@, x), !.guide = Feed(@, x, Len(r.tokens) + 1)]
           tokens == Append(s.tokens, x)
           guide == Feed(s.guide, x, Len(s.tokens) + 1)
<1>1. /\ After(s).tokens = tokens /\ After(t).tokens = tokens
      /\ After(s).guide = guide /\ After(t).guide = guide
      /\ After(s).loopSince = s.loopSince /\ After(t).loopSince = s.loopSince
      /\ After(s).steered = s.steered /\ After(t).steered = s.steered
      /\ StreamShape(After(s)) /\ StreamShape(After(t))
  <2>1. s.tokens = t.tokens /\ s.guide = t.guide /\ s.loopSince = t.loopSince /\ s.steered = t.steered
    BY DEF Alike
  <2> QED
    BY <2>1 DEF StreamShape
<1>2. /\ Take(s, x) = [After(s) EXCEPT !.loopSince = LoopSince(After(s)),
                                      !.finish = Finish(After(s), LoopSince(After(s)))]
      /\ Take(t, x) = [After(t) EXCEPT !.loopSince = LoopSince(After(t)),
                                      !.finish = Finish(After(t), LoopSince(After(t)))]
  BY DEF Take
<1> HIDE DEF After, tokens, guide
<1>3. LoopSince(After(s)) = LoopSince(After(t))
  BY <1>1 DEF LoopSince
<1>4. \A l : Finish(After(s), l) = Finish(After(t), l)
  BY <1>1 DEF Finish
<1> QED
  BY <1>1, <1>2, <1>3, <1>4 DEF Alike, StreamShape

LEMMA AlikeShared ==
  /\ \A s : Alike(s, s)
  /\ \A s, t : Alike(s, t) => Alike(t, s)
  /\ \A s, t, u : Alike(s, t) /\ Alike(t, u) => Alike(s, u)
BY DEF Alike

LEMMA FreshAlike ==
  ASSUME NEW steered, NEW prefix, NEW banned
  PROVE  /\ Alike(FreshStream(steered, prefix, banned), FreshStream(steered, <<>>, {}))
         /\ StreamOK(FreshStream(steered, prefix, banned))
         /\ FreshStream(steered, prefix, banned).tokens = <<>>
         /\ FreshStream(steered, prefix, banned).prefix = prefix
         /\ FreshStream(steered, prefix, banned).banned = banned
         /\ FreshStream(steered, prefix, banned).steered = steered
<1>1. /\ FreshStream(steered, prefix, banned) =
           [tokens |-> <<>>, guide |-> FreshGuide, steered |-> steered, prefix |-> prefix,
            banned |-> banned, loopSince |-> Untold, finish |-> Untold]
      /\ FreshStream(steered, <<>>, {}) =
           [tokens |-> <<>>, guide |-> FreshGuide, steered |-> steered, prefix |-> <<>>,
            banned |-> {}, loopSince |-> Untold, finish |-> Untold]
  BY DEF FreshStream
<1>2. <<>> \in Seq(Vocabulary)
  OBVIOUS
<1> QED
  BY <1>1, <1>2 DEF Alike, StreamOK, StreamShape

-----------------------------------------------------------------------------
(* Reads.                                                                    *)

LEMMA FreshReads ==
  ASSUME page \in DecodingScenarios
  PROVE  Untold \notin ReadsFor(page) /\ NoRead \in ReadsFor(page)
<1>1. Untold \notin ReadsFor(page)
  BY DecodingAssumption
<1>2. NoRead \in ReadsFor(page)
  BY DEF NoRead, ReadsFor, Finishes
<1> QED
  BY <1>1, <1>2

LEMMA ReadsAreTyped ==
  ASSUME page \in DecodingScenarios, NEW s, StreamOK(s), s.finish # Untold,
         NEW score \in page.scores \union {0}
  PROVE  /\ ReadOf(s, score) \in ReadsFor(page)
         /\ ReadOf(s, score).tokens = s.tokens /\ ReadOf(s, score).finish = s.finish
<1> DEFINE Token == [opens : DOMAIN page.evidence \union {0, -1}] \union [says : page.words]
<1>1. Vocabulary \subseteq Token
  BY DEF Vocabulary, Opening, Said, End, PageMark
<1>2. s.tokens \in Seq(Token)
  BY <1>1 DEF StreamOK
<1>3. s.finish \in Finishes
  BY DEF StreamOK
<1> HIDE DEF Token
<1>4. ReadsFor(page) = [tokens : Seq(Token), finish : Finishes, score : page.scores \union {0}]
  BY DEF ReadsFor, Token
<1>5. ReadOf(s, score) = [tokens |-> s.tokens, finish |-> s.finish, score |-> score]
  BY DEF ReadOf
<1>6. ReadOf(s, score) \in ReadsFor(page)
  BY <1>2, <1>3, <1>4, <1>5
<1> QED
  BY <1>5, <1>6

LEMMA ReadsCount ==
  ASSUME NEW read \in ReadsFor(page)
  PROVE  Cardinality(DuplicateBlocks(read.tokens)) \in Nat /\ NoWorse(read, read)
<1> DEFINE Token == [opens : DOMAIN page.evidence \union {0, -1}] \union [says : page.words]
<1>1. read.tokens \in Seq(Token)
  BY DEF ReadsFor
<1> HIDE DEF Token
<1>2. Cardinality(DuplicateBlocks(read.tokens)) \in Nat
  BY <1>1, BlocksFinite
<1> QED
  BY <1>2 DEF NoWorse, Reference, BodyRegions, RegionsOf

LEMMA EligibleOK ==
  ASSUME NEW original \in ReadsFor(page), NEW candidate \in ReadsFor(page), NEW fork,
         Eligible(original, candidate, fork)
  PROVE  NoWorse(candidate, original)
<1>1. Reference(original.tokens) \subseteq RegionsOf(candidate.tokens)
  BY DEF Eligible, Covers
<1>2. /\ Cardinality(DuplicateBlocks(original.tokens)) \in Nat
      /\ Cardinality(DuplicateBlocks(candidate.tokens)) \in Nat
  BY ReadsCount
<1> QED
  BY <1>1, <1>2 DEF Eligible, NoWorse, BodyRegions

(* A read is rescued only for want of a body, so that any rescue that works is no worse. *)
LEMMA RescueOK ==
  ASSUME NEW original \in ReadsFor(page), BodyRegions(original.tokens) = {},
         NEW read \in ReadsFor(page)
  PROVE  NoWorse(IF RescueWorked(read) THEN read ELSE original, original)
<1>1. CASE RescueWorked(read)
  <2>1. Cardinality(DuplicateBlocks(read.tokens)) = 0
    BY <1>1, FS_EmptySet DEF RescueWorked
  <2>2. Cardinality(DuplicateBlocks(original.tokens)) \in Nat
    BY ReadsCount
  <2> QED
    BY <1>1, <2>1, <2>2 DEF NoWorse, RescueWorked, Reference, BodyRegions, RegionsOf
<1>2. CASE ~ RescueWorked(read)
  BY <1>2, ReadsCount
<1> QED
  BY <1>1, <1>2

(* What a finished call gives back. *)
LEMMA AnswersOK ==
  ASSUME NEW read \in ReadsFor(page),
         rescued # Untold => rescued \in ReadsFor(page) /\ BodyRegions(rescued.tokens) = {},
         rescued = Untold /\ call.first # Untold => NoWorse(read, call.first),
         page' = page, (call').first = call.first, rescued' = rescued,
         answer' = IF rescued = Untold \/ RescueWorked(read) THEN read ELSE rescued
  PROVE  ReadsNeverWorsen' /\ answer' \in ReadsFor(page)
<1>1. rescued # Untold => NoWorse(answer', rescued)
  BY RescueOK
<1>2. rescued = Untold /\ call.first # Untold => NoWorse(answer', call.first)
  OBVIOUS
<1>3. FirstRead' = IF rescued # Untold THEN rescued ELSE call.first
  BY DEF FirstRead
<1>4. FirstRead' # Untold => NoWorse(answer', FirstRead')
  BY <1>1, <1>2, <1>3
<1>5. ReadsNeverWorsen'
  BY <1>4, PageStays DEF ReadsNeverWorsen, NoWorse
<1> QED
  BY <1>5

-----------------------------------------------------------------------------
(* Steps.                                                                    *)

(* Nothing has been read: the course of a read that is yet to begin. *)
LEMMA CourseBegins ==
  ASSUME NEW steered, NEW prefix, NEW banned
  PROVE  OnCourse(FreshStream(steered, prefix, banned), <<>>, 1, steered)
<1> DEFINE fresh == FreshStream(steered, <<>>, {})
           qs == [n \in 1 .. 1 |-> fresh]
<1>1. Len(<<>>) = 0
  OBVIOUS
<1>2. StreamShape(fresh) /\ Alike(fresh, fresh)
  BY FreshAlike DEF StreamOK
<1>3. Alike(FreshStream(steered, prefix, banned), fresh) /\ FreshStream(steered, prefix, banned).tokens = <<>>
  BY FreshAlike
<1> HIDE DEF fresh
<1>4. Course(qs, <<>>, steered)
  BY <1>1, <1>2 DEF Course, fresh
<1>5. Alike(FreshStream(steered, prefix, banned), qs[1])
  BY <1>3
<1> HIDE DEF qs
<1> QED
  BY <1>1, <1>3, <1>4, <1>5 DEF OnCourse

(* Any course begins with nothing read, so that a retry begins on it. *)
LEMMA CourseRestarts ==
  ASSUME NEW s, NEW tokens, NEW length, NEW steered, OnCourse(s, tokens, length, steered),
         NEW prefix, NEW banned, NEW other
  PROVE  OnCourse(FreshStream(steered, prefix, banned), tokens, other, steered)
<1>1. PICK qs : Course(qs, tokens, steered)
  BY DEF OnCourse
<1>2. Alike(qs[1], FreshStream(steered, <<>>, {}))
  BY <1>1 DEF Course
<1>3. Alike(FreshStream(steered, prefix, banned), qs[1])
  BY <1>2, FreshAlike, AlikeShared
<1>4. Len(FreshStream(steered, prefix, banned).tokens) + 1 = 1
  BY FreshAlike
<1> QED
  BY <1>1, <1>3, <1>4 DEF OnCourse

LEMMA FreshOK ==
  StreamOK(FreshStream(FALSE, <<>>, {})) /\ StreamOK(FreshStream(TRUE, <<>>, {}))
<1>1. StreamOK(FreshStream(FALSE, <<>>, {}))
  BY FreshAlike, Zenon
<1>2. StreamOK(FreshStream(TRUE, <<>>, {}))
  BY FreshAlike, Zenon
<1> QED
  BY <1>1, <1>2

LEMMA DecodingInitial ==
  DecodingInit => DecodingInv
<1> SUFFICES ASSUME DecodingInit PROVE DecodingInv
  OBVIOUS
<1> DEFINE fresh == FreshStream(FALSE, <<>>, {})
<1>1. StreamOK(fresh) /\ fresh.tokens = <<>>
  <2>1. StreamOK(fresh)
    BY FreshOK
  <2>2. fresh.tokens = <<>>
    BY DEF FreshStream
  <2> QED
    BY <2>1, <2>2
<1>2. OnCourse(fresh, <<>>, 1, FALSE)
  BY CourseBegins, Zenon
<1> HIDE DEF fresh
<1>3. stream = fresh
  BY DEF DecodingInit, fresh
<1>4. (rescued # Untold) = FALSE
  BY DEF DecodingInit
<1>5. Len(stream.tokens) + 1 = 1
  BY <1>1, <1>3
<1>6. OnCourse(stream, stream.tokens, Len(stream.tokens) + 1, rescued # Untold)
  BY <1>1, <1>2, <1>3, <1>4, <1>5
<1> QED
  BY <1>1, <1>3, <1>6 DEF DecodingInv, DecodingInit, ReadsNeverWorsen

(* One more token of a read is one more state of its course. *)
LEMMA CourseGrows ==
  ASSUME NEW s, StreamOK(s), s.finish = Untold, NEW x \in Vocabulary, NEW steered,
         OnCourse(s, s.tokens, Len(s.tokens) + 1, steered)
  PROVE  OnCourse(Take(s, x), Take(s, x).tokens, Len(Take(s, x).tokens) + 1, steered)
<1> DEFINE tokens == s.tokens
           l == Len(tokens)
           more == Append(tokens, x)
<1>1. tokens \in Seq(Vocabulary) /\ l \in Nat
  BY DEF StreamOK
<1>2. PICK qs : Course(qs, tokens, steered) /\ Alike(s, qs[l + 1])
  <2>1. l < l + 1
    BY <1>1
  <2> QED
    BY <2>1 DEF OnCourse
<1>3. Len(more) = l + 1 /\ more[l + 1] = x /\ \A n \in 1 .. l : more[n] = tokens[n]
  BY <1>1
<1>4. Take(s, x).tokens = more
  BY TakeOK
<1> HIDE DEF tokens, l, more
<1> DEFINE longer == [n \in 1 .. (l + 2) |-> IF n <= l + 1 THEN qs[n] ELSE Take(s, x)]
<1>5. /\ longer[l + 2] = Take(s, x)
      /\ \A n \in 1 .. (l + 1) : longer[n] = qs[n]
  BY <1>1
<1> HIDE DEF longer
<1>6. StreamShape(s) /\ StreamShape(Take(s, x))
  BY TakeShape DEF StreamOK
<1>7. \A n \in 1 .. (l + 1) : StreamShape(qs[n])
  BY <1>2 DEF Course, l
<1>8. \A n \in 1 .. (l + 2) : StreamShape(longer[n])
  <2> TAKE n \in 1 .. (l + 2)
  <2>1. CASE n = l + 2
    BY <2>1, <1>5, <1>6
  <2>2. CASE n # l + 2
    <3>1. n \in 1 .. (l + 1)
      BY <2>2, <1>1
    <3> QED
      BY <3>1, <1>5, <1>7
  <2> QED
    BY <2>1, <2>2
<1>9. Alike(longer[1], FreshStream(steered, <<>>, {}))
  <2>1. 1 \in 1 .. (l + 1)
    BY <1>1
  <2> QED
    BY <2>1, <1>2, <1>5 DEF Course
<1>10. ASSUME NEW n \in 1 .. (l + 1)
       PROVE  longer[n].finish = Untold /\ Alike(longer[n + 1], Take(longer[n], more[n]))
  <2>1. CASE n = l + 1
    <3>1. qs[l + 1].finish = Untold
      BY <1>2 DEF Alike
    <3>2. l + 1 \in 1 .. (l + 1) /\ n + 1 = l + 2
      BY <1>1, <2>1
    <3>3. Alike(Take(s, x), Take(qs[l + 1], x))
      BY <3>2, <1>2, <1>6, <1>7, TakeAlike
    <3> QED
      BY <2>1, <3>1, <3>2, <3>3, <1>3, <1>5
  <2>2. CASE n # l + 1
    <3>1. n \in 1 .. l /\ n + 1 \in 1 .. (l + 1)
      BY <2>2, <1>1
    <3>2. qs[n].finish = Untold /\ Alike(qs[n + 1], Take(qs[n], tokens[n]))
      BY <3>1, <1>2 DEF Course, l
    <3> QED
      BY <3>1, <3>2, <1>3, <1>5
  <2> QED
    BY <2>1, <2>2
<1>11. Course(longer, more, steered)
  <2>1. Len(more) + 1 = l + 2 /\ Len(more) = l + 1
    BY <1>1, <1>3
  <2> QED
    BY <2>1, <1>8, <1>9, <1>10 DEF Course
<1>12. Alike(Take(s, x), longer[Len(more) + 1])
  <2>1. Len(more) + 1 = l + 2
    BY <1>1, <1>3
  <2> QED
    BY <2>1, <1>5, AlikeShared
<1> QED
  BY <1>4, <1>11, <1>12 DEF OnCourse

(* A retry that takes the token the first read took stays on its course. *)
LEMMA CourseKept ==
  ASSUME NEW S, NEW first \in Seq(S), NEW fork \in 1 .. Len(first), NEW steered,
         NEW s, StreamOK(s), NEW x \in Vocabulary, OnCourse(s, first, fork, steered),
         Len(s.tokens) + 1 < fork => x = first[Len(s.tokens) + 1]
  PROVE  OnCourse(Take(s, x), first, fork, steered)
<1> DEFINE l == Len(s.tokens)
<1>1. l \in Nat /\ Len(first) \in Nat
  BY DEF StreamOK
<1>2. Take(s, x).tokens = Append(s.tokens, x) /\ Len(Append(s.tokens, x)) = l + 1
  BY TakeOK DEF StreamOK
<1>3. PICK qs : Course(qs, first, steered) /\ (l < fork => Alike(s, qs[l + 1]))
  BY DEF OnCourse
<1> HIDE DEF l
<1>4. ASSUME l + 1 < fork PROVE Alike(Take(s, x), qs[l + 2])
  <2>1. l + 1 \in 1 .. Len(first) /\ l + 1 \in 1 .. (Len(first) + 1) /\ l < fork /\ (l + 1) + 1 = l + 2
    BY <1>1, <1>4
  <2>2. StreamShape(qs[l + 1]) /\ Alike(qs[l + 2], Take(qs[l + 1], first[l + 1]))
    BY <2>1, <1>3 DEF Course
  <2>3. x = first[l + 1]
    BY <1>4 DEF l
  <2>4. Alike(Take(s, x), Take(qs[l + 1], x))
    BY <2>1, <2>2, <1>3, TakeAlike DEF StreamOK
  <2> QED
    BY <2>2, <2>3, <2>4, AlikeShared
<1>5. (l + 1) + 1 = l + 2
  BY <1>1
<1> QED
  BY <1>2, <1>3, <1>4, <1>5 DEF OnCourse

LEMMA RetryStays ==
  ASSUME page' = page, rescued' = rescued
  PROVE  \A c, s : (RetryOK(c, s))' <=> RetryOK(c, s)
BY CourseStays DEF RetryOK

LEMMA RetryGrows ==
  ASSUME NEW c, CallOK(c), NEW s, StreamOK(s), RetryOK(c, s), NEW x \in Vocabulary, Legal(s, x)
  PROVE  RetryOK(c, Take(s, x))
<1> DEFINE first == c.first.tokens
           fork == c.fork
           l == Len(s.tokens)
           more == Take(s, x)
<1>1. first \in Seq(Vocabulary) /\ fork \in 1 .. Len(first) /\ Len(first) \in Nat
  BY DEF CallOK
<1>2. s.tokens \in Seq(Vocabulary) /\ l \in Nat
  BY DEF StreamOK
<1>3. /\ more.tokens = Append(s.tokens, x) /\ more.prefix = s.prefix /\ more.banned = s.banned
      /\ more.steered = s.steered
  BY TakeOK
<1>4. /\ Len(more.tokens) = l + 1 /\ more.tokens[l + 1] = x
      /\ \A i \in 1 .. l : more.tokens[i] = s.tokens[i]
  BY <1>2, <1>3
<1>5. /\ s.prefix = SubSeq(first, 1, fork - 1) /\ Len(s.prefix) = fork - 1
      /\ \A i \in 1 .. (fork - 1) : s.prefix[i] = first[i]
  <2>1. s.prefix = SubSeq(first, 1, fork - 1)
    BY DEF RetryOK
  <2> HIDE DEF first, fork
  <2> QED
    BY <1>1, <2>1
<1>6. /\ first[fork] \in s.banned
      /\ \A n \in 1 .. Len(c.tried) : c.tried[n][fork] \in s.banned
      /\ OnCourse(s, first, fork, rescued # Untold)
      /\ s.steered = (rescued # Untold)
      /\ \A i \in 1 .. l : i < fork => s.tokens[i] = first[i]
      /\ l >= fork => s.tokens[fork] \notin s.banned
  BY DEF RetryOK
<1>7. /\ l + 1 <= Len(s.prefix) => x = s.prefix[l + 1]
      /\ l + 1 = Len(s.prefix) + 1 => x \notin s.banned
  BY DEF Legal
<1> HIDE DEF first, fork, more
<1>8. l + 1 < fork => x = first[l + 1]
  BY <1>1, <1>2, <1>5, <1>7
<1>9. OnCourse(more, first, fork, rescued # Untold)
  BY <1>1, <1>6, <1>8, CourseKept DEF more
<1>10. \A i \in 1 .. Len(more.tokens) : i < fork => more.tokens[i] = first[i]
  BY <1>1, <1>2, <1>4, <1>6, <1>8
<1>11. Len(more.tokens) >= fork => more.tokens[fork] \notin more.banned
  <2> SUFFICES ASSUME l + 1 >= fork PROVE more.tokens[fork] \notin s.banned
    BY <1>3, <1>4
  <2>1. CASE l >= fork
    <3>1. fork \in 1 .. l
      BY <2>1, <1>1, <1>2
    <3> QED
      BY <2>1, <3>1, <1>4, <1>6
  <2>2. CASE ~ (l >= fork)
    <3>1. l + 1 = fork
      BY <2>2, <1>1, <1>2
    <3>2. l + 1 = Len(s.prefix) + 1
      BY <3>1, <1>1, <1>2, <1>5
    <3> QED
      BY <3>1, <3>2, <1>4, <1>7
  <2> QED
    BY <2>1, <2>2
<1> QED
  BY <1>3, <1>5, <1>6, <1>9, <1>10, <1>11 DEF RetryOK, first, fork, more

LEMMA EmitKeeps ==
  DecodingInv /\ Emit => DecodingInv'
<1> SUFFICES ASSUME DecodingInv, Emit PROVE DecodingInv'
  OBVIOUS
<1>1. PICK x \in Vocabulary : Legal(stream, x) /\ stream' = Take(stream, x)
  BY DEF Emit
<1>2. /\ answer = Untold /\ stream.finish = Untold
      /\ page' = page /\ call' = call /\ rescued' = rescued /\ answer' = answer
  BY DEF Emit, Decoding
<1>3. /\ page \in DecodingScenarios /\ StreamOK(stream)
      /\ rescued # Untold => rescued \in ReadsFor(page) /\ BodyRegions(rescued.tokens) = {}
      /\ call # NoCall => CallOK(call)
  BY DEF DecodingInv
<1>4. (StreamOK(stream))'
  BY <1>1, <1>2, <1>3, TakeOK, CallStays
<1>5. /\ (rescued # Untold => rescued \in ReadsFor(page) /\ BodyRegions(rescued.tokens) = {})'
      /\ (call # NoCall => CallOK(call))'
  BY <1>2, <1>3, PageStays, CallStays DEF NoCall
<1>6. CASE call = NoCall
  <2>1. OnCourse(stream, stream.tokens, Len(stream.tokens) + 1, rescued # Untold)
    BY <1>2, <1>6 DEF DecodingInv
  <2>2. OnCourse(stream', stream'.tokens, Len(stream'.tokens) + 1, rescued # Untold)
    BY <1>1, <1>2, <1>3, <2>1, CourseGrows
  <2>3. (OnCourse(stream, stream.tokens, Len(stream.tokens) + 1, rescued # Untold))'
    BY <1>2, <2>2, CourseStays
  <2> QED
    BY <1>2, <1>3, <1>4, <1>5, <1>6, <2>3 DEF DecodingInv, ReadsNeverWorsen, NoCall
<1>7. CASE call # NoCall
  <2>1. RetryOK(call, stream)
    BY <1>2, <1>7 DEF DecodingInv
  <2>2. RetryOK(call, stream')
    BY <1>1, <1>3, <1>7, <2>1, RetryGrows
  <2>3. (RetryOK(call, stream))'
    BY <1>2, <2>2, RetryStays
  <2> QED
    BY <1>2, <1>3, <1>4, <1>5, <1>7, <2>3 DEF DecodingInv, ReadsNeverWorsen, NoCall
<1> QED
  BY <1>6, <1>7

LEMMA StuckKeeps ==
  DecodingInv /\ Stuck => DecodingInv'
<1> SUFFICES ASSUME DecodingInv, Stuck PROVE DecodingInv'
  OBVIOUS
<1>2. /\ answer = Untold /\ stream' = FreshStream(FALSE, <<>>, {})
      /\ page' = page /\ call' = call /\ rescued' = rescued
      /\ answer' = IF call # NoCall
                   THEN IF rescued = Untold \/ RescueWorked(call.best) THEN call.best ELSE rescued
                   ELSE IF rescued # Untold THEN rescued ELSE NoRead
  BY DEF Stuck, Decoding
<1>3. /\ page \in DecodingScenarios
      /\ rescued # Untold => rescued \in ReadsFor(page) /\ BodyRegions(rescued.tokens) = {}
      /\ call # NoCall => CallOK(call)
  BY DEF DecodingInv
<1>4. (StreamOK(stream))'
  BY <1>2, FreshOK, CallStays
<1>5. /\ (rescued # Untold => rescued \in ReadsFor(page) /\ BodyRegions(rescued.tokens) = {})'
      /\ (call # NoCall => CallOK(call))'
  BY <1>2, <1>3, PageStays, CallStays DEF NoCall
<1>6. ReadsNeverWorsen' /\ answer' # Untold
  <2>1. Untold \notin ReadsFor(page) /\ NoRead \in ReadsFor(page)
    BY <1>3, FreshReads
  <2>2. CASE call # NoCall
    <3>1. /\ call.best \in ReadsFor(page) /\ NoWorse(call.best, call.first)
      BY <1>3, <2>2 DEF CallOK
    <3>2. answer' = IF rescued = Untold \/ RescueWorked(call.best) THEN call.best ELSE rescued
      BY <1>2, <2>2
    <3>3. ReadsNeverWorsen' /\ answer' \in ReadsFor(page)
      BY <1>2, <1>3, <3>1, <3>2, AnswersOK
    <3> QED
      BY <2>1, <3>3
  <2>3. CASE call = NoCall /\ rescued # Untold
    <3>1. answer' = rescued /\ rescued' = rescued
      BY <1>2, <2>3
    <3>2. ReadsNeverWorsen'
      BY <1>2, <1>3, <2>3, <3>1, ReadsCount, PageStays DEF ReadsNeverWorsen, NoWorse, FirstRead
    <3> QED
      BY <2>1, <1>3, <2>3, <3>1, <3>2
  <2>4. CASE call = NoCall /\ rescued = Untold
    <3>1. answer' = NoRead /\ FirstRead' = Untold
      BY <1>2, <2>4 DEF FirstRead, NoCall
    <3> QED
      BY <2>1, <3>1 DEF ReadsNeverWorsen
  <2> QED
    BY <2>2, <2>3, <2>4
<1> QED
  BY <1>2, <1>3, <1>4, <1>5, <1>6 DEF DecodingInv

LEMMA FinishFirstKeeps ==
  DecodingInv /\ FinishFirst => DecodingInv'
<1> SUFFICES ASSUME DecodingInv, FinishFirst PROVE DecodingInv'
  OBVIOUS
<1>1. answer = Untold /\ stream.finish # Untold /\ call = NoCall
  BY DEF FinishFirst
<1>2. /\ page \in DecodingScenarios /\ StreamOK(stream)
      /\ rescued # Untold => rescued \in ReadsFor(page) /\ BodyRegions(rescued.tokens) = {}
      /\ OnCourse(stream, stream.tokens, Len(stream.tokens) + 1, rescued # Untold)
  BY <1>1 DEF DecodingInv
<1>3. call.first = Untold /\ Untold \notin ReadsFor(page)
  BY <1>1, <1>2, FreshReads DEF NoCall
<1>4. PICK read \in ReadsOf(stream) :
        IF ~Single THEN Return(read)
        ELSE IF rescued = Untold /\ NeedsRescue(read) THEN StartRescue(read)
        ELSE IF DuplicateBlocks(read.tokens) = {} THEN Return(read)
        ELSE IF Fork(read.tokens) > page.budget - Reserve THEN Return(read)
        ELSE StartRetries(read, Fork(read.tokens))
  BY DEF FinishFirst
<1>5. read \in ReadsFor(page) /\ read.tokens = stream.tokens
  <2>1. PICK score \in page.scores \union {0} : read = ReadOf(stream, score)
    BY DEF ReadsOf
  <2> QED
    BY <1>1, <1>2, <2>1, ReadsAreTyped
<1>6. ASSUME Return(read) PROVE DecodingInv'
  <2>1. /\ answer' = IF rescued = Untold \/ RescueWorked(read) THEN read ELSE rescued
        /\ stream' = FreshStream(FALSE, <<>>, {})
        /\ page' = page /\ call' = call /\ rescued' = rescued
    BY <1>6 DEF Return
  <2>2. ReadsNeverWorsen' /\ answer' \in ReadsFor(page)
    BY <1>2, <1>3, <1>5, <2>1, AnswersOK
  <2>3. (StreamOK(stream))'
    BY <2>1, FreshOK, CallStays
  <2>4. (rescued # Untold => rescued \in ReadsFor(page) /\ BodyRegions(rescued.tokens) = {})'
    BY <1>2, <2>1, PageStays, CallStays
  <2>5. answer' # Untold /\ call' = NoCall'
    BY <1>1, <1>3, <2>1, <2>2 DEF NoCall
  <2> QED
    BY <1>2, <2>1, <2>2, <2>3, <2>4, <2>5 DEF DecodingInv
<1>7. ASSUME NeedsRescue(read), StartRescue(read) PROVE DecodingInv'
  <2>1. /\ rescued' = read /\ stream' = FreshStream(TRUE, <<>>, {})
        /\ page' = page /\ call' = call /\ answer' = answer
    BY <1>7 DEF StartRescue
  <2>2. BodyRegions(read.tokens) = {}
    BY <1>7 DEF NeedsRescue
  <2>3. (StreamOK(stream))'
    BY <2>1, FreshOK, CallStays
  <2>4. (rescued # Untold => rescued \in ReadsFor(page) /\ BodyRegions(rescued.tokens) = {})'
    BY <1>5, <2>1, <2>2, PageStays, CallStays
  <2>5. (rescued' # Untold) = TRUE /\ call' = NoCall' /\ answer' = Untold
    BY <1>1, <1>3, <1>5, <2>1 DEF NoCall
  <2>6. (OnCourse(stream, stream.tokens, Len(stream.tokens) + 1, rescued # Untold))'
    <3> DEFINE fresh == FreshStream(TRUE, <<>>, {})
    <3>1. OnCourse(fresh, <<>>, 1, TRUE)
      BY CourseBegins, Zenon
    <3>2. fresh.tokens = <<>>
      BY DEF FreshStream
    <3> HIDE DEF fresh
    <3>3. stream' = fresh
      BY <2>1 DEF fresh
    <3>4. Len(stream'.tokens) + 1 = 1
      BY <3>2, <3>3
    <3>5. OnCourse(stream', stream'.tokens, Len(stream'.tokens) + 1, rescued' # Untold)
      BY <2>5, <3>1, <3>2, <3>3, <3>4
    <3> QED
      BY <2>1, <3>5, CourseStays
  <2> QED
    BY <1>2, <2>1, <2>3, <2>4, <2>5, <2>6 DEF DecodingInv, ReadsNeverWorsen
<1>8. ASSUME DuplicateBlocks(read.tokens) # {}, StartRetries(read, Fork(read.tokens)) PROVE DecodingInv'
  <2> DEFINE fork == Fork(read.tokens)
             first == read.tokens
  <2>1. fork \in 1 .. Len(first) /\ first \in Seq(Vocabulary) /\ Len(first) \in Nat
    BY <1>2, <1>5, <1>8, ForkOK DEF StreamOK
  <2> HIDE DEF fork
  <2>2. /\ call' = [first |-> read, best |-> read, fork |-> fork, tried |-> <<>>]
        /\ stream' = FreshStream(rescued # Untold, SubSeq(first, 1, fork - 1), {first[fork]})
        /\ page' = page /\ rescued' = rescued /\ answer' = answer
    BY <1>8 DEF StartRetries, fork
  <2>3. /\ call'.first = read /\ call'.best = read /\ call'.fork = fork /\ call'.tried = <<>>
        /\ Len(call'.tried) = 0 /\ call'.first # Untold
    BY <1>3, <1>5, <2>2
  <2>4. CallOK(call')
    <3>1. WaysOK(call')
      <4>1. <<>> \in Seq(Seq(Vocabulary))
        OBVIOUS
      <4> QED
        BY <2>3, <4>1 DEF WaysOK
    <3>2. NoWorse(read, read)
      BY <1>5, ReadsCount
    <3> QED
      BY <1>5, <2>1, <2>2, <2>3, <3>1, <3>2 DEF CallOK
  <2>5. /\ StreamOK(stream') /\ stream'.tokens = <<>> /\ stream'.banned = {first[fork]}
        /\ stream'.prefix = SubSeq(first, 1, fork - 1) /\ stream'.steered = (rescued # Untold)
    <3> DEFINE prefix == SubSeq(first, 1, fork - 1)
               banned == {first[fork]}
               fresh == FreshStream(rescued # Untold, prefix, banned)
    <3>1. StreamOK(fresh)
      BY FreshAlike, Zenon
    <3>2. fresh.tokens = <<>> /\ fresh.banned = banned /\ fresh.prefix = prefix /\ fresh.steered = (rescued # Untold)
      BY DEF FreshStream
    <3> HIDE DEF fresh
    <3>3. stream' = fresh
      BY <2>2 DEF fresh
    <3> QED
      BY <3>1, <3>2, <3>3
  <2>6. OnCourse(stream', first, fork, rescued # Untold)
    BY <1>2, <1>5, <2>2, CourseRestarts
  <2>7. RetryOK(call', stream')
    <3>1. Len(stream'.tokens) = 0
      BY <2>5
    <3> QED
      BY <2>1, <2>3, <2>5, <2>6, <3>1 DEF RetryOK
  <2>8. (StreamOK(stream) /\ CallOK(call) /\ RetryOK(call, stream))'
    BY <2>2, <2>4, <2>5, <2>7, CallStays, RetryStays
  <2>9. (rescued # Untold => rescued \in ReadsFor(page) /\ BodyRegions(rescued.tokens) = {})'
    BY <1>2, <2>2, PageStays, CallStays
  <2>10. (call # NoCall)' /\ answer' = Untold
    BY <1>1, <2>2, <2>3 DEF NoCall
  <2> QED
    BY <1>2, <2>2, <2>8, <2>9, <2>10 DEF DecodingInv, ReadsNeverWorsen
<1> QED
  BY <1>4, <1>6, <1>7, <1>8

(* A retry gets past its fork, as the first read came there: it can be told from *)
(* the reads before it by the token it took.                                     *)
LEMMA RetriesGetThere ==
  ASSUME NEW c, CallOK(c), NEW s, StreamOK(s), RetryOK(c, s), s.finish # Untold
  PROVE  c.fork \in 1 .. Len(s.tokens)
<1> DEFINE first == c.first.tokens
           fork == c.fork
           l == Len(s.tokens)
<1>1. fork \in 1 .. Len(first) /\ Len(first) \in Nat /\ l \in Nat
  BY DEF CallOK, StreamOK
<1>2. PICK qs : Course(qs, first, rescued # Untold) /\ (l < fork => Alike(s, qs[l + 1]))
  BY DEF RetryOK, OnCourse
<1> HIDE DEF first, fork, l
<1>3. ASSUME l < fork PROVE FALSE
  <2>1. l + 1 \in 1 .. Len(first)
    BY <1>1, <1>3
  <2>2. qs[l + 1].finish = Untold /\ Alike(s, qs[l + 1])
    BY <1>2, <1>3, <2>1 DEF Course
  <2> QED
    BY <2>2 DEF Alike
<1>4. fork \in 1 .. l
  BY <1>1, <1>3
<1> QED
  BY <1>4 DEF fork, l

LEMMA WaysGrow ==
  ASSUME NEW c, CallOK(c), NEW s, StreamOK(s), RetryOK(c, s), s.finish # Untold,
         NEW best \in ReadsFor(page), NoWorse(best, c.first), NEW d,
         AfterRetry(d, c, best, s)
  PROVE  /\ CallOK(d) /\ d.first = c.first /\ d.fork = c.fork
         /\ Len(d.tried) = Len(c.tried) + 1
         /\ \A n \in 1 .. Len(c.tried) : d.tried[n] = c.tried[n]
         /\ d.tried[Len(c.tried) + 1][c.fork] = s.tokens[c.fork]
<1> DEFINE first == c.first.tokens
           fork == c.fork
           way == SubSeq(s.tokens, 1, fork)
           l == Len(c.tried)
<1>1. /\ first \in Seq(Vocabulary) /\ fork \in 1 .. Len(first)
      /\ c.tried \in Seq(Seq(Vocabulary)) /\ l \in Nat
  BY DEF CallOK, WaysOK
<1>2. s.tokens \in Seq(Vocabulary) /\ fork \in 1 .. Len(s.tokens) /\ Len(s.tokens) \in Nat
  BY RetriesGetThere DEF StreamOK
<1>3. /\ way \in Seq(Vocabulary) /\ Len(way) = fork
      /\ \A i \in 1 .. fork : way[i] = s.tokens[i]
  <2> HIDE DEF fork
  <2> QED
    BY <1>2
<1>4. /\ \A i \in 1 .. Len(s.tokens) : i < fork => s.tokens[i] = first[i]
      /\ s.tokens[fork] \notin s.banned /\ first[fork] \in s.banned
      /\ \A n \in 1 .. l : c.tried[n][fork] \in s.banned
  BY <1>2 DEF RetryOK
<1>5. /\ d.first = c.first /\ d.best = best /\ d.fork = fork
      /\ d.tried = Append(c.tried, way)
      /\ d = [first |-> d.first, best |-> d.best, fork |-> d.fork, tried |-> d.tried]
  BY DEF AfterRetry
<1> HIDE DEF first, fork, way, l
<1>6. /\ Len(d.tried) = l + 1 /\ d.tried[l + 1] = way
      /\ \A n \in 1 .. l : d.tried[n] = c.tried[n]
      /\ d.tried \in Seq(Seq(Vocabulary))
  <2>1. Len(c.tried) = l
    BY DEF l
  <2> QED
    BY <1>1, <1>3, <1>5, <2>1
<1>7. WayOf(way, first, fork)
  <2>1. \A i \in 1 .. (fork - 1) : i \in 1 .. fork /\ i \in 1 .. Len(s.tokens) /\ i < fork
    BY <1>2
  <2> QED
    BY <2>1, <1>3, <1>4 DEF WayOf
<1>8. way[fork] = s.tokens[fork]
  BY <1>1, <1>3
<1>9. WaysOK(d)
  <2>1. \A n \in 1 .. l :
          /\ WayOf(c.tried[n], first, fork)
          /\ c.tried[n][fork] # first[fork]
          /\ \A m \in 1 .. (n - 1) : c.tried[m][fork] # c.tried[n][fork]
    BY DEF CallOK, WaysOK, first, fork, l
  <2>2. \A n \in 1 .. (l + 1) :
          /\ WayOf(d.tried[n], first, fork)
          /\ d.tried[n][fork] # first[fork]
    <3> TAKE n \in 1 .. (l + 1)
    <3>1. CASE n = l + 1
      BY <3>1, <1>3, <1>4, <1>6, <1>7, <1>8
    <3>2. CASE n # l + 1
      <4>1. n \in 1 .. l
        BY <3>2, <1>1
      <4> QED
        BY <4>1, <2>1, <1>6
    <3> QED
      BY <3>1, <3>2
  <2>3. \A n \in 1 .. (l + 1) : \A m \in 1 .. (n - 1) : d.tried[m][fork] # d.tried[n][fork]
    <3> TAKE n \in 1 .. (l + 1)
    <3> TAKE m \in 1 .. (n - 1)
    <3>0. l \in Nat
      BY <1>1
    <3>1. m \in 1 .. l
      BY <3>0
    <3>2. CASE n = l + 1
      BY <3>1, <3>2, <1>4, <1>6, <1>8
    <3>3. CASE n # l + 1
      <4>1. n \in 1 .. l
        BY <3>0, <3>3
      <4> QED
        BY <3>1, <4>1, <2>1, <1>6
    <3> QED
      BY <3>2, <3>3
  <2> QED
    BY <1>1, <1>5, <1>6, <2>2, <2>3 DEF WaysOK, first, fork
<1>10. CallOK(d)
  <2>1. c.first \in ReadsFor(page)
    BY DEF CallOK
  <2> QED
    BY <2>1, <1>1, <1>5, <1>9 DEF CallOK, first, fork
<1> QED
  BY <1>5, <1>6, <1>8, <1>10 DEF fork, l

LEMMA FinishRetryKeeps ==
  DecodingInv /\ FinishRetry => DecodingInv'
<1> SUFFICES ASSUME DecodingInv, FinishRetry PROVE DecodingInv'
  OBVIOUS
<1> DEFINE Read(score) == ReadOf(stream, score)
           EligibleRead(score) == Eligible(call.first, Read(score), call.fork)
           Best(score) == IF EligibleRead(score) /\ Better(Read(score), call.best, call.fork)
                          THEN Read(score) ELSE call.best
           Banned(score) == stream.banned \union Explored(Read(score), call.fork)
<1>1. /\ answer = Untold /\ stream.finish # Untold /\ call # NoCall
      /\ page' = page /\ rescued' = rescued
  BY DEF FinishRetry
<1>2. /\ page \in DecodingScenarios /\ StreamOK(stream)
      /\ rescued # Untold => rescued \in ReadsFor(page) /\ BodyRegions(rescued.tokens) = {}
      /\ CallOK(call) /\ RetryOK(call, stream)
  BY <1>1 DEF DecodingInv
<1>3. PICK score \in page.scores :
        /\ call' = [call EXCEPT !.best = Best(score),
                                !.tried = Append(@, SubSeq(stream.tokens, 1, call.fork))]
        /\ IF \/ EligibleRead(score) /\ DuplicateBlocks(Read(score).tokens) = {}
              \/ Len(call.tried) + 1 = MaxRetries
           THEN /\ answer' = IF rescued = Untold \/ RescueWorked(Best(score)) THEN Best(score) ELSE rescued
                /\ stream' = FreshStream(FALSE, <<>>, {})
           ELSE /\ stream' = FreshStream(stream.steered, stream.prefix, Banned(score))
                /\ UNCHANGED answer
  BY DEF FinishRetry
<1> DEFINE read == Read(score)
           best == Best(score)
           banned == Banned(score)
<1>4. read \in ReadsFor(page) /\ read.tokens = stream.tokens
  BY <1>1, <1>2, ReadsAreTyped
<1>5. best \in ReadsFor(page) /\ NoWorse(best, call.first)
  BY <1>2, <1>4, EligibleOK DEF CallOK
<1>6. /\ stream.tokens[call.fork] \in banned /\ stream.banned \subseteq banned
  <2>1. call.fork \in 1 .. Len(stream.tokens) /\ DOMAIN stream.tokens = 1 .. Len(stream.tokens)
    BY <1>1, <1>2, RetriesGetThere DEF StreamOK
  <2> QED
    BY <1>4, <2>1 DEF Explored
<1> HIDE DEF read, best, banned, Read, EligibleRead, Best, Banned
<1>7. /\ CallOK(call') /\ call'.first = call.first /\ call'.fork = call.fork
      /\ Len(call'.tried) = Len(call.tried) + 1
      /\ \A n \in 1 .. Len(call.tried) : call'.tried[n] = call.tried[n]
      /\ call'.tried[Len(call.tried) + 1][call.fork] = stream.tokens[call.fork]
  <2> DEFINE ways == Append(call.tried, SubSeq(stream.tokens, 1, call.fork))
  <2>0. /\ CallOK(call)
        /\ call' = [call EXCEPT !.best = best, !.tried = ways]
    BY <1>2, <1>3 DEF best
  <2> HIDE DEF ways
  <2>1. AfterRetry(call', call, best, stream)
    <3>1. PICK a, b, f, t : call = [first |-> a, best |-> b, fork |-> f, tried |-> t]
      BY <2>0 DEF CallOK
    <3>2. call' = [first |-> a, best |-> best, fork |-> f, tried |-> ways]
      BY <2>0, <3>1
    <3>3. /\ call' = [first |-> call'.first, best |-> call'.best, fork |-> call'.fork, tried |-> call'.tried]
          /\ call'.first = call.first /\ call'.best = best /\ call'.fork = call.fork
          /\ call'.tried = ways
      BY <3>1, <3>2
    <3> QED
      BY <3>3 DEF AfterRetry, ways
  <2> QED
    BY <1>1, <1>2, <1>5, <2>1, WaysGrow
<1>8. (CallOK(call))'
  BY <1>1, <1>7, CallStays
<1>9. (rescued # Untold => rescued \in ReadsFor(page) /\ BodyRegions(rescued.tokens) = {})'
  BY <1>1, <1>2, PageStays, CallStays
<1>10. /\ Untold \notin ReadsFor(page)
       /\ (call # NoCall)'
  <2>1. Untold \notin ReadsFor(page) /\ call'.first \in ReadsFor(page)
    BY <1>2, <1>7, FreshReads DEF CallOK
  <2>2. NoCall'.first = Untold
    BY DEF NoCall
  <2> QED
    BY <2>1, <2>2
<1>11. CASE /\ answer' = IF rescued = Untold \/ RescueWorked(best) THEN best ELSE rescued
            /\ stream' = FreshStream(FALSE, <<>>, {})
  <2>1. ReadsNeverWorsen' /\ answer' \in ReadsFor(page)
    BY <1>1, <1>2, <1>5, <1>7, <1>11, AnswersOK
  <2>2. (StreamOK(stream))'
    BY <1>1, <1>11, FreshOK, CallStays
  <2> QED
    BY <1>1, <1>2, <1>8, <1>9, <1>10, <2>1, <2>2 DEF DecodingInv
<1>12. CASE stream' = FreshStream(stream.steered, stream.prefix, banned) /\ answer' = answer
  <2> DEFINE first == call.first.tokens
             fork == call.fork
  <2>1. /\ StreamOK(stream') /\ stream'.tokens = <<>> /\ stream'.banned = banned
        /\ stream'.prefix = stream.prefix /\ stream'.steered = stream.steered
    BY <1>12, FreshAlike
  <2>2. /\ stream.prefix = SubSeq(first, 1, fork - 1) /\ first[fork] \in stream.banned
        /\ \A n \in 1 .. Len(call.tried) : call.tried[n][fork] \in stream.banned
        /\ OnCourse(stream, first, fork, rescued # Untold)
        /\ stream.steered = (rescued # Untold)
    BY <1>2 DEF RetryOK
  <2>3. OnCourse(stream', first, fork, rescued # Untold)
    <3> DEFINE steered == rescued # Untold
    <3>1. OnCourse(stream, first, fork, steered) /\ stream' = FreshStream(steered, stream.prefix, banned)
      BY <2>2, <1>12
    <3> QED
      BY <3>1, CourseRestarts
  <2>4. \A n \in 1 .. Len(call'.tried) : call'.tried[n][fork] \in banned
    <3> TAKE n \in 1 .. Len(call'.tried)
    <3>1. Len(call.tried) \in Nat
      BY <1>2 DEF CallOK, WaysOK
    <3>2. CASE n = Len(call.tried) + 1
      BY <3>2, <1>6, <1>7
    <3>3. CASE n # Len(call.tried) + 1
      <4>1. n \in 1 .. Len(call.tried)
        BY <3>1, <3>3, <1>7
      <4> QED
        BY <4>1, <2>2, <1>6, <1>7
    <3> QED
      BY <3>2, <3>3
  <2>5. Len(stream'.tokens) = 0 /\ fork \in Nat \ {0}
    <3>1. call.fork \in 1 .. Len(call.first.tokens)
      BY <1>2 DEF CallOK
    <3> QED
      BY <2>1, <3>1
  <2>6. RetryOK(call', stream')
    BY <1>6, <1>7, <2>1, <2>2, <2>3, <2>4, <2>5 DEF RetryOK
  <2>7. (StreamOK(stream) /\ RetryOK(call, stream))'
    BY <1>1, <2>1, <2>6, CallStays, RetryStays
  <2> QED
    BY <1>1, <1>2, <1>8, <1>9, <1>10, <1>12, <2>7 DEF DecodingInv, ReadsNeverWorsen
<1> QED
  BY <1>3, <1>11, <1>12 DEF best, banned

LEMMA DecodingStutters ==
  DecodingInv /\ UNCHANGED decodingVars => DecodingInv'
<1> SUFFICES ASSUME DecodingInv, UNCHANGED decodingVars PROVE DecodingInv'
  OBVIOUS
<1>1. /\ page' = page /\ stream' = stream /\ call' = call /\ rescued' = rescued /\ answer' = answer
      /\ NoCall' = NoCall
  BY DEF decodingVars, NoCall
<1>2. (StreamOK(stream))' <=> StreamOK(stream)
  BY <1>1, CallStays
<1>3. (CallOK(call))' <=> CallOK(call)
  BY <1>1, CallStays
<1>4. (RetryOK(call, stream))' <=> RetryOK(call, stream)
  BY <1>1, RetryStays
<1>5. (OnCourse(stream, stream.tokens, Len(stream.tokens) + 1, rescued # Untold))'
      <=> OnCourse(stream, stream.tokens, Len(stream.tokens) + 1, rescued # Untold)
  BY <1>1, CourseStays
<1>6. (rescued # Untold => rescued \in ReadsFor(page) /\ BodyRegions(rescued.tokens) = {})'
      <=> (rescued # Untold => rescued \in ReadsFor(page) /\ BodyRegions(rescued.tokens) = {})
  BY <1>1, PageStays, CallStays
<1>7. ReadsNeverWorsen' <=> ReadsNeverWorsen
  BY <1>1, PageStays DEF ReadsNeverWorsen, FirstRead
<1> QED
  BY <1>1, <1>2, <1>3, <1>4, <1>5, <1>6, <1>7 DEF DecodingInv

(* Whatever the model says, and however often its reads fail: the retries of a *)
(* call are on the course of its first read, and what they may return has      *)
(* every region in which the first read had text of its own.                   *)
THEOREM DecodingInvariant == DecodingSpec => []DecodingInv
<1>1. DecodingInit => DecodingInv
  BY DecodingInitial
<1>2. DecodingInv /\ [DecodingNext]_decodingVars => DecodingInv'
  BY EmitKeeps, FinishFirstKeeps, FinishRetryKeeps, StuckKeeps, DecodingStutters DEF DecodingNext
<1> QED
  BY <1>1, <1>2, PTL DEF DecodingSpec

LEMMA WaysApart ==
  DecodingInv => RetriesBranchApart
<1> SUFFICES ASSUME DecodingInv PROVE RetriesBranchApart
  OBVIOUS
<1>1. CASE call = NoCall
  <2>1. DOMAIN <<>> = {}
    OBVIOUS
  <2> QED
    BY <1>1, <2>1 DEF RetriesBranchApart
<1>2. CASE call # NoCall
  <2> DEFINE first == call.first.tokens
             fork == call.fork
             tried == call.tried
             own == SubSeq(first, 1, fork)
             ways == <<own>> \o tried
             l == Len(tried)
  <2>1. CallOK(call)
    BY <1>2 DEF DecodingInv
  <2>2. /\ first \in Seq(Vocabulary) /\ fork \in 1 .. Len(first) /\ Len(first) \in Nat
        /\ tried \in Seq(Seq(Vocabulary)) /\ l \in Nat
    BY <2>1 DEF CallOK, WaysOK
  <2>3. \A n \in 1 .. l :
          /\ Len(tried[n]) = fork /\ \A i \in 1 .. (fork - 1) : tried[n][i] = first[i]
          /\ tried[n][fork] # first[fork]
          /\ \A m \in 1 .. (n - 1) : tried[m][fork] # tried[n][fork]
    BY <2>1 DEF CallOK, WaysOK, WayOf
  <2> HIDE DEF first, fork, tried
  <2>4. /\ own \in Seq(Vocabulary) /\ Len(own) = fork /\ \A i \in 1 .. fork : own[i] = first[i]
    BY <2>2
  <2> HIDE DEF own
  <2>5. /\ DOMAIN ways = 1 .. (l + 1) /\ ways[1] = own
        /\ \A n \in 2 .. (l + 1) : ways[n] = tried[n - 1]
    <3>1. <<own>> \in Seq(Seq(Vocabulary)) /\ Len(<<own>>) = 1 /\ <<own>>[1] = own
      BY <2>4
    <3> QED
      BY <2>2, <3>1
  <2>6. \A n \in 1 .. (l + 1) :
          /\ ways[n] \in Seq(Vocabulary) /\ Len(ways[n]) = fork
          /\ \A i \in 1 .. (fork - 1) : ways[n][i] = first[i]
    <3> TAKE n \in 1 .. (l + 1)
    <3>1. CASE n = 1
      BY <3>1, <2>2, <2>4, <2>5
    <3>2. CASE n # 1
      <4>1. n \in 2 .. (l + 1) /\ n - 1 \in 1 .. l
        BY <3>2, <2>2
      <4> QED
        BY <4>1, <2>2, <2>3, <2>5
    <3> QED
      BY <3>1, <3>2
  <2>7. ASSUME NEW m \in 1 .. (l + 1), NEW n \in 1 .. (l + 1), m < n
        PROVE  ways[n][fork] # ways[m][fork]
    <3>1. n \in 2 .. (l + 1) /\ n - 1 \in 1 .. l
      BY <2>2, <2>7
    <3>2. CASE m = 1
      BY <3>1, <3>2, <2>2, <2>3, <2>4, <2>5
    <3>3. CASE m # 1
      <4>1. m \in 2 .. (l + 1) /\ m - 1 \in 1 .. ((n - 1) - 1)
        BY <3>3, <2>2, <2>7
      <4> QED
        BY <3>1, <4>1, <2>3, <2>5
    <3> QED
      BY <3>2, <3>3
  <2> HIDE DEF ways
  <2>8. ASSUME NEW m \in 1 .. (l + 1), NEW n \in 1 .. (l + 1), m < n
        PROVE  Front(ways[n]) = Front(ways[m]) /\ Last(ways[n]) # Last(ways[m])
    <3>1. /\ Front(ways[n]) = SubSeq(ways[n], 1, fork - 1) /\ Front(ways[m]) = SubSeq(ways[m], 1, fork - 1)
          /\ Last(ways[n]) = ways[n][fork] /\ Last(ways[m]) = ways[m][fork]
      BY <2>6 DEF Front, Last
    <3>2. SubSeq(ways[n], 1, fork - 1) = SubSeq(ways[m], 1, fork - 1)
      <4>1. /\ SubSeq(ways[n], 1, fork - 1) = [i \in 1 .. (fork - 1) |-> ways[n][i]]
            /\ SubSeq(ways[m], 1, fork - 1) = [i \in 1 .. (fork - 1) |-> ways[m][i]]
        BY <2>2, <2>6
      <4>2. \A i \in 1 .. (fork - 1) : ways[n][i] = ways[m][i]
        BY <2>6
      <4> QED
        BY <4>1, <4>2
    <3> QED
      BY <3>1, <3>2, <2>7, <2>8
  <2> QED
    BY <1>2, <2>5, <2>6, <2>8 DEF RetriesBranchApart, ways, own, first, fork, tried
<1> QED
  BY <1>1, <1>2

(* A retry or rescue never costs a region in which the first read had text of  *)
(* its own (what only repeats an earlier block of it does not count, a copy    *)
(* compressed below one included), and each retry of a block leaves the first  *)
(* read at the fork, by a way no read before it took.                          *)
THEOREM RetriesImprove == DecodingSpec => []RetriesOnlyImprove
<1>1. DecodingInv => RetriesOnlyImprove
  BY WaysApart DEF DecodingInv, RetriesOnlyImprove
<1> QED
  BY <1>1, DecodingInvariant, PTL

-----------------------------------------------------------------------------
(***************************************************************************)
(* pages2md, a decode of one page.  Where the text of a block is that of   *)
(* the file, the cursor of the guide stands at the last word that was      *)
(* read, which it has just supported.                                      *)
(***************************************************************************)
LastBlock(tokens, b) == b \in Blocks(tokens) /\ \A c \in Blocks(tokens) : c <= b

(* The text of a block, the first of its region, is that of the file. *)
Follows(tokens, b) ==
  /\ \A c \in Blocks(tokens) \ {b} : tokens[c] # tokens[b]
  /\ \A i \in b + 1 .. Len(tokens) :
       tokens[i] # End => /\ i - b \in DOMAIN page.evidence[tokens[b].opens]
                          /\ tokens[i] = Said(page.evidence[tokens[b].opens][i - b])

GuideShape(g) ==
  /\ g = [page |-> g.page, active |-> g.active, seen |-> g.seen, emitted |-> g.emitted,
          cursor |-> g.cursor, supported |-> g.supported]
  /\ g.page = 1
  /\ g.cursor \in [DOMAIN page.evidence -> Nat]

Guided(tokens, g, b) ==
  /\ g.seen = TRUE
  /\ g.active = IF page.evidence[tokens[b].opens] # <<>> THEN tokens[b].opens ELSE Untold
  /\ Follows(tokens, b) => /\ g.cursor[tokens[b].opens] = Len(tokens) - b
                           /\ b < Len(tokens) => g.supported = Len(tokens)

Guides(tokens, g) ==
  /\ GuideShape(g)
  /\ \A i \in 1 .. Len(tokens) : tokens[i] # End
  /\ g.active # Untold => /\ g.active \in DOMAIN page.evidence
                          /\ \E i \in 1 .. Len(tokens) : tokens[i] = Opening(g.active)
  /\ \A r \in DOMAIN page.evidence :
       (\A i \in 1 .. Len(tokens) : tokens[i] # Opening(r)) => g.cursor[r] = 0
  /\ \A b : LastBlock(tokens, b) => Guided(tokens, g, b)

Uncut(s) ==
  /\ \A i \in 1 .. (Len(s.tokens) - 1) : s.tokens[i] # End
  /\ \A b : /\ LastBlock(s.tokens, b) /\ Follows(s.tokens, b)
            /\ b < Len(s.tokens) /\ s.tokens[b + 1] # End
            => s.finish # "repetition_guard"

GuidedInv ==
  Single => /\ stream.finish = Untold => Guides(stream.tokens, stream.guide)
            /\ Uncut(stream)
-----------------------------------------------------------------------------
(* The tokens of a single page.                                              *)

(* A token is the header of a region, a word or the end.                     *)
LEMMA Kinds ==
  ASSUME page \in DecodingScenarios, Single, NEW x \in Vocabulary
  PROVE  \/ \E r \in DOMAIN page.evidence :
              /\ x = Opening(r) /\ Opens(x) /\ x.opens = r
              /\ ~Says(x) /\ x # End /\ x # PageMark
              /\ r # Untold
         \/ \E w \in page.words :
              x = Said(w) /\ ~Opens(x) /\ Says(x) /\ x.says = w /\ x # End /\ x # PageMark
         \/ x = End /\ ~Opens(x) /\ ~Says(x) /\ x # PageMark
<1>1. CASE \E r \in DOMAIN page.evidence : x = Opening(r)
  <2>1. PICK r \in DOMAIN page.evidence : x = Opening(r)
    BY <1>1
  <2>2. r # 0 /\ r # -1 /\ r # Untold
    BY DecodingAssumption
  <2>3. x.opens = r /\ x # End /\ x # PageMark /\ DOMAIN x = {"opens"}
    BY <2>1, <2>2 DEF Opening, End, PageMark
  <2> QED
    BY <2>1, <2>2, <2>3 DEF Opens, Says
<1>2. CASE \E w \in page.words : x = Said(w)
  <2>1. PICK w \in page.words : x = Said(w)
    BY <1>2
  <2>2. x.says = w /\ DOMAIN x = {"says"} /\ DOMAIN End = {"opens"} /\ DOMAIN PageMark = {"opens"}
    BY <2>1 DEF Said, End, PageMark
  <2> QED
    BY <2>1, <2>2 DEF Opens, Says
<1>3. CASE x = End
  <2>1. DOMAIN End = {"opens"} /\ End.opens = 0 /\ PageMark.opens = -1
    BY DEF End, PageMark
  <2> QED
    BY <1>3, <2>1 DEF Opens, Says
<1> QED
  BY <1>1, <1>2, <1>3 DEF Vocabulary, Single

(* The blocks after one more token. *)
LEMMA BlocksGrow ==
  ASSUME NEW S, NEW tokens \in Seq(S), NEW x \in S
  PROVE  LET more == Append(tokens, x)
             n == Len(tokens)
         IN  /\ n \in Nat /\ Len(more) = n + 1 /\ more[n + 1] = x /\ more \in Seq(S)
             /\ \A i \in 1 .. n : more[i] = tokens[i]
             /\ Blocks(tokens) \subseteq 1 .. n
             /\ Opens(x) => Blocks(more) = Blocks(tokens) \union {n + 1}
             /\ ~Opens(x) => Blocks(more) = Blocks(tokens)
             /\ ~Opens(x) => \A b : LastBlock(more, b) <=> LastBlock(tokens, b)
             /\ Opens(x) => \A b : LastBlock(more, b) => b = n + 1
<1> DEFINE more == Append(tokens, x)
           n == Len(tokens)
<1>1. /\ n \in Nat /\ Len(more) = n + 1 /\ more[n + 1] = x /\ more \in Seq(S)
      /\ \A i \in 1 .. n : more[i] = tokens[i]
      /\ DOMAIN more = 1 .. (n + 1) /\ DOMAIN tokens = 1 .. n
  OBVIOUS
<1> HIDE DEF more, n
<1>2. Blocks(tokens) = {i \in 1 .. n : Opens(tokens[i])} /\ Blocks(more) = {i \in 1 .. (n + 1) : Opens(more[i])}
  BY <1>1 DEF Blocks
<1>3. 1 .. (n + 1) = (1 .. n) \union {n + 1}
  BY <1>1
<1>4. /\ Opens(x) => Blocks(more) = Blocks(tokens) \union {n + 1}
      /\ ~Opens(x) => Blocks(more) = Blocks(tokens)
  BY <1>1, <1>2, <1>3
<1>5. ~Opens(x) => \A b : LastBlock(more, b) <=> LastBlock(tokens, b)
  BY <1>4 DEF LastBlock
<1>6. Opens(x) => \A b : LastBlock(more, b) => b = n + 1
  <2> SUFFICES ASSUME Opens(x), NEW b, LastBlock(more, b) PROVE b = n + 1
    OBVIOUS
  <2>1. b \in 1 .. (n + 1) /\ n + 1 <= b
    BY <1>2, <1>4 DEF LastBlock
  <2> QED
    BY <1>1, <2>1
<1> QED
  BY <1>1, <1>2, <1>4, <1>5, <1>6 DEF more, n

(* A block that follows the text of the file did so a token ago.             *)
LEMMA FollowsBack ==
  ASSUME NEW S, NEW tokens \in Seq(S), NEW x \in S, ~Opens(x), NEW b,
         LastBlock(tokens, b), Follows(Append(tokens, x), b)
  PROVE  /\ Follows(tokens, b)
         /\ x # End => /\ (Len(tokens) + 1) - b \in DOMAIN page.evidence[tokens[b].opens]
                       /\ x = Said(page.evidence[tokens[b].opens][(Len(tokens) + 1) - b])
<1> DEFINE more == Append(tokens, x)
           n == Len(tokens)
<1>1. /\ n \in Nat /\ Len(more) = n + 1 /\ more[n + 1] = x
      /\ \A i \in 1 .. n : more[i] = tokens[i]
      /\ Blocks(tokens) \subseteq 1 .. n
      /\ Blocks(more) = Blocks(tokens)
  BY BlocksGrow
<1> HIDE DEF more, n
<1>2. b \in 1 .. n /\ more[b] = tokens[b]
  BY <1>1 DEF LastBlock
<1>3. /\ \A c \in Blocks(more) \ {b} : more[c] # more[b]
      /\ \A i \in b + 1 .. Len(more) :
           more[i] # End => /\ i - b \in DOMAIN page.evidence[more[b].opens]
                            /\ more[i] = Said(page.evidence[more[b].opens][i - b])
  BY DEF Follows, more
<1>4. \A i \in b + 1 .. n : i \in b + 1 .. Len(more) /\ more[i] = tokens[i]
  BY <1>1, <1>2
<1>5. n + 1 \in b + 1 .. Len(more)
  BY <1>1, <1>2
<1>6. Follows(tokens, b)
  BY <1>1, <1>2, <1>3, <1>4 DEF Follows, n
<1>7. x # End => /\ (n + 1) - b \in DOMAIN page.evidence[tokens[b].opens]
                 /\ x = Said(page.evidence[tokens[b].opens][(n + 1) - b])
  BY <1>1, <1>2, <1>3, <1>5
<1> QED
  BY <1>6, <1>7 DEF n
-----------------------------------------------------------------------------
(* The guide.                                                                *)

(* The guide of a decode that has not begun has read nothing.                *)
LEMMA GuideBegins ==
  ASSUME page \in DecodingScenarios
  PROVE  Guides(<<>>, FreshGuide)
<1>1. Len(<<>>) = 0 /\ Blocks(<<>>) = {}
  BY DEF Blocks
<1>2. /\ GuideShape(FreshGuide) /\ FreshGuide.active = Untold
      /\ \A r \in DOMAIN page.evidence : FreshGuide.cursor[r] = 0
  BY DEF FreshGuide, GuideShape
<1> QED
  BY <1>1, <1>2 DEF Guides, LastBlock

(* A header turns the guide to its region.                                   *)
LEMMA HeadersTurn ==
  ASSUME NEW g, NEW x, NEW at, Opens(x), ~Says(x)
  PROVE  Feed(g, x, at) = [g EXCEPT !.active = SelectRegion(g, x.opens), !.seen = TRUE]
<1> DEFINE opened == [g EXCEPT !.active = SelectRegion(g, x.opens), !.seen = TRUE]
           turned == [g EXCEPT !.page = IF g.seen \/ g.emitted > 0 THEN @ + 1 ELSE @,
                               !.active = Untold, !.seen = FALSE]
           reads == g.seen /\ g.active # Untold
           read == Consume(g, x.says, at)
<1>1. Feed(g, x, at) = CASE Opens(x) -> opened [] x = PageMark -> turned
                         [] Says(x) /\ reads -> read [] OTHER -> g
  BY DEF Feed
<1>2. x # PageMark
  BY DEF Opens
<1> HIDE DEF opened, turned, reads, read
<1>3. Feed(g, x, at) = opened
  BY <1>1, <1>2
<1> QED
  BY <1>3 DEF opened

(* A word is looked for in the region being read.                            *)
LEMMA WordsAreRead ==
  ASSUME NEW g, NEW x, NEW at, ~Opens(x), x # PageMark, Says(x), g.seen = TRUE, g.active # Untold
  PROVE  Feed(g, x, at) = Consume(g, x.says, at)
<1> DEFINE opened == [g EXCEPT !.active = SelectRegion(g, x.opens), !.seen = TRUE]
           turned == [g EXCEPT !.page = IF g.seen \/ g.emitted > 0 THEN @ + 1 ELSE @,
                               !.active = Untold, !.seen = FALSE]
           reads == Says(x) /\ g.seen /\ g.active # Untold
           read == Consume(g, x.says, at)
<1>1. Feed(g, x, at) = CASE Opens(x) -> opened [] x = PageMark -> turned
                         [] reads -> read [] OTHER -> g
  BY DEF Feed
<1>2. reads
  OBVIOUS
<1> HIDE DEF opened, turned, reads, read
<1>3. Feed(g, x, at) = read
  BY <1>1, <1>2
<1> QED
  BY <1>3 DEF read

(* Anything else leaves the guide as it is, a word read in no region too.    *)
LEMMA OthersPassBy ==
  ASSUME NEW g, NEW x, NEW at, ~Opens(x), x # PageMark, ~Says(x) \/ g.active = Untold
  PROVE  Feed(g, x, at) = g
<1> DEFINE opened == [g EXCEPT !.active = SelectRegion(g, x.opens), !.seen = TRUE]
           turned == [g EXCEPT !.page = IF g.seen \/ g.emitted > 0 THEN @ + 1 ELSE @,
                               !.active = Untold, !.seen = FALSE]
           reads == Says(x) /\ g.seen /\ g.active # Untold
           read == Consume(g, x.says, at)
<1>1. Feed(g, x, at) = CASE Opens(x) -> opened [] x = PageMark -> turned
                         [] reads -> read [] OTHER -> g
  BY DEF Feed
<1>2. ~reads
  OBVIOUS
<1> HIDE DEF opened, turned, reads, read
<1> QED
  BY <1>1, <1>2

(* A header: the guide turns to its region, whose text it has not touched. *)
LEMMA GuideTurns ==
  ASSUME page \in DecodingScenarios, Single, NEW tokens \in Seq(Vocabulary), NEW g, Guides(tokens, g),
         NEW r \in DOMAIN page.evidence, Opens(Opening(r)), Opening(r).opens = r,
         Opening(r) # End, ~Says(Opening(r)), Opening(r) \in Vocabulary
  PROVE  Guides(Append(tokens, Opening(r)), Feed(g, Opening(r), Len(tokens) + 1))
<1> DEFINE x == Opening(r)
           more == Append(tokens, x)
           n == Len(tokens)
           h == Feed(g, x, n + 1)
<1>1. /\ n \in Nat /\ Len(more) = n + 1 /\ more[n + 1] = x
      /\ \A i \in 1 .. n : more[i] = tokens[i]
      /\ Blocks(tokens) \subseteq 1 .. n
      /\ Blocks(more) = Blocks(tokens) \union {n + 1}
      /\ \A b : LastBlock(more, b) => b = n + 1
  BY BlocksGrow
<1>2. h = [g EXCEPT !.active = SelectRegion(g, r), !.seen = TRUE]
  <2>1. Opens(x) /\ x.opens = r /\ ~Says(x)
    OBVIOUS
  <2> HIDE DEF x
  <2>2. Feed(g, x, n + 1) = [g EXCEPT !.active = SelectRegion(g, x.opens), !.seen = TRUE]
    BY <2>1, HeadersTurn
  <2> QED
    BY <2>1, <2>2
<1>3. /\ GuideShape(g) /\ g.cursor \in [DOMAIN page.evidence -> Nat]
      /\ \A i \in 1 .. n : tokens[i] # End
      /\ \A q \in DOMAIN page.evidence :
           (\A i \in 1 .. n : tokens[i] # Opening(q)) => g.cursor[q] = 0
  BY DEF Guides, GuideShape
<1>4. SelectRegion(g, r) = IF page.evidence[r] # <<>> THEN r ELSE Untold
  <2>1. page.pageOf[r] \in 1 .. page.pages /\ page.pages = 1 /\ g.page = 1
    BY <1>3, DecodingAssumption DEF Single, GuideShape
  <2> QED
    BY <2>1 DEF SelectRegion
<1> DEFINE turned == SelectRegion(g, r)
<1> HIDE DEF more, n, h, turned
<1>5. /\ GuideShape(h) /\ h.active = turned /\ h.seen = TRUE /\ h.cursor = g.cursor
  <2>1. h = [g EXCEPT !.active = turned, !.seen = TRUE]
    BY <1>2 DEF turned
  <2> QED
    BY <1>3, <2>1 DEF GuideShape
<1>6. n + 1 \in 1 .. (n + 1) /\ \A i \in 1 .. n : i \in 1 .. (n + 1)
  BY <1>1
<1>7. \A i \in 1 .. (n + 1) : more[i] # End
  <2> TAKE i \in 1 .. (n + 1)
  <2>1. i \in 1 .. n \/ i = n + 1
    BY <1>1
  <2> QED
    BY <2>1, <1>1, <1>3
<1>8. h.active # Untold => /\ h.active \in DOMAIN page.evidence
                           /\ \E i \in 1 .. (n + 1) : more[i] = Opening(h.active)
  BY <1>1, <1>4, <1>5, <1>6 DEF turned
<1>9. \A q \in DOMAIN page.evidence :
        (\A i \in 1 .. (n + 1) : more[i] # Opening(q)) => h.cursor[q] = 0
  BY <1>1, <1>3, <1>5, <1>6
<1>10. Guided(more, h, n + 1)
  <2>1. h.active = IF page.evidence[more[n + 1].opens] # <<>> THEN more[n + 1].opens ELSE Untold
    BY <1>1, <1>4, <1>5 DEF turned
  <2>2. ASSUME Follows(more, n + 1) PROVE h.cursor[r] = 0
    <3>1. \A c \in Blocks(more) \ {n + 1} : more[c] # x
      BY <1>1, <2>2 DEF Follows
    <3>2. ASSUME NEW i \in 1 .. n, tokens[i] = x PROVE FALSE
      <4>1. i \in Blocks(tokens)
        BY <3>2 DEF Blocks, n
      <4> QED
        BY <1>1, <3>1, <3>2, <4>1
    <3> QED
      BY <1>3, <1>5, <3>2
  <2>3. Len(more) - (n + 1) = 0 /\ ~(n + 1 < Len(more))
    BY <1>1
  <2> QED
    BY <1>1, <1>5, <2>1, <2>2, <2>3 DEF Guided
<1>11. \A b : LastBlock(more, b) => Guided(more, h, b)
  BY <1>1, <1>10
<1> QED
  BY <1>1, <1>5, <1>7, <1>8, <1>9, <1>11 DEF Guides, more, h, n

(* A word of the file that stands behind the cursor is found there. *)
LEMMA NextIsFound ==
  ASSUME page \in DecodingScenarios, NEW g, GuideShape(g), g.active \in DOMAIN page.evidence,
         NEW w, NEW at, NEW k \in Nat, g.cursor[g.active] = k,
         k + 1 \in DOMAIN page.evidence[g.active], page.evidence[g.active][k + 1] = w
  PROVE  /\ Consume(g, w, at).cursor[g.active] = k + 1
         /\ Consume(g, w, at).supported = at
<1> DEFINE matches == {j \in Frontier(g) : page.evidence[g.active][j] = w}
           told == page.evidence[g.active]
<1>1. told \in Seq(page.words) /\ DOMAIN told \subseteq Nat
  <2>1. told \in Seq(page.words)
    BY DecodingAssumption
  <2> HIDE DEF told
  <2> QED
    BY <2>1
<1>2. SourceReach \in Nat \ {0}
  BY DecodingAssumption
<1>3. matches = {j \in DOMAIN told : k < j /\ j <= k + SourceReach /\ told[j] = w}
  BY DEF Frontier
<1> HIDE DEF matches, told
<1>4. matches \in SUBSET Nat /\ k + 1 \in matches /\ \A j \in matches : k + 1 <= j
  <2>1. k + 1 \in DOMAIN told /\ told[k + 1] = w
    BY DEF told
  <2> QED
    BY <1>1, <1>2, <1>3, <2>1
<1>5. Min(matches) \in matches /\ Min(matches) <= k + 1
  BY <1>4, Least
<1>6. Min(matches) = k + 1
  <2>1. PICK m : m = Min(matches)
    OBVIOUS
  <2>2. m \in Nat /\ k + 1 <= m /\ m <= k + 1
    BY <1>4, <1>5, <2>1
  <2> QED
    BY <2>1, <2>2
<1>7. Consume(g, w, at) = [[g EXCEPT !.emitted = @ + 1] EXCEPT !.cursor[g.active] = Min(matches), !.supported = at]
  BY <1>4 DEF Consume, matches
<1> QED
  BY <1>6, <1>7 DEF GuideShape

(* A word moves no cursor but that of the region being read.                 *)
LEMMA ConsumeKeeps ==
  ASSUME NEW g, GuideShape(g), g.active \in DOMAIN page.evidence, page \in DecodingScenarios, NEW w, NEW at
  PROVE  /\ GuideShape(Consume(g, w, at))
         /\ Consume(g, w, at).active = g.active /\ Consume(g, w, at).seen = g.seen
         /\ \A q \in DOMAIN page.evidence \ {g.active} : Consume(g, w, at).cursor[q] = g.cursor[q]
<1> DEFINE matches == {j \in Frontier(g) : page.evidence[g.active][j] = w}
           least == Min(matches)
           more == g.emitted + 1
<1>1. matches # {} => least \in Nat
  <2>1. page.evidence[g.active] \in Seq(page.words)
    BY DecodingAssumption
  <2>2. matches \in SUBSET Nat
    <3>1. matches \subseteq DOMAIN page.evidence[g.active]
      BY DEF Frontier
    <3> QED
      BY <2>1, <3>1
  <2> HIDE DEF matches
  <2> QED
    BY <2>2, Least
<1>2. Consume(g, w, at) = IF matches = {} THEN [g EXCEPT !.emitted = more]
                          ELSE [g EXCEPT !.emitted = more, !.cursor[g.active] = least, !.supported = at]
  BY DEF Consume
<1> HIDE DEF matches, least, more
<1>3. CASE matches = {}
  BY <1>2, <1>3 DEF GuideShape
<1>4. CASE matches # {}
  <2>1. Consume(g, w, at) = [g EXCEPT !.emitted = more, !.cursor[g.active] = least, !.supported = at]
    BY <1>2, <1>4
  <2>2. [g.cursor EXCEPT ![g.active] = least] \in [DOMAIN page.evidence -> Nat]
    BY <1>1, <1>4 DEF GuideShape
  <2>3. PICK h : h = Consume(g, w, at)
    OBVIOUS
  <2>4. /\ h.page = g.page /\ h.active = g.active /\ h.seen = g.seen
        /\ h.cursor = [g.cursor EXCEPT ![g.active] = least]
        /\ h = [page |-> h.page, active |-> h.active, seen |-> h.seen, emitted |-> h.emitted,
                cursor |-> h.cursor, supported |-> h.supported]
    BY <2>1, <2>3 DEF GuideShape
  <2>5. GuideShape(h)
    BY <2>2, <2>4 DEF GuideShape
  <2>6. \A q \in DOMAIN page.evidence \ {g.active} : h.cursor[q] = g.cursor[q]
    BY <2>4 DEF GuideShape
  <2> QED
    BY <2>3, <2>4, <2>5, <2>6
<1> QED
  BY <1>3, <1>4

(* A word: the cursor moves in the region being read only. *)
LEMMA GuideReads ==
  ASSUME page \in DecodingScenarios, Single, NEW tokens \in Seq(Vocabulary), NEW g, Guides(tokens, g),
         NEW x \in Vocabulary, NEW w, x = Said(w), x.says = w,
         ~Opens(x), Says(x), x # End, x # PageMark
  PROVE  Guides(Append(tokens, x), Feed(g, x, Len(tokens) + 1))
<1> DEFINE more == Append(tokens, x)
           n == Len(tokens)
           h == Feed(g, x, n + 1)
<1>1. /\ n \in Nat /\ Len(more) = n + 1 /\ more[n + 1] = x
      /\ \A i \in 1 .. n : more[i] = tokens[i]
      /\ Blocks(tokens) \subseteq 1 .. n
      /\ \A b : LastBlock(more, b) => LastBlock(tokens, b)
  BY BlocksGrow
<1>2. h = g \/ (g.active # Untold /\ h = Consume(g, w, n + 1))
  <2>1. g.active = Untold => h = g
    BY OthersPassBy
  <2>2. h = g \/ h = Consume(g, w, n + 1)
    BY DEF Feed
  <2> QED
    BY <2>1, <2>2
<1>3. g.seen = TRUE /\ g.active # Untold => h = Consume(g, w, n + 1)
  <2>1. ASSUME g.seen = TRUE, g.active # Untold
        PROVE  Feed(g, x, n + 1) = Consume(g, x.says, n + 1)
    BY <2>1, WordsAreRead
  <2> QED
    BY <2>1
<1>4. /\ GuideShape(g)
      /\ \A i \in 1 .. n : tokens[i] # End
      /\ g.active # Untold => /\ g.active \in DOMAIN page.evidence
                              /\ \E i \in 1 .. n : tokens[i] = Opening(g.active)
      /\ \A q \in DOMAIN page.evidence :
           (\A i \in 1 .. n : tokens[i] # Opening(q)) => g.cursor[q] = 0
      /\ \A b : LastBlock(tokens, b) => Guided(tokens, g, b)
  BY DEF Guides
<1>5. ASSUME NEW b, LastBlock(tokens, b), Follows(more, b)
      PROVE  /\ Follows(tokens, b)
             /\ (n + 1) - b \in DOMAIN page.evidence[tokens[b].opens]
             /\ x = Said(page.evidence[tokens[b].opens][(n + 1) - b])
  BY <1>5, FollowsBack
<1> HIDE DEF more, n, h
<1>6. /\ GuideShape(h) /\ h.active = g.active /\ h.seen = g.seen
      /\ \A q \in DOMAIN page.evidence \ {g.active} : h.cursor[q] = g.cursor[q]
  BY <1>2, <1>4, ConsumeKeeps
<1>7. \A i \in 1 .. n : i \in 1 .. (n + 1)
  BY <1>1
<1>8. \A i \in 1 .. (n + 1) : more[i] # End
  <2> TAKE i \in 1 .. (n + 1)
  <2>1. i \in 1 .. n \/ i = n + 1
    BY <1>1
  <2> QED
    BY <2>1, <1>1, <1>4
<1>9. h.active # Untold => /\ h.active \in DOMAIN page.evidence
                           /\ \E i \in 1 .. (n + 1) : more[i] = Opening(h.active)
  BY <1>1, <1>4, <1>6, <1>7
<1>10. ASSUME NEW q \in DOMAIN page.evidence, \A i \in 1 .. (n + 1) : more[i] # Opening(q)
       PROVE  h.cursor[q] = 0
  <2>1. \A i \in 1 .. n : tokens[i] # Opening(q)
    BY <1>1, <1>7, <1>10
  <2>2. g.cursor[q] = 0
    BY <1>4, <2>1
  <2>3. CASE q # g.active
    BY <1>6, <2>2, <2>3
  <2>4. CASE q = g.active
    <3>1. g.active = Untold
      BY <1>4, <2>1, <2>4
    <3> QED
      BY <1>2, <2>2, <3>1
  <2> QED
    BY <2>3, <2>4
<1>11. ASSUME NEW b, LastBlock(more, b) PROVE Guided(more, h, b)
  <2> DEFINE r == tokens[b].opens
             told == page.evidence[r]
  <2>1. LastBlock(tokens, b) /\ b \in 1 .. n /\ more[b] = tokens[b] /\ n \in Nat
    BY <1>1, <1>11 DEF LastBlock
  <2>2. Guided(tokens, g, b)
    BY <1>4, <2>1
  <2>3. h.seen = TRUE /\ h.active = IF page.evidence[more[b].opens] # <<>> THEN more[b].opens ELSE Untold
    BY <1>6, <2>1, <2>2 DEF Guided
  <2>4. ASSUME Follows(more, b) PROVE h.cursor[r] = (n + 1) - b /\ h.supported = n + 1
    <3>1. Follows(tokens, b) /\ (n + 1) - b \in DOMAIN told /\ x = Said(told[(n + 1) - b])
      BY <1>5, <2>1, <2>4
    <3>2. told # <<>>
      <4>1. DOMAIN <<>> = {}
        OBVIOUS
      <4> QED
        BY <3>1, <4>1
    <3>3. g.active = r /\ g.seen = TRUE /\ g.cursor[r] = n - b
      BY <2>2, <3>1, <3>2 DEF Guided, n
    <3>4. r \in DOMAIN page.evidence /\ g.active # Untold
      <4>1. PICK i \in DOMAIN told : TRUE
        BY <3>1
      <4>2. tokens[b] \in Vocabulary /\ Opens(tokens[b])
        BY <2>1 DEF LastBlock, Blocks, n
      <4>3. r \in DOMAIN page.evidence /\ r # Untold
        BY <4>2, Kinds
      <4> QED
        BY <3>3, <4>3
    <3>5. h = Consume(g, w, n + 1)
      BY <1>3, <3>3, <3>4
    <3>6. told[(n + 1) - b] = w
      <4>1. Said(told[(n + 1) - b]).says = told[(n + 1) - b]
        BY DEF Said
      <4> QED
        BY <3>1, <4>1
    <3> DEFINE k == n - b
    <3>7. k \in Nat /\ k + 1 = (n + 1) - b
      BY <2>1
    <3> HIDE DEF k
    <3>8. g.cursor[g.active] = k /\ k + 1 \in DOMAIN page.evidence[g.active]
          /\ page.evidence[g.active][k + 1] = w /\ g.active \in DOMAIN page.evidence
      BY <3>1, <3>3, <3>4, <3>6, <3>7 DEF k
    <3>9. Consume(g, w, n + 1).cursor[g.active] = k + 1 /\ Consume(g, w, n + 1).supported = n + 1
      BY <1>4, <3>7, <3>8, NextIsFound
    <3> QED
      BY <3>3, <3>5, <3>7, <3>9
  <2> QED
    BY <1>1, <2>1, <2>3, <2>4 DEF Guided
<1> QED
  BY <1>1, <1>6, <1>8, <1>9, <1>10, <1>11 DEF Guides, more, h, n
-----------------------------------------------------------------------------
(* A decode of one page.                                                     *)

(* What is said of a guide depends on the page only.                         *)
LEMMA GuidesStay ==
  ASSUME page' = page
  PROVE  /\ \A t, g : (Guides(t, g))' <=> Guides(t, g)
         /\ \A s : (Uncut(s))' <=> Uncut(s)
         /\ Single' <=> Single
<1>1. \A t, b : (Follows(t, b))' <=> Follows(t, b)
  BY DEF Follows
<1>2. \A t, g, b : (Guided(t, g, b))' <=> Guided(t, g, b)
  BY <1>1 DEF Guided
<1>3. \A g : (GuideShape(g))' <=> GuideShape(g)
  BY DEF GuideShape
<1>4. \A t, g : (Guides(t, g))' <=> Guides(t, g)
  BY <1>2, <1>3 DEF Guides
<1>5. \A s : (Uncut(s))' <=> Uncut(s)
  BY <1>1 DEF Uncut
<1> QED
  BY <1>4, <1>5 DEF Single

(* A decode without a loop is not cut for one; none goes on past its end.    *)
LEMMA Finishing ==
  ASSUME NEW s, NEW l
  PROVE  /\ l = Untold => Finish(s, l) # "repetition_guard"
         /\ Last(s.tokens) = End => Finish(s, l) # Untold
<1> DEFINE ungrounded == Single /\ ~s.steered /\ Len(s.tokens) >= StartupGuard /\ BodyRegions(s.tokens) = {}
           looped == l # Untold /\ Len(s.tokens) - l >= LoopSustained
           full == Len(s.tokens) = page.budget
           ended == Last(s.tokens) = End
<1>1. Finish(s, l) = IF ungrounded THEN "ungrounded_guard"
                     ELSE IF looped THEN "repetition_guard"
                     ELSE IF ended THEN "stop"
                     ELSE IF full THEN "length" ELSE Untold
  BY DEF Finish
<1>2. /\ Untold # "ungrounded_guard" /\ Untold # "repetition_guard" /\ Untold # "stop" /\ Untold # "length"
  BY DecodingAssumption DEF Finishes
<1>3. l = Untold => ~looped
  OBVIOUS
<1> HIDE DEF ungrounded, looped, full, ended
<1>4. l = Untold => Finish(s, l) # "repetition_guard"
  BY <1>1, <1>2, <1>3
<1>5. ended => Finish(s, l) # Untold
  BY <1>1, <1>2
<1> QED
  BY <1>4, <1>5 DEF ended

(* Any token but the end leaves the guide where the text is.                 *)
LEMMA GuidesGrow ==
  ASSUME page \in DecodingScenarios, Single, NEW tokens \in Seq(Vocabulary), NEW g, Guides(tokens, g),
         NEW x \in Vocabulary, x # End
  PROVE  Guides(Append(tokens, x), Feed(g, x, Len(tokens) + 1))
<1>1. CASE \E r \in DOMAIN page.evidence : x = Opening(r)
  <2>1. PICK r \in DOMAIN page.evidence : x = Opening(r)
    BY <1>1
  <2>2. Opens(x) /\ ~Says(x) /\ x.opens = r
    <3>1. r # 0 /\ r # -1
      BY DecodingAssumption
    <3>2. x.opens = r /\ x # End /\ x # PageMark /\ DOMAIN x = {"opens"}
      BY <2>1, <3>1 DEF Opening, End, PageMark
    <3> QED
      BY <3>2 DEF Opens, Says
  <2> QED
    BY <2>1, <2>2, GuideTurns
<1>2. CASE \E w : /\ x = Said(w) /\ ~Opens(x) /\ Says(x) /\ x.says = w /\ x # PageMark
  BY <1>2, GuideReads
<1> QED
  BY <1>1, <1>2, Kinds

(* A word of the file has just been read, so no loop is seen. *)
LEMMA SupportedIsNoLoop ==
  ASSUME NEW s, RecentSourceProgress(s.guide, Len(s.tokens))
  PROVE  Finish(s, LoopSince(s)) # "repetition_guard"
<1>1. LoopSince(s) = Untold
  BY DEF LoopSince
<1> QED
  BY <1>1, Finishing

(* One more token: the guide stays with the text; a faithful block is whole. *)
LEMMA TakeGuided ==
  ASSUME page \in DecodingScenarios, Single, NEW s, StreamOK(s), s.finish = Untold,
         Guides(s.tokens, s.guide), NEW x \in Vocabulary
  PROVE  /\ Take(s, x).finish = Untold => Guides(Take(s, x).tokens, Take(s, x).guide)
         /\ Uncut(Take(s, x))
<1> DEFINE tokens == s.tokens
           g == s.guide
           more == Append(tokens, x)
           n == Len(tokens)
           h == Feed(g, x, n + 1)
           next == [s EXCEPT !.tokens = more, !.guide = h]
           since == LoopSince(next)
           finish == Finish(next, since)
           t == Take(s, x)
<1>1. tokens \in Seq(Vocabulary) /\ Guides(tokens, g)
  BY DEF StreamOK
<1>2. /\ n \in Nat /\ Len(more) = n + 1 /\ more[n + 1] = x /\ more \in Seq(Vocabulary)
      /\ \A i \in 1 .. n : more[i] = tokens[i]
      /\ Blocks(tokens) \subseteq 1 .. n
      /\ ~Opens(x) => \A b : LastBlock(more, b) <=> LastBlock(tokens, b)
  <2> HIDE DEF tokens
  <2> QED
    BY <1>1, BlocksGrow
<1>3. t.tokens = more /\ t.guide = h /\ t.finish = finish /\ next.tokens = more /\ next.guide = h
  <2>1. t = [next EXCEPT !.loopSince = since, !.finish = finish]
    BY DEF Take
  <2>2. StreamShape(next) /\ next.tokens = more /\ next.guide = h
    <3>1. PICK y : y = s
      OBVIOUS
    <3> HIDE DEF more, h
    <3> QED
      BY DEF StreamOK, StreamShape
  <2> HIDE DEF next, since, finish, t
  <2> QED
    BY <2>1, <2>2 DEF StreamShape
<1>4. x # End => Guides(more, h)
  <2> HIDE DEF tokens, g
  <2> QED
    BY <1>1, GuidesGrow
<1>5. \A i \in 1 .. n : tokens[i] # End
  BY <1>1 DEF Guides
<1>6. ASSUME NEW b, LastBlock(tokens, b), Follows(tokens, b), b < n PROVE g.supported = n
  BY <1>1, <1>6 DEF Guides, Guided
<1>7. ASSUME NEW b, LastBlock(more, b), Follows(more, b), b < n + 1, Guides(more, h)
      PROVE  h.supported = n + 1
  <2> HIDE DEF more, h
  <2> QED
    BY <1>2, <1>7 DEF Guides, Guided
<1>8. x = End => h = g /\ ~Opens(x)
  <2>1. ASSUME x = End PROVE ~Opens(x) /\ x # PageMark /\ ~Says(x)
    BY <2>1, Kinds
  <2> QED
    BY <2>1, OthersPassBy
<1>9. ASSUME NEW b, LastBlock(more, b), Follows(more, b), x = End
      PROVE  LastBlock(tokens, b) /\ Follows(tokens, b)
  <2>1. ~Opens(x) /\ LastBlock(tokens, b)
    BY <1>2, <1>8, <1>9
  <2> HIDE DEF tokens
  <2> QED
    BY <1>1, <1>9, <2>1, FollowsBack
<1>10. RecentProgress \in Nat /\ RecentProgress >= 1
  BY DecodingAssumption
<1>11. x = End => Last(more) = End
  BY <1>2 DEF Last
<1>12. finish = Untold => x # End
  <2> HIDE DEF next, since, more
  <2> QED
    BY <1>3, <1>11, Finishing
<1> HIDE DEF tokens, g, more, n, h, next, since, t
<1>13. ASSUME NEW b, LastBlock(more, b), Follows(more, b), b < n + 1, more[b + 1] # End
       PROVE  finish # "repetition_guard"
  <2>1. b \in 1 .. (n + 1)
    <3>1. b \in DOMAIN more /\ DOMAIN more = 1 .. (n + 1)
      BY <1>2, <1>13 DEF LastBlock, Blocks
    <3> QED
      BY <3>1
  <2>2. CASE x # End
    <3>1. h.supported = n + 1
      BY <1>4, <1>7, <1>13, <2>2
    <3>2. (n + 1) - h.supported <= RecentProgress
      BY <1>2, <1>10, <3>1
    <3> QED
      BY <1>2, <1>3, <3>2, SupportedIsNoLoop DEF RecentSourceProgress, since
  <2>3. CASE x = End
    <3>1. b # n /\ b < n
      BY <1>2, <1>13, <2>1, <2>3
    <3>2. h.supported = n
      BY <1>6, <1>8, <1>9, <1>13, <2>3, <3>1 DEF n
    <3>3. (n + 1) - h.supported <= RecentProgress
      BY <1>2, <1>10, <3>2
    <3> QED
      BY <1>2, <1>3, <3>3, SupportedIsNoLoop DEF RecentSourceProgress, since
  <2> QED
    BY <2>2, <2>3
<1>14. Uncut(t)
  <2>1. \A i \in 1 .. (Len(t.tokens) - 1) : t.tokens[i] # End
    <3> TAKE i \in 1 .. (Len(t.tokens) - 1)
    <3>1. i \in 1 .. n
      BY <1>2, <1>3
    <3> QED
      BY <3>1, <1>2, <1>3, <1>5
  <2> QED
    BY <2>1, <1>2, <1>3, <1>13 DEF Uncut
<1> QED
  BY <1>3, <1>4, <1>12, <1>14 DEF t

(* A decode from the beginning has a fresh guide, whatever it replays.       *)
LEMMA FreshGuided ==
  ASSUME page \in DecodingScenarios, NEW steered, NEW prefix, NEW banned
  PROVE  LET s == FreshStream(steered, prefix, banned)
         IN  Guides(s.tokens, s.guide) /\ Uncut(s)
<1> DEFINE s == FreshStream(steered, prefix, banned)
<1>1. s.tokens = <<>> /\ s.guide = FreshGuide
  BY DEF FreshStream
<1> HIDE DEF s
<1>2. Len(s.tokens) = 0 /\ Blocks(s.tokens) = {}
  BY <1>1 DEF Blocks
<1>3. Uncut(s)
  BY <1>2 DEF Uncut, LastBlock
<1> QED
  BY <1>1, <1>3, GuideBegins DEF s

(* Every other step of a call begins a decode.                               *)
LEMMA Restarts ==
  FinishFirst \/ FinishRetry \/ Stuck =>
     page' = page /\ \E steered, prefix, banned : stream' = FreshStream(steered, prefix, banned)
<1>1. \A read : Return(read) =>
        page' = page /\ \E steered, prefix, banned : stream' = FreshStream(steered, prefix, banned)
  BY DEF Return
<1>2. \A read : StartRescue(read) =>
        page' = page /\ \E steered, prefix, banned : stream' = FreshStream(steered, prefix, banned)
  BY DEF StartRescue
<1>3. \A read, fork : StartRetries(read, fork) =>
        page' = page /\ \E steered, prefix, banned : stream' = FreshStream(steered, prefix, banned)
  BY DEF StartRetries
<1>4. FinishFirst => (\E read : Return(read) \/ StartRescue(read) \/ StartRetries(read, Fork(read.tokens)))
  BY DEF FinishFirst
<1>5. FinishFirst =>
        page' = page /\ \E steered, prefix, banned : stream' = FreshStream(steered, prefix, banned)
  BY <1>1, <1>2, <1>3, <1>4
<1>6. FinishRetry =>
        page' = page /\ \E steered, prefix, banned : stream' = FreshStream(steered, prefix, banned)
  BY DEF FinishRetry
<1>7. Stuck =>
        page' = page /\ \E steered, prefix, banned : stream' = FreshStream(steered, prefix, banned)
  BY DEF Stuck
<1> QED
  BY <1>5, <1>6, <1>7

(* Where the text of a block is that of the file, the guide has followed it. *)
THEOREM GuidedInvariant ==
  DecodingSpec => []GuidedInv
<1>1. DecodingInit => GuidedInv
  BY FreshGuided DEF DecodingInit, GuidedInv
<1>2. DecodingInv /\ GuidedInv /\ [DecodingNext]_decodingVars => GuidedInv'
  <2> SUFFICES ASSUME DecodingInv, GuidedInv, [DecodingNext]_decodingVars PROVE GuidedInv'
    OBVIOUS
  <2>0. page \in DecodingScenarios /\ StreamOK(stream)
    BY DEF DecodingInv
  <2>1. CASE Emit
    <3>1. PICK x \in Vocabulary : stream' = Take(stream, x)
      BY <2>1 DEF Emit
    <3>2. page' = page /\ stream.finish = Untold
      BY <2>1 DEF Emit, Decoding
    <3>3. Single => /\ stream'.finish = Untold => Guides(stream'.tokens, stream'.guide)
                    /\ Uncut(stream')
      <4> SUFFICES ASSUME Single
                   PROVE  /\ stream'.finish = Untold => Guides(stream'.tokens, stream'.guide)
                          /\ Uncut(stream')
        OBVIOUS
      <4>1. Guides(stream.tokens, stream.guide)
        BY <3>2 DEF GuidedInv
      <4> QED
        BY <2>0, <3>1, <3>2, <4>1, TakeGuided
    <3> QED
      BY <3>2, <3>3, GuidesStay DEF GuidedInv
  <2>2. CASE FinishFirst \/ FinishRetry \/ Stuck
    <3>1. page' = page
      BY <2>2, Restarts
    <3>2. PICK steered, prefix, banned : stream' = FreshStream(steered, prefix, banned)
      BY <2>2, Restarts
    <3>3. Guides(stream'.tokens, stream'.guide) /\ Uncut(stream')
      BY <2>0, <3>2, FreshGuided
    <3> QED
      BY <3>1, <3>3, GuidesStay DEF GuidedInv
  <2>3. CASE UNCHANGED decodingVars
    <3>1. page' = page /\ stream' = stream
      BY <2>3 DEF decodingVars
    <3> QED
      BY <3>1, GuidesStay DEF GuidedInv
  <2> QED
    BY <2>1, <2>2, <2>3 DEF DecodingNext
<1> QED
  BY <1>1, <1>2, DecodingInvariant, PTL DEF DecodingSpec

(* A bounded set of naturals has a greatest member.                          *)
LEMMA Greatest ==
  ASSUME NEW n \in Nat, NEW S \in SUBSET (1 .. n), S # {}
  PROVE  Max(S) \in S /\ \A m \in S : m <= Max(S)
<1> DEFINE T == {n - m : m \in S}
<1>1. T \in SUBSET Nat /\ T # {}
  BY DEF T
<1>2. Min(T) \in T /\ \A k \in T : Min(T) <= k
  BY <1>1, Least
<1>3. PICK m \in S : Min(T) = n - m
  BY <1>2
<1>4. \A k \in S : k <= m
  <2> TAKE k \in S
  <2>1. n - m <= n - k
    BY <1>2, <1>3
  <2> QED
    BY <2>1
<1>5. \E a \in S : \A b \in S : a >= b
  BY <1>4
<1> QED
  BY <1>5 DEF Max

(* A block whose text is that of the file is not cut off for repeating itself *)
(* (decoding.py recent_source_progress, asked before a loop is looked for).   *)
THEOREM FaithfulReadsGoOn ==
  DecodingSpec => []FaithfulReadsAreNotCut
<1>1. DecodingInv /\ GuidedInv => FaithfulReadsAreNotCut
  <2> DEFINE tokens == stream.tokens
             current == Max(Blocks(tokens))
             told == page.evidence[tokens[current].opens]
             text == {i \in current + 1 .. Len(tokens) : tokens[i] # End}
  <2> SUFFICES ASSUME DecodingInv, GuidedInv,
                      stream.finish = "repetition_guard", Single, Blocks(tokens) # {},
                      \A b \in Blocks(tokens) \ {current} : tokens[b] # tokens[current],
                      text # {},
                      \A i \in text : i - current \in DOMAIN told /\ tokens[i] = Said(told[i - current])
               PROVE  FALSE
    BY DEF FaithfulReadsAreNotCut
  <2>1. tokens \in Seq(Vocabulary) /\ Len(tokens) \in Nat
    BY DEF DecodingInv, StreamOK
  <2> HIDE DEF tokens
  <2>2. Blocks(tokens) \subseteq 1 .. Len(tokens)
    BY <2>1, BlocksFinite
  <2>3. LastBlock(tokens, current) /\ current \in 1 .. Len(tokens)
    BY <2>1, <2>2, Greatest DEF LastBlock
  <2>4. Uncut(stream)
    BY DEF GuidedInv
  <2> HIDE DEF current
  <2>5. Follows(tokens, current)
    BY DEF Follows
  <2>6. PICK i \in current + 1 .. Len(tokens) : tokens[i] # End
    OBVIOUS
  <2>7. current < Len(tokens) /\ (current + 1 = i \/ current + 1 \in 1 .. (Len(tokens) - 1))
    BY <2>1, <2>3, <2>6
  <2>8. tokens[current + 1] # End
    BY <2>4, <2>6, <2>7 DEF Uncut, tokens
  <2> QED
    BY <2>3, <2>4, <2>5, <2>7, <2>8 DEF Uncut, tokens
<1> QED
  BY <1>1, DecodingInvariant, GuidedInvariant, PTL
=============================================================================
