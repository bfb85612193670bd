----------------------------- MODULE EditHistory -----------------------------
(***************************************************************************)
(* What mdstore promises the clients of its write path, with nothing of    *)
(* how: one branch on which every edit appears in a single atomic step,    *)
(* applied to the commit it extends, at most once while its effect lasts,  *)
(* and answers that name commits holding the effect of the request.  No    *)
(* locks, receipts, snapshots, crashes or failures.  MdStore implements it.*)
(***************************************************************************)
EXTENDS Documents

CONSTANTS Requests, External, Valid(_), InitialTree, Servers, InitialServer

VARIABLES commits, head, acks

vars == <<commits, head, acks>>

CommitIds == DOMAIN commits
TreeOf(c) == commits[c].tree

Ancestors(c) == AncestorsIn(commits, c)

Init ==
  /\ commits = << [tree |-> InitialTree, server |-> InitialServer,
                   parent |-> 0, by |-> External] >>
  /\ head = 1
  /\ acks = {}

Newest == commits'[Len(commits')]

Extend(tree, server, author) ==
  /\ commits' = Append(commits, [tree |-> tree, server |-> server,
                                 parent |-> head, by |-> author])
  /\ head' = Len(commits')

(* A page c changed had its earlier text again in a later commit. *)
Undone(c) ==
  LET before == TreeOf(commits[c].parent)
  IN  \A p \in Paths : TreeOf(c)[p] # before[p] =>
        \E e \in CommitIds : e > c /\ TreeOf(e)[p] = before[p]

Apply(r) ==
  /\ Admitted(r, TreeOf(head))
  /\ Valid(Result(r, TreeOf(head)))
  /\ Result(r, TreeOf(head)) # TreeOf(head)
  /\ \A c \in Ancestors(head) : commits[c].by = r => Undone(c)
  /\ Extend(Result(r, TreeOf(head)), commits[head].server, r)
  /\ UNCHANGED acks

HoldsEffect(c, r) ==
  \E base \in Ancestors(c) :
    /\ Admitted(r, TreeOf(base))
    /\ \A p \in Touched(r, TreeOf(base)) :
         TreeOf(c)[p] = Result(r, TreeOf(base))[p]

Answer(r) ==
  /\ \E c \in CommitIds : /\ HoldsEffect(c, r)
                          /\ acks' = acks \cup {[req |-> r, commit |-> c]}
  /\ UNCHANGED <<commits, head>>

(* Others commit any tree, and reset the branch to any of its commits. *)
OthersCommit ==
  /\ Extend(Newest.tree, Newest.server, External)
  /\ Newest.tree \in Tree
  /\ Newest.server \in Servers
  /\ UNCHANGED acks

OthersReset ==
  /\ head' \in Ancestors(head)
  /\ UNCHANGED <<commits, acks>>

Next ==
  \/ \E r \in Requests : Apply(r) \/ Answer(r)
  \/ OthersCommit
  \/ OthersReset

Spec == Init /\ [][Next]_vars
==============================================================================
