----------------------------- MODULE Replication -----------------------------
(***************************************************************************)
(* Replication of the live branch to a remote (mdstore/src/store.rs,       *)
(* synchronize and its callees; git.rs, fetch_candidate, push_snapshot,    *)
(* activate_candidate).  A round takes the repository lock twice, to       *)
(* refresh and to decide, and does its network work outside of the lock;   *)
(* edits, an operator of the repository, other writers of the remote,      *)
(* network failures and crashes fall between its steps.  A remote commit   *)
(* that changes the server section is staged in restart.json and activated *)
(* by the next start.                                                      *)
(*                                                                         *)
(* A branch is its history: a sequence of commits, of which the last one   *)
(* holds the configuration that applies.  Merge commits are left out: the  *)
(* code only asks whether one history is an ancestor of another.           *)
(***************************************************************************)
EXTENDS Integers, Sequences, SequencesExt

CONSTANTS Servers,        \* values of the server section of config.yaml
          InitialServer,
          LocalKinds,     \* configurations of an operator's local commits
          RemoteKinds,    \* configurations of other writers' remote commits
          MaxCommits,     \* bound: commits ever made
          MaxLocal,       \* bound: commits and resets of the operator
          MaxRemote,      \* bound: commits and rewrites by other writers
          MaxCrashes,     \* bound: daemon crashes
          MaxFaults       \* bound: failing or unanswered network and Git calls

(* The parts of a commit's tree that decide about it: whether the corpus   *)
(* and config.yaml are valid, its server section and its git.push switch.  *)
Kinds == [server : Servers, valid : BOOLEAN, push : BOOLEAN]

ASSUME ReplicationAssumption ==
  /\ InitialServer \in Servers
  /\ LocalKinds \subseteq Kinds
  /\ RemoteKinds \subseteq Kinds
  /\ MaxCommits \in Nat \ {0}

Commit == [id : 1 .. MaxCommits, kind : Kinds]

VARIABLES
  head,       \* the history of the live branch
  loaded,     \* the history of the snapshot in memory (StoreState.head)
  server,     \* the server section the process runs with
  up,         \* the daemon runs
  blocked,    \* mdstore/blocked: "no", "diverged" or "external"
  restart,    \* mdstore/restart.json: {} or {<<base, candidate>>}
  remote,     \* the history of the remote branch; <<>> when it does not exist
  ack,        \* refs/mdstore/replication/<identity>; <<>> when it is missing
  seen,       \* history: every value the remote branch has had
  sync,       \* what the running round has read, and the step it takes next
  budget      \* what is left of the bounds

vars == <<head, loaded, server, up, blocked, restart, remote, ack, seen, sync,
          budget>>
roundVars  == <<loaded, server, up, blocked, restart, ack, sync>>
remoteVars == <<remote, seen>>

Idle == [step |-> "idle", incoming |-> <<>>, local |-> <<>>]

Config(history) == history[Len(history)].kind

(* git merge-base --is-ancestor *)
IsAncestor(old, new) == IsPrefix(old, new)
StrictlyExtends(new, old) == IsAncestor(old, new) /\ new # old

Spend(what) == /\ budget[what] > 0
               /\ budget' = [budget EXCEPT ![what] = @ - 1]

Grown(history, kind) == Append(history, [id |-> budget.made + 1, kind |-> kind])
SpendCommit(what) ==
  /\ budget[what] > 0
  /\ budget.made < MaxCommits
  /\ budget' = [budget EXCEPT ![what] = @ - 1, !.made = @ + 1]

Plain(s) == [server |-> s, valid |-> TRUE, push |-> TRUE]

Init ==
  /\ head = << [id |-> 1, kind |-> Plain(InitialServer)] >>
  /\ loaded = head
  /\ server = InitialServer
  /\ up = TRUE
  /\ blocked = "no"
  /\ restart = {}
  /\ remote \in {<<>>, head}
  /\ ack = <<>>
  /\ seen = {remote}
  /\ sync = Idle
  /\ budget = [made |-> 1, own |-> MaxCommits, local |-> MaxLocal,
               remote |-> MaxRemote, crashes |-> MaxCrashes,
               faults |-> MaxFaults]

------------------------------------------------------------------------------
(* load_candidate: every candidate is validated; one that changes the      *)
(* server section loads only where a restart is allowed.                   *)
Loads(history) == Config(history).valid /\ Config(history).server = server

(* refresh_external_commit, under the lock.  It fails on a head that does  *)
(* not load, and blocks writes unless a divergence blocks them already.    *)
RefreshExternalCommit ==
  /\ IF head = loaded \/ Loads(head)
       THEN loaded' = head
       ELSE UNCHANGED loaded
  /\ blocked' = IF head = loaded THEN blocked
                ELSE IF Loads(head)
                THEN IF blocked = "external" THEN "no" ELSE blocked
                ELSE IF blocked = "diverged" THEN blocked ELSE "external"

Refreshed == head = loaded \/ Loads(head)

(* Any request handler that refreshes and does nothing else here: claims,  *)
(* health checks, and the job list maintain_jobs asks for every 5 seconds. *)
HandlerRefresh ==
  /\ up
  /\ head # loaded
  /\ RefreshExternalCommit
  /\ UNCHANGED <<head, server, up, restart, ack, sync, budget, remoteVars>>

(* apply_edits_locked, at its end: one more commit on the loaded head.     *)
(* MdStore models what comes before; config.yaml is not edited this way.   *)
Edit ==
  /\ up
  /\ head = loaded
  /\ blocked = "no"
  /\ SpendCommit("own")
  /\ head' = Grown(head, Config(head))
  /\ loaded' = head'
  /\ UNCHANGED <<server, up, blocked, restart, ack, sync, remoteVars>>

------------------------------------------------------------------------------
(* synchronize and the first locked part of synchronize_once.  With pushes *)
(* disabled in the loaded configuration the round does not even refresh.   *)
BeginRound ==
  /\ up
  /\ sync.step = "idle"
  /\ Config(loaded).push
  /\ RefreshExternalCommit
  /\ sync' = IF Refreshed /\ Config(head).push
               THEN [Idle EXCEPT !.step = "fetch"] ELSE Idle
  /\ UNCHANGED <<head, server, up, restart, ack, budget, remoteVars>>

(* fetch_candidate: ls-remote and fetch, without the lock. *)
Fetch ==
  /\ sync.step = "fetch"
  /\ sync' = [sync EXCEPT !.step = "decide", !.incoming = remote]
  /\ UNCHANGED <<head, loaded, server, up, blocked, restart, ack, budget,
                 remoteVars>>

(* The conditions under which the second locked part goes on. *)
StillLive == head = loaded /\ Config(loaded).push

(* Faulty variant: a candidate that was staged before counts as activated. *)
NeedsRestartOnce(history) == Config(history).server # server /\ restart = {}

NeedsRestart(history) == Config(history).server # server

(* Faulty variant: nothing but a restart ends a divergence. *)
NotCleared == blocked

Cleared == IF blocked = "diverged" THEN "no" ELSE blocked

GiveUp == sync' = Idle

(* The second locked part of synchronize_once, up to update-ref. *)
Decide ==
  /\ sync.step = "decide"
  /\ LET incoming == sync.incoming IN
     \/ /\ ~ StillLive
        /\ GiveUp
        /\ UNCHANGED <<ack, blocked, restart>>
     \/ /\ StillLive
        /\ IsAncestor(incoming, head)
        /\ ack' = IF incoming = <<>> THEN ack ELSE incoming
        /\ blocked' = Cleared
        /\ sync' = [sync EXCEPT !.step = "push", !.local = head]
        /\ UNCHANGED restart
     \/ /\ StillLive
        /\ StrictlyExtends(incoming, head)
        /\ ack' = incoming
        /\ IF ~ Config(incoming).valid
             THEN GiveUp /\ UNCHANGED restart
             ELSE IF NeedsRestart(incoming)
             THEN GiveUp /\ restart' = {<<head, incoming>>}
             ELSE /\ sync' = [sync EXCEPT !.step = "activate", !.local = head]
                  /\ UNCHANGED restart
        /\ UNCHANGED blocked
     \/ /\ StillLive
        /\ ~ IsAncestor(incoming, head)
        /\ ~ IsAncestor(head, incoming)
        /\ ack' = incoming
        /\ blocked' = "diverged"
        /\ GiveUp
        /\ UNCHANGED restart
  /\ UNCHANGED <<head, loaded, server, up, budget, remoteVars>>

(* activate_candidate: update-ref with the expected old value, which an    *)
(* operator may have changed; the lock keeps only the daemon out.          *)
Activate ==
  /\ sync.step = "activate"
  /\ IF head = sync.local
       THEN /\ head' = sync.incoming
            /\ loaded' = sync.incoming
            /\ blocked' = Cleared
            /\ sync' = [sync EXCEPT !.step = "push", !.local = sync.incoming]
       ELSE GiveUp /\ UNCHANGED <<head, loaded, blocked>>
  /\ UNCHANGED <<server, up, restart, ack, budget, remoteVars>>

(* activate_candidate fails after update-ref, in recover_worktree: the new *)
(* head is not loaded yet.                                                 *)
ActivateInterrupted ==
  /\ sync.step = "activate"
  /\ head = sync.local
  /\ Spend("faults")
  /\ head' = sync.incoming
  /\ GiveUp
  /\ UNCHANGED <<loaded, server, up, blocked, restart, ack, remoteVars>>

(* Faulty variant: acknowledges the branch after the push, not what was    *)
(* pushed.                                                                 *)
PushAndAcknowledgeHead ==
  /\ sync.step = "push"
  /\ IF IsAncestor(remote, sync.local)
       THEN /\ remote' = sync.local
            /\ seen' = seen \cup {sync.local}
            /\ ack' = head
       ELSE UNCHANGED <<remote, seen, ack>>
  /\ GiveUp
  /\ UNCHANGED <<head, loaded, server, up, blocked, restart, budget>>

(* push_snapshot: the remote takes fast-forwards only, then the pushed     *)
(* snapshot is acknowledged, whatever the live branch is by now.           *)
PushSnapshot ==
  /\ sync.step = "push"
  /\ IF IsAncestor(remote, sync.local)
       THEN /\ remote' = sync.local
            /\ seen' = seen \cup {sync.local}
            /\ ack' = sync.local
       ELSE UNCHANGED <<remote, seen, ack>>
  /\ GiveUp
  /\ UNCHANGED <<head, loaded, server, up, blocked, restart, budget>>

(* The remote takes the push and the answer is lost or late. *)
PushUnanswered ==
  /\ sync.step = "push"
  /\ IsAncestor(remote, sync.local)
  /\ Spend("faults")
  /\ remote' = sync.local
  /\ seen' = seen \cup {sync.local}
  /\ GiveUp
  /\ UNCHANGED <<head, loaded, server, up, blocked, restart, ack>>

(* A lookup, fetch or push fails or times out before it has an effect. *)
NetworkFails ==
  /\ sync.step \in {"fetch", "push"}
  /\ Spend("faults")
  /\ GiveUp
  /\ UNCHANGED <<head, loaded, server, up, blocked, restart, ack, remoteVars>>

------------------------------------------------------------------------------
(* A crash loses the round and the snapshot; the files under .git stay. *)
Crash ==
  /\ up
  /\ Spend("crashes")
  /\ up' = FALSE
  /\ GiveUp
  /\ UNCHANGED <<head, loaded, server, blocked, restart, ack, remoteVars>>

(* Faulty variant: the candidate applies wherever the branch is. *)
AnythingStaged == restart # {}

(* The staged candidate applies while the branch is where it was staged. *)
StagedApplies == \E staged \in restart : staged[1] = head

(* open_stable, when activate_staged_restart moves the branch: the attempt *)
(* starts again on the new head, or dies before restart.json is removed.   *)
StartActivate ==
  /\ ~ up
  /\ Config(head).valid
  /\ StagedApplies
  /\ \E staged \in restart :
       /\ IsAncestor(staged[1], staged[2])
       /\ Config(staged[2]).valid
       /\ head' = staged[2]
  /\ \/ restart' = {}
     \/ UNCHANGED restart
  /\ UNCHANGED <<loaded, server, up, blocked, ack, sync, budget, remoteVars>>

(* open_stable, otherwise: the staged candidate is dropped. *)
StartOpen ==
  /\ ~ up
  /\ Config(head).valid
  /\ ~ StagedApplies
  /\ up' = TRUE
  /\ loaded' = head
  /\ server' = Config(head).server
  /\ restart' = {}
  /\ UNCHANGED <<head, blocked, ack, sync, budget, remoteVars>>

------------------------------------------------------------------------------
(* The operator commits to the live branch, takes commits back, or resets  *)
(* it to what the remote has.                                              *)
OperatorCommit ==
  /\ SpendCommit("local")
  /\ \E kind \in LocalKinds : head' = Grown(head, kind)
  /\ UNCHANGED <<roundVars, remoteVars>>

OperatorReset ==
  /\ Spend("local")
  /\ \/ /\ Len(head) > 1
        /\ head' = Front(head)
     \/ /\ remote \notin {<<>>, head}
        /\ head' = remote
  /\ UNCHANGED <<roundVars, remoteVars>>

(* Other clones push to the remote, or rewrite or delete its branch. *)
RemoteCommit ==
  /\ remote # <<>>
  /\ SpendCommit("remote")
  /\ \E kind \in RemoteKinds : remote' = Grown(remote, kind)
  /\ seen' = seen \cup {remote'}
  /\ UNCHANGED <<head, roundVars>>

RemoteRewrite ==
  /\ remote # <<>>
  /\ Spend("remote")
  /\ remote' = Front(remote)
  /\ seen' = seen \cup {remote'}
  /\ UNCHANGED <<head, roundVars>>

RoundStep == Fetch \/ Decide \/ Activate \/ PushSnapshot
Start == StartActivate \/ StartOpen

Next ==
  \/ HandlerRefresh \/ Edit
  \/ BeginRound \/ Fetch \/ Decide \/ Activate \/ ActivateInterrupted
  \/ PushSnapshot \/ PushUnanswered \/ NetworkFails
  \/ Crash \/ StartActivate \/ StartOpen
  \/ OperatorCommit \/ OperatorReset \/ RemoteCommit \/ RemoteRewrite

Spec == Init /\ [][Next]_vars

(* The daemon's loop runs for ever (mcp.rs spawns it with the server), and *)
(* a supervisor starts the daemon again.                                   *)
Fairness == /\ WF_vars(BeginRound) /\ WF_vars(RoundStep)
            /\ WF_vars(HandlerRefresh) /\ WF_vars(Start)

FairSpec == Spec /\ Fairness

------------------------------------------------------------------------------
History == Seq(Commit)

(* Types; and a staged restart is always a fast-forward. *)
TypeOK ==
  /\ head \in History \ {<<>>}
  /\ loaded \in History \ {<<>>}
  /\ server \in Servers
  /\ up \in BOOLEAN
  /\ blocked \in {"no", "diverged", "external"}
  /\ \A staged \in restart : /\ staged[1] \in History
                             /\ staged[2] \in History
                             /\ IsStrictPrefix(staged[1], staged[2])
  /\ remote \in History
  /\ ack \in History
  /\ sync.step \in {"idle", "fetch", "decide", "activate", "push"}
  /\ sync.incoming \in History
  /\ sync.local \in History

(* The process never serves a snapshot whose configuration does not        *)
(* validate, nor one whose server section differs from the one it listens  *)
(* with, whichever way the commit reached the branch: an external commit,  *)
(* an activated candidate, a staged restart or a crash between the two.    *)
ServesItsConfiguration ==
  up => Config(loaded).valid /\ Config(loaded).server = server

(* status() counts the commits the acknowledged revision lacks as pending. *)
(* A commit it does not count was on the remote at some time: the edits,   *)
(* resets, rewrites and lost answers around a push never make it           *)
(* acknowledge a history that was not pushed or fetched.                   *)
NothingPendingWasReplicated ==
  ack = <<>> \/ \E history \in seen : IsPrefix(ack, history)

(* Whatever moves the live branch or the remote, except for the operator's *)
(* own resets and other writers' rewrites, only adds commits: a round      *)
(* activates and pushes fast-forwards alone, and a restart never drops     *)
(* what was committed after the candidate was staged.                      *)
NothingIsLost ==
  [][/\ OperatorReset \/ IsPrefix(head, head')
     /\ RemoteRewrite \/ IsPrefix(remote, remote')]_vars

(* Reasons for which a round can not finish, of the current data alone. *)
Unreplicable ==
  \/ ~ Config(head).valid
  \/ Config(head).server # server
  \/ ~ Config(head).push
  \/ /\ remote # <<>>
     /\ IsStrictPrefix(head, remote)
     /\ \/ ~ Config(remote).valid
        \/ Config(remote).server # server /\ restart = {<<head, remote>>}
  \/ /\ blocked = "diverged"
     /\ ~ IsPrefix(remote, head)
     /\ ~ IsPrefix(head, remote)

Replicated == remote = head /\ ack = head /\ blocked # "diverged"

(* Once the disturbances end, the remote holds the live branch, status()   *)
(* says so and no divergence blocks writes, unless the operator has to act *)
(* on what the two branches hold now: no block outlives the divergence it  *)
(* reports, no pushed commit stays pending.                                *)
Converges == <>[](Replicated \/ Unreplicable)
==============================================================================
