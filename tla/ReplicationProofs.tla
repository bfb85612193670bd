--------------------------- MODULE ReplicationProofs ---------------------------
(***************************************************************************)
(* Safety of replication for branches of any length, any number of commits *)
(* by anybody, crashes and faults, and any configurations.                 *)
(*                                                                         *)
(* A round decides about histories it read earlier, so the invariant says   *)
(* what is still true of them when it acts (RoundInv): the remote once had  *)
(* what was fetched, and a candidate that is activated extends the branch   *)
(* it was compared with and suits the process.  A staged candidate extends  *)
(* the branch it was staged on (StagedInv).                                 *)
(***************************************************************************)
EXTENDS Replication, SequenceTheorems, TLAPS

Steps == {"idle", "fetch", "decide", "activate", "push"}

BudgetInv == "made" \in DOMAIN budget /\ budget["made"] \in 1 .. MaxCommits

Shape ==
  /\ head \in Seq(Commit) \ {<<>>}
  /\ loaded \in Seq(Commit) \ {<<>>}
  /\ server \in Servers
  /\ up \in BOOLEAN
  /\ blocked \in {"no", "diverged", "external"}
  /\ remote \in Seq(Commit)
  /\ ack \in Seq(Commit)
  /\ sync \in [step : Steps, incoming : Seq(Commit), local : Seq(Commit)]
  /\ BudgetInv

StagedInv ==
  restart = {} \/ \E old, new \in Seq(Commit) : restart = {<<old, new>>} /\ IsStrictPrefix(old, new)

RoundInv ==
  /\ sync.step = "decide" => sync.incoming \in seen
  /\ sync.step = "activate" =>
       /\ IsPrefix(sync.local, sync.incoming)
       /\ sync.incoming # <<>>
       /\ Config(sync.incoming).valid
       /\ Config(sync.incoming).server = server
  /\ ~up => sync.step = "idle"

Inv ==
  /\ Shape /\ StagedInv /\ RoundInv
  /\ remote \in seen
  /\ ServesItsConfiguration
  /\ NothingPendingWasReplicated

-----------------------------------------------------------------------------
(* Histories. *)
LEMMA PrefixReflexive == ASSUME NEW s \in Seq(Commit) PROVE IsPrefix(s, s)
BY DEF IsPrefix

LEMMA GrownExtends ==
  ASSUME NEW s \in Seq(Commit), NEW c \in Commit
  PROVE  /\ Append(s, c) \in Seq(Commit) \ {<<>>}
         /\ IsPrefix(s, Append(s, c))
         /\ Config(Append(s, c)) = c.kind
<1>1. /\ Append(s, c) \in Seq(Commit)
      /\ Len(Append(s, c)) = Len(s) + 1
      /\ Len(s) \in Nat
      /\ \A i \in 1 .. Len(s) : Append(s, c)[i] = s[i]
      /\ Append(s, c)[Len(s) + 1] = c
  OBVIOUS
<1>2. SubSeq(s, 1, Len(s)) = SubSeq(Append(s, c), 1, Len(s))
  BY <1>1
<1>3. Append(s, c) # <<>>
  BY <1>1
<1> QED
  BY <1>1, <1>2, <1>3 DEF IsPrefix, Config

LEMMA ConfigTyped ==
  ASSUME NEW s \in Seq(Commit), s # <<>>
  PROVE  Config(s) \in Kinds
<1>1. Len(s) \in 1 .. Len(s)
  BY EmptySeq
<1>2. s[Len(s)] \in Commit
  BY <1>1
<1> QED
  BY <1>2 DEF Config, Commit

LEMMA FrontShorter ==
  ASSUME NEW s \in Seq(Commit), s # <<>>
  PROVE  /\ Front(s) \in Seq(Commit)
         /\ Len(s) > 1 => Front(s) # <<>>
<1>1. Len(s) \in Nat \ {0}
  BY EmptySeq
<1>2. \A i \in 1 .. (Len(s) - 1) : s[i] \in Commit
  BY <1>1, ElementOfSeq
<1> DEFINE f == SubSeq(s, 1, Len(s) - 1)
<1>3. f \in Seq(Commit) /\ (Len(s) > 1 => Len(f) = Len(s) - 1)
  BY <1>1, <1>2, SubSeqProperties
<1> HIDE DEF f
<1>4. Len(s) > 1 => Len(f) # 0
  BY <1>1, <1>3
<1>5. Len(f) # 0 => f # <<>>
  BY EmptySeq
<1> QED
  BY <1>3, <1>4, <1>5 DEF Front, f

LEMMA Budgets ==
  ASSUME BudgetInv,
         NEW what \in {"own", "local", "remote", "crashes", "faults"}
  PROVE  /\ Spend(what) => BudgetInv'
         /\ SpendCommit(what) =>
              BudgetInv' /\ \A kind \in Kinds : [id |-> budget.made + 1, kind |-> kind] \in Commit
<1>1. what # "made"
  OBVIOUS
<1>2. Spend(what) => BudgetInv'
  BY <1>1 DEF Spend, BudgetInv
<1>3. ASSUME SpendCommit(what)
      PROVE  BudgetInv' /\ \A kind \in Kinds : [id |-> budget.made + 1, kind |-> kind] \in Commit
  <2>1. budget["made"] \in 1 .. MaxCommits /\ budget["made"] < MaxCommits
    BY <1>3 DEF SpendCommit, BudgetInv
  <2>2. DOMAIN budget' = DOMAIN budget /\ budget'["made"] = budget["made"] + 1
    BY <1>1, <1>3 DEF SpendCommit, BudgetInv
  <2> QED
    BY <2>1, <2>2, ReplicationAssumption DEF BudgetInv, Commit
<1> QED
  BY <1>2, <1>3

LEMMA InitInv == Init => Inv
<1> SUFFICES ASSUME Init PROVE Inv
  OBVIOUS
<1>1. [id |-> 1, kind |-> Plain(InitialServer)] \in Commit
  BY ReplicationAssumption DEF Commit, Kinds, Plain
<1>2. head \in Seq(Commit) \ {<<>>} /\ Config(head) = Plain(InitialServer)
  BY <1>1 DEF Init, Config
<1>3. BudgetInv
  BY ReplicationAssumption DEF Init, BudgetInv
<1>4. Shape
  <2>1. sync \in [step : Steps, incoming : Seq(Commit), local : Seq(Commit)]
    BY DEF Init, Idle, Steps
  <2>2. remote \in Seq(Commit) /\ ack \in Seq(Commit)
    <3>1. remote \in {<<>>, head} /\ ack = <<>>
      BY DEF Init
    <3> QED
      BY <1>2, <3>1, EmptySeq
  <2> QED
    BY <1>2, <1>3, <2>1, <2>2, ReplicationAssumption DEF Init, Shape
<1>5. StagedInv /\ RoundInv /\ remote \in seen /\ NothingPendingWasReplicated
  BY DEF Init, Idle, StagedInv, RoundInv, NothingPendingWasReplicated
<1>6. ServesItsConfiguration
  BY <1>2 DEF Init, ServesItsConfiguration, Plain
<1> QED
  BY <1>4, <1>5, <1>6 DEF Inv

-----------------------------------------------------------------------------
(* What every step must do: keep the invariant, and only add to branches. *)
Extends ==
  /\ OperatorReset \/ IsPrefix(head, head')
  /\ RemoteRewrite \/ IsPrefix(remote, remote')

(* A branch that a step leaves alone is extended. *)
LEMMA SameExtends ==
  ASSUME Inv
  PROVE  /\ head' = head => IsPrefix(head, head')
         /\ remote' = remote => IsPrefix(remote, remote')
BY PrefixReflexive DEF Inv, Shape

LEMMA RefreshKeeps ==
  ASSUME Inv, up, RefreshExternalCommit
  PROVE  /\ loaded' \in Seq(Commit) \ {<<>>}
         /\ blocked' \in {"no", "diverged", "external"}
         /\ Config(loaded').valid
         /\ Config(loaded').server = server
<1>1. loaded' = loaded \/ (loaded' = head /\ Loads(head))
  BY DEF RefreshExternalCommit
<1>2. Config(loaded).valid /\ Config(loaded).server = server
  BY DEF Inv, ServesItsConfiguration
<1>3. blocked' \in {"no", "diverged", "external"}
  BY DEF RefreshExternalCommit, Inv, Shape
<1> QED
  BY <1>1, <1>2, <1>3 DEF Loads, Inv, Shape

LEMMA HandlerRefreshStep == ASSUME Inv, HandlerRefresh PROVE Inv' /\ Extends
<1>1. Shape' /\ ServesItsConfiguration'
  BY RefreshKeeps DEF HandlerRefresh, remoteVars, Inv, Shape, BudgetInv, ServesItsConfiguration
<1> QED
  BY <1>1, SameExtends
  DEF HandlerRefresh, remoteVars, Inv, StagedInv, RoundInv, NothingPendingWasReplicated, Extends

LEMMA EditStep == ASSUME Inv, Edit PROVE Inv' /\ Extends
<1> DEFINE commit == [id |-> budget.made + 1, kind |-> Config(head)]
<1>1. commit \in Commit /\ BudgetInv'
  BY Budgets, ConfigTyped DEF Edit, Inv, Shape
<1>2. /\ head' \in Seq(Commit) \ {<<>>} /\ loaded' = head' /\ IsPrefix(head, head')
      /\ Config(head') = Config(head)
  BY <1>1, GrownExtends DEF Edit, Grown, Inv, Shape
<1>3. Shape' /\ ServesItsConfiguration'
  BY <1>1, <1>2 DEF Edit, remoteVars, Inv, Shape, ServesItsConfiguration
<1> QED
  BY <1>2, <1>3, SameExtends
  DEF Edit, remoteVars, Inv, StagedInv, RoundInv, NothingPendingWasReplicated, Extends

LEMMA IdleTyped ==
  /\ Idle \in [step : Steps, incoming : Seq(Commit), local : Seq(Commit)]
  /\ Idle.step = "idle"
  /\ [Idle EXCEPT !.step = "fetch"] \in [step : Steps, incoming : Seq(Commit), local : Seq(Commit)]
  /\ [Idle EXCEPT !.step = "fetch"].step = "fetch"
<1> DEFINE fetching == [step |-> "fetch", incoming |-> <<>>, local |-> <<>>]
<1>1. [Idle EXCEPT !.step = "fetch"] = fetching
  BY DEF Idle
<1>2. <<>> \in Seq(Commit)
  BY EmptySeq
<1>3. fetching \in [step : Steps, incoming : Seq(Commit), local : Seq(Commit)]
  BY <1>2 DEF Steps
<1>4. fetching.step = "fetch"
  OBVIOUS
<1>5. /\ Idle \in [step : Steps, incoming : Seq(Commit), local : Seq(Commit)]
      /\ Idle.step = "idle"
  BY <1>2 DEF Idle, Steps
<1> HIDE DEF fetching
<1> QED
  BY <1>1, <1>3, <1>4, <1>5

LEMMA BeginRoundStep == ASSUME Inv, BeginRound PROVE Inv' /\ Extends
<1>1. /\ sync' \in [step : Steps, incoming : Seq(Commit), local : Seq(Commit)]
      /\ sync'.step \in {"idle", "fetch"}
  <2>1. sync' = [Idle EXCEPT !.step = "fetch"] \/ sync' = Idle
    BY DEF BeginRound
  <2> QED
    BY <2>1, IdleTyped
<1>2. Shape' /\ ServesItsConfiguration'
  BY <1>1, RefreshKeeps
  DEF BeginRound, remoteVars, Inv, Shape, BudgetInv, ServesItsConfiguration
<1>3. RoundInv'
  BY <1>1 DEF BeginRound, RoundInv
<1> QED
  BY <1>2, <1>3, SameExtends
  DEF BeginRound, remoteVars, Inv, StagedInv, NothingPendingWasReplicated, Extends

(* Steps that leave all but the round and the budget alone. *)
LEMMA RoundKeeps ==
  ASSUME Inv, UNCHANGED <<head, loaded, server, up, blocked, restart, ack, remoteVars>>,
         BudgetInv',
         sync' \in [step : Steps, incoming : Seq(Commit), local : Seq(Commit)],
         sync'.step = "decide" => sync'.incoming \in seen,
         sync'.step # "activate", ~up => sync'.step = "idle"
  PROVE  Inv' /\ Extends
<1>1. Shape' /\ RoundInv'
  BY DEF remoteVars, Inv, Shape, RoundInv
<1> QED
  BY <1>1, SameExtends
  DEF remoteVars, Inv, StagedInv, ServesItsConfiguration, NothingPendingWasReplicated, Extends

LEMMA FetchStep == ASSUME Inv, Fetch PROVE Inv' /\ Extends
<1>1. /\ sync' \in [step : Steps, incoming : Seq(Commit), local : Seq(Commit)]
      /\ sync'.step = "decide" /\ sync'.incoming = remote
  BY DEF Fetch, Inv, Shape, Steps
<1>2. BudgetInv' /\ up
  BY DEF Fetch, Inv, Shape, BudgetInv, RoundInv
<1> QED
  BY <1>1, <1>2, RoundKeeps DEF Fetch, Inv

LEMMA NetworkFailsStep == ASSUME Inv, NetworkFails PROVE Inv' /\ Extends
<1>1. BudgetInv'
  BY Budgets DEF NetworkFails, Inv, Shape
<1> QED
  BY <1>1, IdleTyped, RoundKeeps DEF NetworkFails, GiveUp

(* The remote had what is acknowledged, and what is activated extends the   *)
(* branch it was compared with.                                             *)
LEMMA DecideStep == ASSUME Inv, Decide PROVE Inv' /\ Extends
<1> DEFINE incoming == sync.incoming
<1>1. /\ incoming \in Seq(Commit) /\ incoming \in seen /\ up
      /\ UNCHANGED <<head, loaded, server, up, budget, remote, seen>>
  BY DEF Decide, remoteVars, Inv, Shape, RoundInv
<1>2. /\ ack' \in {ack, incoming}
      /\ blocked' \in {"no", "diverged", "external"}
  BY DEF Decide, Cleared, Inv, Shape
<1>3. /\ sync' \in [step : Steps, incoming : Seq(Commit), local : Seq(Commit)]
      /\ sync'.step \in {"idle", "push", "activate"}
      /\ sync'.step = "activate" =>
           /\ sync'.local = head /\ sync'.incoming = incoming
           /\ StrictlyExtends(incoming, head)
           /\ Config(incoming).valid
           /\ ~NeedsRestart(incoming)
  BY <1>1, IdleTyped DEF Decide, GiveUp, Inv, Shape, Steps
<1>4. restart' = restart \/ (restart' = {<<head, incoming>>} /\ StrictlyExtends(incoming, head))
  BY DEF Decide
<1>5. Shape'
  BY <1>1, <1>2, <1>3 DEF Inv, Shape, BudgetInv
<1>6. StagedInv'
  BY <1>1, <1>4 DEF Inv, Shape, StagedInv, StrictlyExtends, IsAncestor, IsStrictPrefix
<1>7. RoundInv'
  <2>1. StrictlyExtends(incoming, head) => incoming # <<>>
    BY <1>1, EmptySeq DEF StrictlyExtends, IsAncestor, IsPrefix, Inv, Shape
  <2> QED
    BY <1>1, <1>3, <2>1 DEF RoundInv, StrictlyExtends, IsAncestor, NeedsRestart
<1>8. NothingPendingWasReplicated'
  BY <1>1, <1>2, PrefixReflexive DEF Inv, NothingPendingWasReplicated
<1> QED
  BY <1>1, <1>5, <1>6, <1>7, <1>8, SameExtends DEF Inv, ServesItsConfiguration, Extends

(* Where the branch is still what the round compared the candidate with, it *)
(* becomes the candidate, which extends it.                                 *)
LEMMA ActivateStep == ASSUME Inv, Activate PROVE Inv' /\ Extends
<1>1. /\ sync.incoming \in Seq(Commit) \ {<<>>} /\ IsPrefix(sync.local, sync.incoming)
      /\ Config(sync.incoming).valid /\ Config(sync.incoming).server = server
      /\ sync \in [step : Steps, incoming : Seq(Commit), local : Seq(Commit)] /\ up
      /\ UNCHANGED <<server, up, restart, ack, budget, remote, seen>>
  BY DEF Activate, remoteVars, Inv, Shape, RoundInv
<1>2. /\ \/ head' = sync.incoming /\ loaded' = sync.incoming /\ head = sync.local
         \/ UNCHANGED <<head, loaded>>
      /\ blocked' \in {"no", "diverged", "external"}
  BY DEF Activate, Cleared, Inv, Shape
<1>3. /\ sync' \in [step : Steps, incoming : Seq(Commit), local : Seq(Commit)]
      /\ sync'.step \in {"idle", "push"}
  <2>1. sync' = Idle \/ sync' = [sync EXCEPT !.step = "push", !.local = sync.incoming]
    BY DEF Activate, GiveUp
  <2>2. CASE sync' = Idle
    BY <2>2, IdleTyped
  <2>3. CASE sync' = [sync EXCEPT !.step = "push", !.local = sync.incoming]
    BY <1>1, <2>3 DEF Steps
  <2> QED
    BY <2>1, <2>2, <2>3
<1>4. Shape'
  BY <1>1, <1>2, <1>3 DEF Inv, Shape, BudgetInv
<1>5. StagedInv' /\ RoundInv' /\ NothingPendingWasReplicated'
  BY <1>1, <1>3 DEF Inv, StagedInv, RoundInv, NothingPendingWasReplicated
<1>6. ServesItsConfiguration'
  BY <1>1, <1>2 DEF Inv, ServesItsConfiguration
<1> QED
  BY <1>1, <1>2, <1>4, <1>5, <1>6, SameExtends DEF Inv, Extends

LEMMA ActivateInterruptedStep == ASSUME Inv, ActivateInterrupted PROVE Inv' /\ Extends
<1>1. /\ head' \in Seq(Commit) \ {<<>>} /\ IsPrefix(head, head') /\ sync' = Idle
      /\ UNCHANGED <<loaded, server, up, blocked, restart, ack, remote, seen>>
  BY DEF ActivateInterrupted, GiveUp, remoteVars, Inv, Shape, RoundInv
<1>2. BudgetInv'
  BY Budgets DEF ActivateInterrupted, Inv, Shape
<1>3. Shape' /\ RoundInv'
  BY <1>1, <1>2, IdleTyped DEF Inv, Shape, RoundInv
<1> QED
  BY <1>1, <1>3, SameExtends
  DEF Inv, StagedInv, ServesItsConfiguration, NothingPendingWasReplicated, Extends

(* The remote takes what extends it, and every history it has had counts    *)
(* as seen.                                                                 *)
LEMMA PushKeeps ==
  ASSUME Inv, UNCHANGED <<head, loaded, server, up, blocked, restart>>, BudgetInv', sync' = Idle,
         \/ remote' = sync.local /\ seen' = seen \cup {sync.local} /\ IsPrefix(remote, sync.local)
         \/ UNCHANGED remoteVars,
         ack' = ack \/ (ack' = sync.local /\ sync.local \in seen')
  PROVE  Inv' /\ Extends
<1>1. sync.local \in Seq(Commit)
  BY DEF Inv, Shape
<1>2. /\ remote' \in Seq(Commit) /\ remote' \in seen' /\ seen \subseteq seen'
      /\ ack' \in Seq(Commit) /\ IsPrefix(remote, remote')
  BY <1>1, PrefixReflexive DEF remoteVars, Inv, Shape
<1>3. Shape' /\ RoundInv'
  BY <1>2, IdleTyped DEF Inv, Shape, RoundInv
<1>4. NothingPendingWasReplicated'
  BY <1>1, <1>2, PrefixReflexive DEF Inv, NothingPendingWasReplicated
<1> QED
  BY <1>2, <1>3, <1>4, SameExtends DEF Inv, StagedInv, ServesItsConfiguration, Extends

LEMMA PushSnapshotStep == ASSUME Inv, PushSnapshot PROVE Inv' /\ Extends
<1>1. BudgetInv'
  BY DEF PushSnapshot, Inv, Shape, BudgetInv
<1> QED
  BY <1>1, PushKeeps DEF PushSnapshot, GiveUp, IsAncestor, remoteVars

LEMMA PushUnansweredStep == ASSUME Inv, PushUnanswered PROVE Inv' /\ Extends
<1>1. BudgetInv'
  BY Budgets DEF PushUnanswered, Inv, Shape
<1> QED
  BY <1>1, PushKeeps DEF PushUnanswered, GiveUp, IsAncestor

LEMMA CrashStep == ASSUME Inv, Crash PROVE Inv' /\ Extends
<1>1. BudgetInv'
  BY Budgets DEF Crash, Inv, Shape
<1>2. Shape' /\ RoundInv'
  BY <1>1, IdleTyped DEF Crash, GiveUp, remoteVars, Inv, Shape, RoundInv
<1> QED
  BY <1>2, SameExtends
  DEF Crash, remoteVars, Inv, StagedInv, ServesItsConfiguration, NothingPendingWasReplicated, Extends

(* Only a candidate staged on the present branch is activated.              *)
LEMMA StartActivateStep == ASSUME Inv, StartActivate PROVE Inv' /\ Extends
<1>1. PICK old, new \in Seq(Commit) : restart = {<<old, new>>} /\ IsStrictPrefix(old, new)
  BY DEF StartActivate, StagedApplies, Inv, StagedInv
<1>2. head = old /\ head' = new /\ IsPrefix(head, head') /\ new # <<>>
  <2>1. head = old /\ head' = new
    BY <1>1 DEF StartActivate, StagedApplies
  <2>2. new # <<>>
    BY <1>1, <2>1, EmptySeq DEF IsStrictPrefix, IsPrefix, Inv, Shape
  <2> QED
    BY <1>1, <2>1, <2>2 DEF IsStrictPrefix
<1>3. Shape'
  BY <1>2 DEF StartActivate, remoteVars, Inv, Shape, BudgetInv
<1>4. StagedInv'
  BY DEF StartActivate, Inv, StagedInv
<1> QED
  BY <1>2, <1>3, <1>4, SameExtends
  DEF StartActivate, remoteVars, Inv, RoundInv, ServesItsConfiguration,
      NothingPendingWasReplicated, Extends

LEMMA StartOpenStep == ASSUME Inv, StartOpen PROVE Inv' /\ Extends
<1>1. Config(head) \in Kinds
  BY ConfigTyped DEF Inv, Shape
<1>2. Shape'
  BY <1>1 DEF StartOpen, remoteVars, Kinds, Inv, Shape, BudgetInv
<1>3. StagedInv' /\ RoundInv' /\ ServesItsConfiguration'
  BY DEF StartOpen, remoteVars, Inv, StagedInv, RoundInv, ServesItsConfiguration
<1> QED
  BY <1>2, <1>3, SameExtends DEF StartOpen, remoteVars, Inv, NothingPendingWasReplicated, Extends

(* Steps of the operator: only the live branch moves.                       *)
LEMMA OperatorKeeps ==
  ASSUME Inv, UNCHANGED <<roundVars, remoteVars>>, BudgetInv', head' \in Seq(Commit) \ {<<>>}
  PROVE  Inv'
<1>1. Shape'
  BY DEF roundVars, remoteVars, Inv, Shape
<1> QED
  BY <1>1
  DEF roundVars, remoteVars, Inv, StagedInv, RoundInv, ServesItsConfiguration,
      NothingPendingWasReplicated

LEMMA OperatorCommitStep == ASSUME Inv, OperatorCommit PROVE Inv' /\ Extends
<1>1. PICK kind \in LocalKinds : head' = Grown(head, kind)
  BY DEF OperatorCommit
<1>2. BudgetInv' /\ [id |-> budget.made + 1, kind |-> kind] \in Commit
  BY Budgets, ReplicationAssumption DEF OperatorCommit, Inv, Shape
<1>3. head' \in Seq(Commit) \ {<<>>} /\ IsPrefix(head, head')
  BY <1>1, <1>2, GrownExtends DEF Grown, Inv, Shape
<1> QED
  BY <1>2, <1>3, OperatorKeeps, SameExtends DEF OperatorCommit, remoteVars, Extends

LEMMA OperatorResetStep == ASSUME Inv, OperatorReset PROVE Inv' /\ Extends
<1>1. BudgetInv'
  BY Budgets DEF OperatorReset, Inv, Shape
<1>2. head' \in Seq(Commit) \ {<<>>}
  BY FrontShorter DEF OperatorReset, Inv, Shape
<1> QED
  BY <1>1, <1>2, OperatorKeeps, SameExtends DEF OperatorReset, remoteVars, Extends

(* Steps of other writers: only the remote moves.                           *)
LEMMA RemoteKeeps ==
  ASSUME Inv, UNCHANGED <<head, roundVars>>, BudgetInv',
         remote' \in Seq(Commit), seen' = seen \cup {remote'}
  PROVE  Inv' /\ IsPrefix(head, head')
<1>1. Shape'
  BY DEF roundVars, Inv, Shape
<1>2. seen \subseteq seen' /\ remote' \in seen'
  OBVIOUS
<1>3. RoundInv' /\ NothingPendingWasReplicated'
  BY <1>2 DEF roundVars, Inv, RoundInv, NothingPendingWasReplicated
<1> QED
  BY <1>1, <1>2, <1>3, SameExtends DEF roundVars, Inv, StagedInv, ServesItsConfiguration

LEMMA RemoteCommitStep == ASSUME Inv, RemoteCommit PROVE Inv' /\ Extends
<1>1. PICK kind \in RemoteKinds : remote' = Grown(remote, kind)
  BY DEF RemoteCommit
<1>2. BudgetInv' /\ [id |-> budget.made + 1, kind |-> kind] \in Commit
  BY Budgets, ReplicationAssumption DEF RemoteCommit, Inv, Shape
<1>3. remote' \in Seq(Commit) /\ IsPrefix(remote, remote')
  BY <1>1, <1>2, GrownExtends DEF Grown, Inv, Shape
<1> QED
  BY <1>2, <1>3, RemoteKeeps DEF RemoteCommit, Extends

LEMMA RemoteRewriteStep == ASSUME Inv, RemoteRewrite PROVE Inv' /\ Extends
<1>1. BudgetInv'
  BY Budgets DEF RemoteRewrite, Inv, Shape
<1>2. remote' \in Seq(Commit)
  BY FrontShorter DEF RemoteRewrite, Inv, Shape
<1> QED
  BY <1>1, <1>2, RemoteKeeps DEF RemoteRewrite, Extends

LEMMA NextInv == ASSUME Inv, [Next]_vars PROVE Inv' /\ (Extends \/ UNCHANGED vars)
<1>1. CASE UNCHANGED vars
  <2>1. Shape' /\ RoundInv'
    BY <1>1 DEF vars, Inv, Shape, BudgetInv, RoundInv
  <2> QED
    BY <1>1, <2>1
    DEF vars, Inv, StagedInv, ServesItsConfiguration, NothingPendingWasReplicated
<1>2. CASE Next
  BY <1>2, HandlerRefreshStep, EditStep, BeginRoundStep, FetchStep, DecideStep, ActivateStep,
     ActivateInterruptedStep, PushSnapshotStep, PushUnansweredStep, NetworkFailsStep,
     CrashStep, StartActivateStep, StartOpenStep, OperatorCommitStep, OperatorResetStep,
     RemoteCommitStep, RemoteRewriteStep
  DEF Next
<1> QED
  BY <1>1, <1>2

LEMMA InvAlways == Spec => []Inv
<1>1. Inv /\ [Next]_vars => Inv'
  BY NextInv
<1> QED
  BY <1>1, InitInv, PTL DEF Spec

-----------------------------------------------------------------------------
(* The branches, the round and the files keep their types, and a staged     *)
(* restart is a fast-forward of the branch it was staged on.                *)
THEOREM TypeCorrect == Spec => []TypeOK
<1>1. Inv => TypeOK
  BY DEF Inv, Shape, StagedInv, TypeOK, History, Steps
<1> QED
  BY <1>1, InvAlways, PTL

(* However a commit reaches the branch, the process serves only snapshots   *)
(* that validate and have the server section it listens with.               *)
THEOREM ServesOnlyItsConfiguration == Spec => []ServesItsConfiguration
<1>1. Inv => ServesItsConfiguration
  BY DEF Inv
<1> QED
  BY <1>1, InvAlways, PTL

(* What status() does not count as pending was on the remote at some time.  *)
THEOREM AcknowledgedWasReplicated == Spec => []NothingPendingWasReplicated
<1>1. Inv => NothingPendingWasReplicated
  BY DEF Inv
<1> QED
  BY <1>1, InvAlways, PTL

(* Rounds, restarts and crashes only add commits to the live branch and to  *)
(* the remote.                                                              *)
THEOREM CommitsAreNeverDropped == Spec => NothingIsLost
<1>1. Inv /\ [Next]_vars => [Extends]_vars
  BY NextInv
<1> QED
  BY <1>1, InvAlways, PTL DEF Spec, NothingIsLost, Extends
=============================================================================
