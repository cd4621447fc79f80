----------------------------- MODULE GuardedGit -----------------------------
(***************************************************************************)
(* The Git side of Phrourion (src/src/git.rs): fetch, the two-phase pull   *)
(* (preview, then apply) and the two-phase checkout of a pull request,     *)
(* run by several tasks or processes on ONE registered checkout while the  *)
(* user works on the same checkout from another terminal.                  *)
(*                                                                         *)
(* Every Git command is a child process that the code awaits, so each is a *)
(* step of its own and anything may happen between two of them.  Every     *)
(* early return, failed or timed-out command is the action Bail: a step    *)
(* that succeeds states the conditions under which the code goes on.       *)
(***************************************************************************)
EXTENDS Naturals, FiniteSets

CONSTANTS Actor,         \* tasks and processes of Phrourion on this checkout
          Commit,        \* commit ids
          Ancestors,     \* Ancestors[c]: the commits reachable from c, c included
          Root,          \* the commit everything starts at
          LocalName,     \* local branches that are not pr/<n>
          Main,          \* the local branch checked out at the start
          PullRequest,   \* pull request numbers; pr/<n> is the local branch n
          RemoteBranch,  \* branches of the registered remote
          Foreign,       \* an upstream on another remote
          NoUpstream,    \* a branch without upstream
          Detached,      \* HEAD without a branch
          NoCommit,      \* a branch that does not exist
          NoActor,       \* nobody holds phrourion.lock
          NoValue,       \* an unset local variable
          Upstream,      \* the subject of a pull: the branch's upstream
          MaxUser,       \* bound on the user's steps
          MaxPush        \* bound on the server's steps

Branch  == LocalName \cup PullRequest
Ref     == Branch \cup {Detached}
Tracked == RemoteBranch \cup {Foreign}
Subject == PullRequest \cup {Upstream}

ASSUME NamesAssumption ==
  /\ Main \in LocalName
  /\ Detached \notin Branch
  /\ Foreign \notin RemoteBranch
  /\ NoUpstream \notin Tracked
  /\ NoActor \notin Actor
  /\ NoCommit \notin Commit
  /\ Upstream \notin PullRequest
  /\ LocalName \cap PullRequest = {}
  /\ MaxUser \in Nat /\ MaxPush \in Nat

\* Reachability is what a commit graph makes it: reflexive and transitive,
\* and every commit reaches finitely many.
ASSUME HistoryAssumption ==
  /\ Root \in Commit
  /\ Ancestors \in [Commit -> SUBSET Commit]
  /\ \A c \in Commit :
       /\ c \in Ancestors[c]
       /\ IsFiniteSet(Ancestors[c])
       /\ \A d \in Ancestors[c] : Ancestors[d] \subseteq Ancestors[c]

VARIABLES
  head,       \* the branch HEAD names, or Detached
  ref,        \* commit of each local branch (of Detached: HEAD's own commit)
  config,     \* branch.<b>.remote and branch.<b>.merge
  trk,        \* remote-tracking refs
  fetchHead,  \* FETCH_HEAD: what was fetched, and the commit
  dirty,      \* uncommitted or untracked changes in the work tree
  operation,  \* a merge, rebase, bisect ... in progress
  registered, \* the remote's url still is the registered identity
  up,         \* the server's branches
  pr,         \* the server's refs/pull/<n>/head
  lock,       \* holder of <git-common-dir>/phrourion.lock
  pc, op, subject,  \* per actor: next command, operation, what it is about
  snap,       \* per actor: the LocalState being read
  plan,       \* per actor: the preview being built, shown or applied
  touched,    \* per actor: the user acted since the actor took the lock
  user, push  \* steps taken by the user and the server (bounded)

checkout == <<head, ref, config, trk, fetchHead, dirty, operation, registered>>
server   == <<up, pr>>
actors   == <<lock, pc, op, subject, snap, plan>>
vars     == <<checkout, server, actors, touched, user, push>>

-----------------------------------------------------------------------------
(* What one command reads. *)

HeadCommit == ref[head]

\* The numbers `git status` prints after "# branch.ab", and for-each-ref in
\* its track column: commits only one side has.
Ahead(b)  == IF config[b] = NoUpstream THEN 0
             ELSE Cardinality(Ancestors[ref[b]] \ Ancestors[trk[config[b]]])
Behind(b) == IF config[b] = NoUpstream THEN 0
             ELSE Cardinality(Ancestors[trk[config[b]]] \ Ancestors[ref[b]])

Exists(b) == ref[b] # NoCommit

\* LocalState as `git status --porcelain=v2 --branch` fills it.
StatusRead ==
  [branch |-> head, head |-> HeadCommit, upstream |-> config[head],
   ahead |-> Ahead(head), behind |-> Behind(head), dirty |-> dirty,
   branches |-> {}, operation |-> FALSE]

\* The for-each-ref listing: name, upstream and track of every local branch.
RefsRead == {<<b, config[b], Ahead(b), Behind(b)>> : b \in {c \in Branch : Exists(c)}}

\* Mutant: looks the branch up in the wrong column of the listing.
HasTrackedBranch(s, b) == \E line \in s.branches : line[2] = b

\* has_local_branch
HasLocalBranch(s, b) == \E line \in s.branches : line[1] = b

\* checkout_eligible, and the stricter eligible of a pull.
CheckoutEligible(s) == ~s.dirty /\ ~s.operation

PullEligible(s) ==
  /\ CheckoutEligible(s)
  /\ s.branch # Detached
  /\ s.upstream # NoUpstream
  /\ ~(s.ahead > 0 /\ s.behind > 0)

\* Mutant: the checks of a checkout for a pull too.
LaxEligible(s, what) == CheckoutEligible(s)

Eligible(s, what) == IF what = Upstream THEN PullEligible(s) ELSE CheckoutEligible(s)

ChangedDuringFetch(initial, before) ==
  initial.head # before.head \/ initial.branch # before.branch

-----------------------------------------------------------------------------
Init ==
  /\ head = Main
  /\ ref = [r \in Ref |-> IF r \in LocalName THEN Root ELSE NoCommit]
  /\ \E r \in RemoteBranch :
       config = [b \in Ref |-> IF b \in LocalName THEN r ELSE NoUpstream]
  /\ trk = [t \in Tracked |-> Root]
  /\ fetchHead = [of |-> Upstream, commit |-> Root]
  /\ dirty = FALSE /\ operation = FALSE /\ registered = TRUE
  /\ up \in [RemoteBranch -> Commit]
  /\ pr \in [PullRequest -> Commit]
  /\ lock = NoActor
  /\ pc = [a \in Actor |-> "idle"]
  /\ op = [a \in Actor |-> "fetch"]
  /\ subject = [a \in Actor |-> Upstream]
  /\ snap = [a \in Actor |-> NoValue]
  /\ plan = [a \in Actor |-> NoValue]
  /\ touched = [a \in Actor |-> FALSE]
  /\ user = 0 /\ push = 0

Goto(a, label) == pc' = [pc EXCEPT ![a] = label]

\* Mutant: the lock is not released.
ReleaseNever(a) == UNCHANGED lock

\* Leaving an operation drops its guard file, which unlocks it, and its locals.
Release(a) == lock' = IF lock = a THEN NoActor ELSE lock

\* Mutant: the plan of an operation outlives it.
ForgetKeepingPlan(a) ==
  /\ Release(a)
  /\ pc' = [pc EXCEPT ![a] = "idle"]
  /\ op' = [op EXCEPT ![a] = "fetch"]
  /\ subject' = [subject EXCEPT ![a] = Upstream]
  /\ snap' = [snap EXCEPT ![a] = NoValue]
  /\ UNCHANGED plan

Forget(a) ==
  /\ Release(a)
  /\ pc' = [pc EXCEPT ![a] = "idle"]
  /\ op' = [op EXCEPT ![a] = "fetch"]
  /\ subject' = [subject EXCEPT ![a] = Upstream]
  /\ snap' = [snap EXCEPT ![a] = NoValue]
  /\ plan' = [plan EXCEPT ![a] = NoValue]

\* A preview is shown: the lock is dropped, the plan waits for the user.
Show(a, p) ==
  /\ Release(a)
  /\ pc' = [pc EXCEPT ![a] = "shown"]
  /\ snap' = [snap EXCEPT ![a] = NoValue]
  /\ plan' = [plan EXCEPT ![a] = p]

\* Mutant: no lock at all.
AlwaysCanLock == TRUE

\* lock(): try_lock_exclusive never waits, so an operation that finds the lock
\* held fails at once (Bail).  A preview or a fetch starts from idle; the apply
\* of either kind starts from a shown plan, which the user has confirmed.
CanLock == lock = NoActor

Acquire(a, o, what) ==
  /\ CanLock
  /\ \/ pc[a] = "idle" /\ o \in {"fetch", "preview"} /\ (o = "fetch" => what = Upstream)
     \/ pc[a] = "shown" /\ o = "apply" /\ what = subject[a]
  /\ lock' = a
  /\ Goto(a, "identity")
  /\ op' = [op EXCEPT ![a] = o]
  /\ subject' = [subject EXCEPT ![a] = what]
  /\ touched' = [touched EXCEPT ![a] = FALSE]
  /\ UNCHANGED <<checkout, server, snap, plan, user, push>>

\* identity(): the url of the registered remote still parses to the identity.
Identity(a) ==
  /\ pc[a] = "identity"
  /\ registered
  /\ Goto(a, IF op[a] = "fetch" THEN "fetch" ELSE "status")
  /\ UNCHANGED <<checkout, server, lock, op, subject, snap, plan, touched, user, push>>

\* snapshot(), in the three reads other programs can run between.
ReadStatus(a) ==
  /\ pc[a] = "status"
  /\ snap' = [snap EXCEPT ![a] = StatusRead]
  /\ Goto(a, "refs")
  /\ UNCHANGED <<checkout, server, lock, op, subject, plan, touched, user, push>>

ReadRefs(a) ==
  /\ pc[a] = "refs"
  /\ snap' = [snap EXCEPT ![a].branches = RefsRead]
  /\ Goto(a, "operation")
  /\ UNCHANGED <<checkout, server, lock, op, subject, plan, touched, user, push>>

\* The last read of a snapshot, and the checks the caller makes on the result.
\* A preview takes two snapshots, before and after its fetch.
FirstSnapshot(a, s) ==
  /\ op[a] = "preview" /\ plan[a] = NoValue
  /\ Eligible(s, subject[a])
  /\ subject[a] # Upstream => ~HasLocalBranch(s, subject[a])
  /\ plan' = [plan EXCEPT ![a] = [before |-> s, tracking |-> NoUpstream, target |-> NoCommit]]
  /\ snap' = [snap EXCEPT ![a] = s]
  /\ Goto(a, IF subject[a] = Upstream THEN "tracking" ELSE "fetch")
  /\ UNCHANGED lock

SecondSnapshot(a, s) ==
  /\ op[a] = "preview" /\ plan[a] # NoValue
  /\ Eligible(s, subject[a])
  /\ ~ChangedDuringFetch(plan[a].before, s)
  /\ IF subject[a] = Upstream
     THEN /\ s.behind # 0
          /\ plan' = [plan EXCEPT ![a].before = s]
          /\ snap' = [snap EXCEPT ![a] = s]
          /\ Goto(a, "target")
          /\ UNCHANGED lock
     ELSE Show(a, [plan[a] EXCEPT !.before = s])

Revalidation(a, s) ==
  /\ op[a] = "apply"
  /\ Eligible(s, subject[a])
  /\ subject[a] # Upstream => s = plan[a].before /\ ~HasLocalBranch(s, subject[a])
  /\ snap' = [snap EXCEPT ![a] = s]
  /\ Goto(a, IF subject[a] = Upstream THEN "tracking" ELSE "act")
  /\ UNCHANGED <<plan, lock>>

ReadOperation(a) ==
  /\ pc[a] = "operation"
  /\ LET s == [snap[a] EXCEPT !.operation = operation]
     IN FirstSnapshot(a, s) \/ SecondSnapshot(a, s) \/ Revalidation(a, s)
  /\ UNCHANGED <<checkout, server, op, subject, touched, user, push>>

\* tracking(): the branch's upstream must be on the registered remote.  apply
\* then requires the snapshot and the tracking to be those of the preview.
Tracking(a) ==
  LET found == config[snap[a].branch] IN
  /\ pc[a] = "tracking"
  /\ found \in RemoteBranch
  /\ \/ /\ op[a] = "preview"
        /\ plan' = [plan EXCEPT ![a].tracking = found]
        /\ Goto(a, "fetch")
     \/ /\ op[a] = "apply"
        /\ snap[a] = plan[a].before /\ found = plan[a].tracking
        /\ Goto(a, "target")
        /\ UNCHANGED plan
  /\ snap' = [snap EXCEPT ![a] = NoValue]
  /\ UNCHANGED <<checkout, server, lock, op, subject, touched, user, push>>

\* git fetch of the remote (all branches), or of refs/pull/<n>/head.  A url
\* that was replaced after identity() serves whatever its server holds.
FetchAll ==
  /\ trk' \in {t \in [Tracked -> Commit] :
                 /\ t[Foreign] = trk[Foreign]
                 /\ registered => \A r \in RemoteBranch : t[r] = up[r]}
  /\ \E r \in RemoteBranch : fetchHead' = [of |-> Upstream, commit |-> trk'[r]]

\* Mutant: the fetch of a pull request leaves FETCH_HEAD as it was.
FetchPullElsewhere(n) == UNCHANGED <<fetchHead, trk>>

FetchPull(n) ==
  /\ \E c \in Commit : (registered => c = pr[n]) /\ fetchHead' = [of |-> n, commit |-> c]
  /\ UNCHANGED trk

Fetch(a) ==
  /\ pc[a] = "fetch"
  /\ IF subject[a] = Upstream THEN FetchAll ELSE FetchPull(subject[a])
  /\ IF op[a] = "fetch"
     THEN Forget(a)
     ELSE /\ Goto(a, IF subject[a] = Upstream THEN "status" ELSE "target")
          /\ UNCHANGED <<lock, op, subject, snap, plan>>
  /\ UNCHANGED <<head, ref, config, dirty, operation, registered, server, touched, user, push>>

\* rev-parse @{upstream}^{commit}, or FETCH_HEAD^{commit}: a command of its own.
Target(a) ==
  /\ pc[a] = "target"
  /\ IF subject[a] = Upstream
     THEN /\ head # Detached /\ config[head] # NoUpstream
          /\ LET c == trk[config[head]] IN
             \/ op[a] = "preview" /\ Show(a, [plan[a] EXCEPT !.target = c])
             \/ /\ op[a] = "apply" /\ c = plan[a].target
                /\ Goto(a, "act")
                /\ UNCHANGED <<lock, snap, plan>>
     ELSE /\ plan' = [plan EXCEPT ![a].target = fetchHead.commit]
          /\ Goto(a, "status")
          /\ UNCHANGED <<lock, snap>>
  /\ UNCHANGED <<checkout, server, op, subject, touched, user, push>>

\* Mutant: --ff-only is missing.
AnyMerge(c) == TRUE

\* git merge --ff-only <target>, into whatever HEAD is at that moment.
CanFastForward(c) == HeadCommit \in Ancestors[c]

Merge(a) ==
  LET c == plan[a].target IN
  /\ pc[a] = "act" /\ subject[a] = Upstream
  /\ ~operation
  /\ CanFastForward(c)
  /\ ref' = [ref EXCEPT ![head] = c]
  /\ Forget(a)
  /\ UNCHANGED <<head, config, trk, fetchHead, dirty, operation, registered,
                 server, touched, user, push>>

\* git checkout -b pr/<n> <target>
CheckoutBranch(a) ==
  LET n == subject[a] IN
  /\ pc[a] = "act" /\ n # Upstream
  /\ ~Exists(n)
  /\ head' = n
  /\ ref' = [ref EXCEPT ![n] = plan[a].target, ![Detached] = NoCommit]
  /\ Forget(a)
  /\ UNCHANGED <<config, trk, fetchHead, dirty, operation, registered,
                 server, touched, user, push>>

\* The 45 s timeout or a quit kills git while it writes the work tree.
Interrupted(a) ==
  /\ pc[a] = "act"
  /\ dirty' = TRUE
  /\ Forget(a)
  /\ UNCHANGED <<head, ref, config, trk, fetchHead, operation, registered,
                 server, touched, user, push>>

\* Any early return, failed command, timeout, cancelled prompt or dead process.
Bail(a) ==
  /\ pc[a] # "idle"
  /\ Forget(a)
  /\ UNCHANGED <<checkout, server, touched, user, push>>

Progress(a) ==
  \/ Identity(a) \/ ReadStatus(a) \/ ReadRefs(a) \/ ReadOperation(a) \/ Tracking(a)
  \/ Fetch(a) \/ Target(a) \/ Merge(a) \/ CheckoutBranch(a) \/ Interrupted(a)
  \/ Bail(a)

-----------------------------------------------------------------------------
(* The user in another terminal, and the server. *)

UserStep ==
  /\ user < MaxUser
  /\ user' = user + 1
  /\ touched' = [a \in Actor |-> TRUE]
  /\ UNCHANGED <<server, actors, push>>

\* commit, reset, rebase, pull: the branch or detached HEAD moves anywhere
UserMove ==
  /\ \E c \in Commit \ {HeadCommit} : ref' = [ref EXCEPT ![head] = c]
  /\ UserStep
  /\ UNCHANGED <<head, config, trk, fetchHead, dirty, operation, registered>>

UserSwitch ==
  /\ \E r \in Ref \ {head} :
       /\ r = Detached \/ Exists(r)
       /\ head' = r
       /\ ref' = [ref EXCEPT ![Detached] = IF r = Detached THEN HeadCommit ELSE NoCommit]
  /\ UserStep
  /\ UNCHANGED <<config, trk, fetchHead, dirty, operation, registered>>

\* git branch / git branch -d of a branch that is not checked out
UserBranch ==
  /\ \E b \in Branch \ {head} :
       /\ ref' = [ref EXCEPT ![b] = IF Exists(b) THEN NoCommit ELSE HeadCommit]
       /\ config' = [config EXCEPT ![b] = NoUpstream]
  /\ UserStep
  /\ UNCHANGED <<head, trk, fetchHead, dirty, operation, registered>>

UserEdit ==
  /\ \/ dirty' = ~dirty /\ UNCHANGED operation
     \/ operation' = ~operation /\ UNCHANGED dirty
  /\ UserStep
  /\ UNCHANGED <<head, ref, config, trk, fetchHead, registered>>

UserConfig ==
  /\ \/ /\ \E t \in Tracked \cup {NoUpstream}, b \in Branch :
             Exists(b) /\ config' = [config EXCEPT ![b] = t]
        /\ UNCHANGED registered
     \/ registered' = ~registered /\ UNCHANGED config
  /\ UserStep
  /\ UNCHANGED <<head, ref, trk, fetchHead, dirty, operation>>

UserFetch ==
  /\ FetchAll
  /\ UserStep
  /\ UNCHANGED <<head, ref, config, dirty, operation, registered>>

\* Pushes, forced ones included.
ServerStep ==
  /\ push < MaxPush
  /\ push' = push + 1
  /\ \/ \E r \in RemoteBranch, c \in Commit : up' = [up EXCEPT ![r] = c] /\ UNCHANGED pr
     \/ \E n \in PullRequest, c \in Commit : pr' = [pr EXCEPT ![n] = c] /\ UNCHANGED up
  /\ UNCHANGED <<checkout, actors, touched, user>>

User == \/ UserMove \/ UserSwitch \/ UserBranch \/ UserEdit \/ UserConfig \/ UserFetch

Next ==
  \/ \E a \in Actor :
       \/ \E o \in {"fetch", "preview", "apply"}, what \in Subject : Acquire(a, o, what)
       \/ Progress(a)
  \/ User
  \/ ServerStep

\* The runtime polls a task until it ends and each command has a timeout, so an
\* operation that has started does not stay at one command for ever.  Nothing
\* obliges the user to start or confirm one.
Running(a) == pc[a] \notin {"idle", "shown"}

Fairness == \A a \in Actor : WF_vars(Running(a) /\ Progress(a))

Spec == Init /\ [][Next]_vars /\ Fairness
-----------------------------------------------------------------------------
(* Properties. *)

LocalState ==
  [branch : Ref, head : Commit, upstream : Tracked \cup {NoUpstream},
   ahead : Nat, behind : Nat, dirty : BOOLEAN,
   branches : SUBSET (Branch \X (Tracked \cup {NoUpstream}) \X Nat \X Nat),
   operation : BOOLEAN]

Plan == [before : LocalState, tracking : RemoteBranch \cup {NoUpstream},
         target : Commit \cup {NoCommit}]

\* The value of an unset local is not a value the code computes.
ASSUME UnsetAssumption == NoValue \notin LocalState \cup Plan

Label == {"idle", "identity", "status", "refs", "operation", "tracking", "fetch",
          "target", "act", "shown"}

CheckoutType ==
  /\ head \in Ref
  /\ ref \in [Ref -> Commit \cup {NoCommit}] /\ ref[head] \in Commit
  /\ config \in [Ref -> Tracked \cup {NoUpstream}] /\ config[Detached] = NoUpstream
  /\ trk \in [Tracked -> Commit]
  /\ fetchHead \in [of : Subject, commit : Commit]
  /\ dirty \in BOOLEAN /\ operation \in BOOLEAN /\ registered \in BOOLEAN

ServerType == up \in [RemoteBranch -> Commit] /\ pr \in [PullRequest -> Commit]

ActorsType ==
  /\ lock \in Actor \cup {NoActor}
  /\ pc \in [Actor -> Label]
  /\ op \in [Actor -> {"fetch", "preview", "apply"}]
  /\ subject \in [Actor -> Subject]
  /\ snap \in [Actor -> LocalState \cup {NoValue}]
  /\ plan \in [Actor -> Plan \cup {NoValue}]
  /\ touched \in [Actor -> BOOLEAN]

\* Which commands belong to which operation, and which locals are set there.
LocalsSet ==
  \A a \in Actor :
    /\ op[a] = "fetch" => pc[a] \in {"idle", "identity", "fetch"} /\ plan[a] = NoValue
    /\ op[a] = "preview" => pc[a] \notin {"idle", "act"}
    /\ op[a] = "apply" => pc[a] \notin {"idle", "shown", "fetch"} /\ plan[a] # NoValue
    /\ op[a] = "preview" /\ pc[a] = "identity" => plan[a] = NoValue
    /\ pc[a] \in {"refs", "operation", "tracking"} => snap[a] # NoValue
    /\ op[a] = "preview" /\ pc[a] \in {"tracking", "fetch", "target", "shown"} => plan[a] # NoValue
    /\ \/ op[a] = "apply" \/ pc[a] = "shown"
       \/ /\ plan[a] # NoValue /\ subject[a] # Upstream
          /\ pc[a] \in {"status", "refs", "operation"}
       => plan[a].target \in Commit

\* Every variable keeps its kind, HEAD names something that exists, and a
\* local is set wherever the code that reads it can run.
TypeOK ==
  /\ CheckoutType /\ ServerType /\ ActorsType /\ LocalsSet
  /\ user \in 0..MaxUser /\ push \in 0..MaxPush

\* The advisory lock (lock(), try_lock_exclusive) does serialise the tasks and
\* processes: two operations are never between their first and last commands
\* at the same time, and nobody else's exit releases the lock of a running one.
OneAtATime == \A a \in Actor : Running(a) => lock = a

\* apply's revalidation: when git merge is about to run and the user has not
\* acted since apply took the lock, then whatever the other tasks did and
\* whatever happened between preview and confirmation, HEAD is the previewed
\* branch at the previewed commit, the tree is clean, and the confirmed target
\* is the head of that branch's upstream and a proper fast-forward of HEAD.
UndisturbedPull ==
  \A a \in Actor : pc[a] = "act" /\ subject[a] = Upstream /\ ~touched[a] =>
    /\ head = plan[a].before.branch /\ head # Detached
    /\ HeadCommit = plan[a].before.head
    /\ ~dirty /\ ~operation /\ registered
    /\ config[head] = plan[a].tracking /\ config[head] \in RemoteBranch
    /\ trk[config[head]] = plan[a].target
    /\ CanFastForward(plan[a].target) /\ HeadCommit # plan[a].target

\* checkout_apply's revalidation, under the same hypotheses: git checkout -b
\* creates a branch that does not exist, from the previewed branch and commit,
\* over a clean tree.
UndisturbedCheckout ==
  \A a \in Actor : pc[a] = "act" /\ subject[a] # Upstream /\ ~touched[a] =>
    /\ head = plan[a].before.branch
    /\ HeadCommit = plan[a].before.head
    /\ ~dirty /\ ~operation /\ registered
    /\ ~Exists(subject[a])

\* checkout_preview reads FETCH_HEAD in a command after the fetch; the lock
\* keeps every other task's fetch out from between the two, so without the
\* user's own fetch the target is the pull request's head.
FetchHeadIsThePullRequest ==
  \A a \in Actor : pc[a] = "target" /\ subject[a] # Upstream /\ ~touched[a] =>
    fetchHead.of = subject[a]

\* Whatever the user does meanwhile, a step of Phrourion moves a local branch
\* only by applying a confirmed plan: it advances the branch HEAD names to a
\* descendant (no commit of it is lost), or creates the pull request's branch;
\* and HEAD leaves a branch only for the branch such a plan creates.
ConfirmedMove(a) ==
  /\ \A b \in Branch : ref'[b] # ref[b] =>
       /\ op[a] = "apply" /\ ref'[b] = plan[a].target
       /\ \/ b = head /\ subject[a] = Upstream /\ ref[b] \in Ancestors[ref'[b]]
          \/ b = subject[a] /\ ~Exists(b)
  /\ head' # head => op[a] = "apply" /\ head' = subject[a]

ConfirmedMovesOnly == [][\A a \in Actor : pc'[a] # pc[a] => ConfirmedMove(a)]_vars

\* Whatever a task does or dies of, the lock comes free: no fetch, preview or
\* apply locks the checkout's other users out for good.
LockComesFree == []<>(lock = NoActor)

\* The strengthening that makes the two invariants above inductive: what an
\* operation the user left alone has read of the checkout, and still holds.
Agrees(s) ==
  /\ s.branch = head /\ s.head = HeadCommit /\ s.upstream = config[head]
  /\ s.ahead = Ahead(head) /\ s.behind = Behind(head) /\ s.dirty = dirty

StillHolds(a) ==
  /\ pc[a] # "identity" => registered
  /\ op[a] = "apply" /\ pc[a] \in {"refs", "operation", "tracking"} => Agrees(snap[a])
  /\ op[a] = "apply" /\ pc[a] = "operation" => snap[a].branches = RefsRead
  /\ op[a] = "apply" /\ pc[a] = "tracking" =>
       snap[a].operation = operation /\ PullEligible(snap[a])
  /\ op[a] = "apply" /\ pc[a] \in {"target", "act"} /\ subject[a] = Upstream =>
       /\ Agrees(plan[a].before) /\ plan[a].before.operation = operation
       /\ PullEligible(plan[a].before)
       /\ plan[a].tracking = config[head] /\ config[head] \in RemoteBranch
  /\ pc[a] = "act" /\ subject[a] = Upstream => trk[config[head]] = plan[a].target
  /\ pc[a] = "act" /\ subject[a] # Upstream =>
       Agrees(plan[a].before) /\ ~dirty /\ ~operation /\ ~Exists(subject[a])
  /\ pc[a] = "target" /\ subject[a] # Upstream => fetchHead.of = subject[a]

PreviewedBehind ==
  \A a \in Actor :
    /\ op[a] = "apply" /\ pc[a] = "tracking" => subject[a] = Upstream
    /\ /\ subject[a] = Upstream
       /\ op[a] = "apply" \/ pc[a] = "shown" \/ (op[a] = "preview" /\ pc[a] = "target")
       => plan[a].before.behind # 0

ReadInv == PreviewedBehind /\ \A a \in Actor : Running(a) /\ ~touched[a] => StillHolds(a)
=============================================================================
