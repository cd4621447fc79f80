-------------------------- MODULE GuardedGitProofs --------------------------
(***************************************************************************)
(* Theorems about GuardedGit for every set of actors, every commit graph,  *)
(* and any number of user and server steps.                                *)
(***************************************************************************)
EXTENDS GuardedGit, FiniteSetTheorems, TLAPS

-----------------------------------------------------------------------------
(* What the reading operators return. *)

\* `git status` counts are numbers.
LEMMA CountType ==
  ASSUME CheckoutType, NEW b \in Ref, ref[b] \in Commit
  PROVE  Ahead(b) \in Nat /\ Behind(b) \in Nat
<1> USE HistoryAssumption
<1>1. CASE config[b] = NoUpstream
  BY <1>1 DEF Ahead, Behind
<1>2. CASE config[b] # NoUpstream
  <2>1. config[b] \in Tracked
    BY <1>2 DEF CheckoutType
  <2>2. trk[config[b]] \in Commit
    BY <2>1 DEF CheckoutType
  <2>3. IsFiniteSet(Ancestors[ref[b]]) /\ IsFiniteSet(Ancestors[trk[config[b]]])
    BY <2>2
  <2>4. /\ IsFiniteSet(Ancestors[ref[b]] \ Ancestors[trk[config[b]]])
        /\ IsFiniteSet(Ancestors[trk[config[b]]] \ Ancestors[ref[b]])
    BY <2>3, FS_Difference
  <2> QED
    BY <1>2, <2>4, FS_CardinalityType DEF Ahead, Behind
<1> QED
  BY <1>1, <1>2

\* A status read fills every field of LocalState.
LEMMA StatusType ==
  ASSUME CheckoutType
  PROVE  StatusRead \in LocalState
<1>1. Ahead(head) \in Nat /\ Behind(head) \in Nat
  BY CountType DEF CheckoutType
<1> QED
  BY <1>1 DEF StatusRead, LocalState, CheckoutType, HeadCommit

\* The listing has one line per existing local branch.
LEMMA RefsType ==
  ASSUME CheckoutType
  PROVE  RefsRead \in SUBSET (Branch \X (Tracked \cup {NoUpstream}) \X Nat \X Nat)
<1> SUFFICES ASSUME NEW b \in Branch, Exists(b)
             PROVE  <<b, config[b], Ahead(b), Behind(b)>>
                      \in Branch \X (Tracked \cup {NoUpstream}) \X Nat \X Nat
  BY DEF RefsRead
<1>1. b \in Ref /\ ref[b] \in Commit
  BY DEF CheckoutType, Exists, Ref
<1>2. Ahead(b) \in Nat /\ Behind(b) \in Nat
  BY <1>1, CountType
<1>3. config[b] \in Tracked \cup {NoUpstream}
  BY <1>1 DEF CheckoutType
<1> QED
  BY <1>2, <1>3

-----------------------------------------------------------------------------
(* Type correctness. *)

LEMMA InitType == Init => TypeOK
<1> SUFFICES ASSUME Init PROVE TypeOK
  OBVIOUS
<1> USE NamesAssumption, HistoryAssumption
<1>1. CheckoutType
  BY DEF Init, CheckoutType, Ref, Branch, Tracked, Subject
<1>2. ServerType /\ ActorsType
  BY DEF Init, ServerType, ActorsType, Label, Subject
<1>3. LocalsSet
  BY DEF Init, LocalsSet
<1> QED
  BY <1>1, <1>2, <1>3 DEF Init, TypeOK

\* No step takes the checkout out of its type.
LEMMA CheckoutTypeStep ==
  ASSUME TypeOK, [Next]_vars
  PROVE  CheckoutType'
<1> USE NamesAssumption, HistoryAssumption DEF TypeOK
<1>1. ASSUME UNCHANGED checkout PROVE CheckoutType'
  BY <1>1 DEF checkout, CheckoutType
<1>2. ASSUME FetchAll, UNCHANGED <<head, ref, config, dirty, operation, registered>>
      PROVE  CheckoutType'
  <2>1. trk' \in [Tracked -> Commit]
    BY <1>2 DEF FetchAll
  <2>2. fetchHead' \in [of : Subject, commit : Commit]
    BY <1>2, <2>1 DEF FetchAll, Tracked, Subject
  <2> QED
    BY <1>2, <2>1, <2>2 DEF CheckoutType
<1>3. ASSUME NEW a \in Actor, Progress(a) PROVE CheckoutType'
  <2>1. CASE Identity(a) \/ ReadStatus(a) \/ ReadRefs(a) \/ ReadOperation(a)
             \/ Tracking(a) \/ Target(a) \/ Bail(a)
    BY <1>1, <2>1 DEF Identity, ReadStatus, ReadRefs, ReadOperation, Tracking, Target, Bail
  <2>2. CASE Fetch(a)
    <3>1. CASE subject[a] = Upstream
      BY <1>2, <2>2, <3>1 DEF Fetch
    <3>2. CASE subject[a] # Upstream
      <4>1. fetchHead' \in [of : Subject, commit : Commit] /\ UNCHANGED trk
        BY <2>2, <3>2 DEF Fetch, FetchPull, ActorsType
      <4> QED
        BY <2>2, <4>1 DEF Fetch, CheckoutType
    <3> QED
      BY <3>1, <3>2
  <2>3. CASE Merge(a)
    <3>1. plan[a].target \in Commit
      BY <2>3 DEF Merge, LocalsSet, ActorsType
    <3> QED
      BY <2>3, <3>1 DEF Merge, CheckoutType
  <2>4. CASE CheckoutBranch(a)
    <3>1. plan[a].target \in Commit /\ subject[a] \in PullRequest
      BY <2>4 DEF CheckoutBranch, LocalsSet, ActorsType, Subject
    <3> QED
      BY <2>4, <3>1 DEF CheckoutBranch, CheckoutType, Ref, Branch
  <2>5. CASE Interrupted(a)
    BY <2>5 DEF Interrupted, CheckoutType
  <2> QED
    BY <1>3, <2>1, <2>2, <2>3, <2>4, <2>5 DEF Progress
<1>4. ASSUME User PROVE CheckoutType'
  <2>1. CASE UserMove
    BY <2>1 DEF UserMove, CheckoutType
  <2>2. CASE UserSwitch
    BY <2>2 DEF UserSwitch, CheckoutType, Exists, HeadCommit, Ref
  <2>3. CASE UserBranch
    BY <2>3 DEF UserBranch, CheckoutType, HeadCommit, Ref
  <2>4. CASE UserEdit
    BY <2>4 DEF UserEdit, CheckoutType
  <2>5. CASE UserConfig
    <3>1. registered' \in BOOLEAN
      BY <2>5 DEF UserConfig, CheckoutType
    <3>2. config' \in [Ref -> Tracked \cup {NoUpstream}] /\ config'[Detached] = NoUpstream
      <4>1. CASE UNCHANGED config
        BY <4>1 DEF CheckoutType
      <4>2. ASSUME NEW t \in Tracked \cup {NoUpstream}, NEW b \in Branch,
                   config' = [config EXCEPT ![b] = t]
            PROVE  config' \in [Ref -> Tracked \cup {NoUpstream}] /\ config'[Detached] = NoUpstream
        <5>1. Detached # b /\ Detached \in Ref /\ b \in Ref
          BY DEF Ref
        <5> QED
          BY <4>2, <5>1 DEF CheckoutType
      <4> QED
        BY <2>5, <4>1, <4>2 DEF UserConfig
    <3> QED
      BY <2>5, <3>1, <3>2 DEF UserConfig, CheckoutType
  <2>6. CASE UserFetch
    BY <1>2, <2>6 DEF UserFetch
  <2> QED
    BY <1>4, <2>1, <2>2, <2>3, <2>4, <2>5, <2>6 DEF User
<1>5. ASSUME NEW a \in Actor, NEW o \in {"fetch", "preview", "apply"}, NEW what \in Subject,
             Acquire(a, o, what)
      PROVE  CheckoutType'
  BY <1>1, <1>5 DEF Acquire
<1>6. CASE ServerStep
  BY <1>1, <1>6 DEF ServerStep
<1>7. CASE UNCHANGED vars
  BY <1>1, <1>7 DEF vars
<1> QED
  BY <1>3, <1>4, <1>5, <1>6, <1>7 DEF Next

\* No step takes an actor's locals, or the lock, out of their types.
LEMMA ActorsTypeStep ==
  ASSUME TypeOK, [Next]_vars
  PROVE  ActorsType' /\ LocalsSet'
<1> USE NamesAssumption, UnsetAssumption DEF TypeOK
<1>1. ASSUME UNCHANGED actors, touched' \in [Actor -> BOOLEAN]
      PROVE  ActorsType' /\ LocalsSet'
  BY <1>1 DEF actors, ActorsType, LocalsSet
<1>2. ASSUME NEW a \in Actor, Forget(a), UNCHANGED touched
      PROVE  ActorsType' /\ LocalsSet'
  <2>1. ActorsType'
    BY <1>2 DEF Forget, Release, ActorsType, Label, Subject
  <2>2. LocalsSet'
    BY <1>2 DEF Forget, ActorsType, LocalsSet
  <2> QED
    BY <2>1, <2>2
<1>3. ASSUME NEW a \in Actor, Identity(a) PROVE ActorsType' /\ LocalsSet'
  BY <1>3 DEF Identity, Goto, ActorsType, LocalsSet, Label
<1>4. ASSUME NEW a \in Actor, ReadStatus(a) PROVE ActorsType' /\ LocalsSet'
  <2>1. StatusRead \in LocalState
    BY StatusType
  <2>2. ActorsType'
    BY <1>4, <2>1 DEF ReadStatus, Goto, ActorsType, Label
  <2>3. LocalsSet'
    BY <1>4, <2>1 DEF ReadStatus, Goto, ActorsType, LocalsSet
  <2> QED
    BY <2>2, <2>3
<1>5. ASSUME NEW a \in Actor, ReadRefs(a) PROVE ActorsType' /\ LocalsSet'
  <2>1. snap[a] \in LocalState
    BY <1>5 DEF ReadRefs, LocalsSet, ActorsType
  <2>2. [snap[a] EXCEPT !.branches = RefsRead] \in LocalState
    BY <2>1, RefsType DEF LocalState
  <2>3. snap' = [snap EXCEPT ![a] = [snap[a] EXCEPT !.branches = RefsRead]]
    BY <1>5 DEF ReadRefs
  <2>4. ActorsType'
    BY <1>5, <2>2, <2>3 DEF ReadRefs, Goto, ActorsType, Label
  <2>5. LocalsSet'
    BY <1>5, <2>2, <2>3 DEF ReadRefs, Goto, ActorsType, LocalsSet
  <2> QED
    BY <2>4, <2>5
<1>6. ASSUME NEW a \in Actor, ReadOperation(a) PROVE ActorsType' /\ LocalsSet'
  <2> DEFINE s == [snap[a] EXCEPT !.operation = operation]
  <2>1. s \in LocalState
    BY <1>6 DEF ReadOperation, LocalsSet, ActorsType, CheckoutType, LocalState
  <2>2. CASE FirstSnapshot(a, s)
    <3> DEFINE p == [before |-> s, tracking |-> NoUpstream, target |-> NoCommit]
    <3>1. p \in Plan
      BY <2>1 DEF Plan
    <3>2. plan' = [plan EXCEPT ![a] = p] /\ p # NoValue
      BY <2>2, <3>1 DEF FirstSnapshot
    <3> HIDE DEF s, p
    <3>3. ActorsType'
      BY <1>6, <2>1, <2>2, <3>1, <3>2 DEF ReadOperation, FirstSnapshot, Goto, ActorsType, Label
    <3>4. LocalsSet'
      BY <1>6, <2>1, <2>2, <3>1, <3>2
         DEF ReadOperation, FirstSnapshot, Goto, ActorsType, LocalsSet
    <3> QED
      BY <3>3, <3>4
  <2>3. CASE SecondSnapshot(a, s)
    <3> DEFINE p == [plan[a] EXCEPT !.before = s]
    <3>1. plan[a] \in Plan
      BY <2>3 DEF SecondSnapshot, ActorsType
    <3>2. p \in Plan /\ p.target = plan[a].target
      BY <2>1, <3>1 DEF Plan
    <3>3. plan' = [plan EXCEPT ![a] = p] /\ p # NoValue
      BY <2>3, <3>2 DEF SecondSnapshot, Show
    <3> HIDE DEF s, p
    <3>4. ActorsType'
      BY <1>6, <2>1, <2>3, <3>2, <3>3
         DEF ReadOperation, SecondSnapshot, Show, Release, Goto, ActorsType, Label
    <3>5. LocalsSet'
      BY <1>6, <2>1, <2>3, <3>2, <3>3
         DEF ReadOperation, SecondSnapshot, Show, Goto, ActorsType, LocalsSet
    <3> QED
      BY <3>4, <3>5
  <2>4. CASE Revalidation(a, s)
    <3> HIDE DEF s
    <3>1. ActorsType'
      BY <1>6, <2>1, <2>4 DEF ReadOperation, Revalidation, Goto, ActorsType, Label
    <3>2. LocalsSet'
      BY <1>6, <2>1, <2>4 DEF ReadOperation, Revalidation, Goto, ActorsType, LocalsSet
    <3> QED
      BY <3>1, <3>2
  <2> QED
    BY <1>6, <2>2, <2>3, <2>4 DEF ReadOperation
<1>7. ASSUME NEW a \in Actor, Tracking(a) PROVE ActorsType' /\ LocalsSet'
  <2>1. plan[a] \in Plan
    BY <1>7 DEF Tracking, ActorsType, LocalsSet
  <2>2. CASE op[a] = "apply"
    <3>1. ActorsType'
      BY <1>7, <2>2 DEF Tracking, Goto, ActorsType, Label
    <3>2. LocalsSet'
      BY <1>7, <2>2 DEF Tracking, Goto, ActorsType, LocalsSet
    <3> QED
      BY <3>1, <3>2
  <2>3. CASE op[a] = "preview"
    <3> DEFINE p == [plan[a] EXCEPT !.tracking = config[snap[a].branch]]
    <3>1. p \in Plan /\ p # NoValue
      BY <1>7, <2>1 DEF Tracking, Plan
    <3>2. plan' = [plan EXCEPT ![a] = p]
      BY <1>7, <2>3 DEF Tracking
    <3> HIDE DEF p
    <3>3. ActorsType'
      BY <1>7, <2>3, <3>1, <3>2 DEF Tracking, Goto, ActorsType, Label
    <3>4. LocalsSet'
      BY <1>7, <2>3, <3>1, <3>2 DEF Tracking, Goto, ActorsType, LocalsSet
    <3> QED
      BY <3>3, <3>4
  <2> QED
    BY <1>7, <2>2, <2>3 DEF Tracking
<1>8. ASSUME NEW a \in Actor, Fetch(a) PROVE ActorsType' /\ LocalsSet'
  <2>1. CASE op[a] = "fetch"
    BY <1>2, <1>8, <2>1 DEF Fetch
  <2>2. CASE op[a] # "fetch"
    BY <1>8, <2>2 DEF Fetch, Goto, ActorsType, LocalsSet, Label
  <2> QED
    BY <2>1, <2>2
<1>9. ASSUME NEW a \in Actor, Target(a) PROVE ActorsType' /\ LocalsSet'
  <2>1. plan[a] \in Plan
    BY <1>9 DEF Target, ActorsType, LocalsSet
  <2>2. CASE subject[a] = Upstream /\ op[a] = "apply"
    BY <1>9, <2>2 DEF Target, Goto, ActorsType, LocalsSet, Label
  <2>3. CASE subject[a] = Upstream /\ op[a] = "preview"
    <3> DEFINE c == trk[config[head]]
               p == [plan[a] EXCEPT !.target = c]
    <3>1. c \in Commit
      BY <1>9, <2>3 DEF Target, CheckoutType
    <3>2. p \in Plan /\ p # NoValue /\ p.target \in Commit
      BY <2>1, <3>1 DEF Plan
    <3>3. Show(a, p)
      BY <1>9, <2>3 DEF Target
    <3> HIDE DEF c, p
    <3>4. ActorsType'
      BY <1>9, <3>2, <3>3 DEF Target, Show, Release, ActorsType, Label
    <3>5. LocalsSet'
      BY <1>9, <2>3, <3>2, <3>3 DEF Target, Show, ActorsType, LocalsSet
    <3> QED
      BY <3>4, <3>5
  <2>4. CASE subject[a] # Upstream
    <3> DEFINE p == [plan[a] EXCEPT !.target = fetchHead.commit]
    <3>1. p \in Plan /\ p # NoValue /\ p.target \in Commit
      BY <2>1 DEF Plan, CheckoutType
    <3>2. plan' = [plan EXCEPT ![a] = p]
      BY <1>9, <2>4 DEF Target
    <3> HIDE DEF p
    <3>3. ActorsType'
      BY <1>9, <2>4, <3>1, <3>2 DEF Target, Goto, ActorsType, Label
    <3>4. LocalsSet'
      BY <1>9, <2>4, <3>1, <3>2 DEF Target, Goto, ActorsType, LocalsSet
    <3> QED
      BY <3>3, <3>4
  <2> QED
    BY <1>9, <2>2, <2>3, <2>4 DEF Target
<1>10. ASSUME NEW a \in Actor, Merge(a) \/ CheckoutBranch(a) \/ Interrupted(a) \/ Bail(a)
       PROVE  ActorsType' /\ LocalsSet'
  BY <1>2, <1>10 DEF Merge, CheckoutBranch, Interrupted, Bail
<1>11. ASSUME NEW a \in Actor, NEW o \in {"fetch", "preview", "apply"}, NEW what \in Subject,
              Acquire(a, o, what)
       PROVE  ActorsType' /\ LocalsSet'
  <2>1. ActorsType'
    BY <1>11 DEF Acquire, Goto, ActorsType, Label
  <2>2. LocalsSet'
    BY <1>11 DEF Acquire, Goto, ActorsType, LocalsSet
  <2> QED
    BY <2>1, <2>2
<1>12. CASE User
  <2>1. UserStep
    BY <1>12 DEF User, UserMove, UserSwitch, UserBranch, UserEdit, UserConfig, UserFetch
  <2> QED
    BY <1>1, <2>1 DEF UserStep
<1>13. CASE ServerStep \/ UNCHANGED vars
  BY <1>1, <1>13 DEF ServerStep, vars, ActorsType
<1> QED
  BY <1>3, <1>4, <1>5, <1>6, <1>7, <1>8, <1>9, <1>10, <1>11, <1>12, <1>13 DEF Next, Progress

\* The server's refs stay refs and the bounds hold.
LEMMA ServerTypeStep ==
  ASSUME TypeOK, [Next]_vars
  PROVE  ServerType' /\ user' \in 0..MaxUser /\ push' \in 0..MaxPush
<1> USE NamesAssumption DEF TypeOK
<1>1. CASE \E a \in Actor : Progress(a)
               \/ \E o \in {"fetch", "preview", "apply"}, what \in Subject : Acquire(a, o, what)
  BY <1>1 DEF Progress, Acquire, Identity, ReadStatus, ReadRefs, ReadOperation, Tracking, Fetch,
              Target, Merge, CheckoutBranch, Interrupted, Bail, server, ServerType
<1>2. CASE User
  BY <1>2 DEF User, UserMove, UserSwitch, UserBranch, UserEdit, UserConfig, UserFetch, UserStep,
              server, ServerType
<1>3. CASE ServerStep
  BY <1>3 DEF ServerStep, ServerType
<1>4. CASE UNCHANGED vars
  BY <1>4 DEF vars, server, ServerType
<1> QED
  BY <1>1, <1>2, <1>3, <1>4 DEF Next

\* Every reachable state is well typed: HEAD always names something that
\* exists, and no operation reads a local that its own steps did not set.
THEOREM TypeCorrect == Spec => []TypeOK
<1>1. TypeOK /\ [Next]_vars => TypeOK'
  BY CheckoutTypeStep, ActorsTypeStep, ServerTypeStep DEF TypeOK
<1> QED
  BY InitType, <1>1, PTL DEF Spec

-----------------------------------------------------------------------------
(* The lock serialises operations. *)

\* Every path into an operation goes through try_lock, and every path out of
\* one releases the holder's own lock only.
LEMMA OneAtATimeStep ==
  ASSUME TypeOK, OneAtATime, [Next]_vars
  PROVE  OneAtATime'
<1> USE NamesAssumption DEF TypeOK, ActorsType, OneAtATime, Running
<1>1. ASSUME NEW a \in Actor, Forget(a) PROVE OneAtATime'
  BY <1>1 DEF Forget, Release
<1>2. ASSUME NEW a \in Actor, NEW p, Running(a), Show(a, p) PROVE OneAtATime'
  BY <1>2 DEF Show, Release
<1>3. ASSUME NEW a \in Actor, NEW l, Running(a), Goto(a, l), UNCHANGED lock PROVE OneAtATime'
  BY <1>3 DEF Goto
<1>4. ASSUME NEW a \in Actor, Progress(a) PROVE OneAtATime'
  <2>1. CASE Identity(a) \/ ReadStatus(a) \/ ReadRefs(a) \/ Tracking(a)
    BY <1>3, <2>1 DEF Identity, ReadStatus, ReadRefs, Tracking
  <2>2. CASE ReadOperation(a)
    BY <1>2, <1>3, <2>2
       DEF ReadOperation, FirstSnapshot, SecondSnapshot, Revalidation
  <2>3. CASE Fetch(a)
    BY <1>1, <1>3, <2>3 DEF Fetch
  <2>4. CASE Target(a)
    <3>1. CASE UNCHANGED lock
      BY <2>4, <3>1 DEF Target, Goto, Show
    <3>2. CASE \E p : Show(a, p)
      BY <1>2, <2>4, <3>2 DEF Target
    <3> QED
      BY <2>4, <3>1, <3>2 DEF Target
  <2>5. CASE Merge(a) \/ CheckoutBranch(a) \/ Interrupted(a) \/ Bail(a)
    BY <1>1, <2>5 DEF Merge, CheckoutBranch, Interrupted, Bail
  <2> QED
    BY <1>4, <2>1, <2>2, <2>3, <2>4, <2>5 DEF Progress
<1>5. ASSUME NEW a \in Actor, NEW o \in {"fetch", "preview", "apply"}, NEW what \in Subject,
             Acquire(a, o, what)
      PROVE  OneAtATime'
  BY <1>5 DEF Acquire, Goto, CanLock
<1>6. CASE UNCHANGED <<lock, pc>>
  BY <1>6
<1>7. CASE User \/ ServerStep \/ UNCHANGED vars
  BY <1>6, <1>7 DEF User, UserMove, UserSwitch, UserBranch, UserEdit, UserConfig, UserFetch,
     UserStep, ServerStep, vars, actors
<1> QED
  BY <1>4, <1>5, <1>7 DEF Next

\* Two Git operations of Phrourion never overlap on one checkout, however many
\* tasks and processes there are and wherever they fail or die.
THEOREM Exclusion == Spec => []OneAtATime
<1>1. Init => OneAtATime
  BY DEF Init, OneAtATime, Running
<1> QED
  BY <1>1, TypeCorrect, OneAtATimeStep, PTL DEF Spec

-----------------------------------------------------------------------------
(* What a revalidation has read still holds when git merge or git checkout    *)
(* runs, unless the user acted since the lock was taken.                      *)

\* Reads depend on the checkout and the reader's own locals only.
LEMMA StillHoldsUnchanged ==
  ASSUME NEW a, StillHolds(a), UNCHANGED checkout,
         pc'[a] = pc[a], op'[a] = op[a], subject'[a] = subject[a],
         snap'[a] = snap[a], plan'[a] = plan[a]
  PROVE  StillHolds(a)'
BY DEF StillHolds, checkout, Agrees, PullEligible, CheckoutEligible, RefsRead, HeadCommit,
       Ahead, Behind, Exists

\* While one operation runs, a step of another task leaves the checkout alone.
LEMMA OthersExcluded ==
  ASSUME TypeOK, OneAtATime, NEW a \in Actor, NEW b \in Actor, a # b, Running(a),
         \/ Progress(b)
         \/ \E o \in {"fetch", "preview", "apply"}, what \in Subject : Acquire(b, o, what)
  PROVE  /\ UNCHANGED <<checkout, touched>>
         /\ pc'[a] = pc[a] /\ op'[a] = op[a] /\ subject'[a] = subject[a]
         /\ snap'[a] = snap[a] /\ plan'[a] = plan[a]
<1> USE NamesAssumption
<1>1. lock = a /\ ~Running(b)
  BY DEF OneAtATime
<1>2. ~ \E o \in {"fetch", "preview", "apply"}, what \in Subject : Acquire(b, o, what)
  BY <1>1 DEF Acquire, CanLock
<1>3. Bail(b)
  BY <1>1, <1>2 DEF Progress, Running, Identity, ReadStatus, ReadRefs, ReadOperation, Tracking,
                    Fetch, Target, Merge, CheckoutBranch, Interrupted
<1> QED
  BY <1>3 DEF Bail, Forget, TypeOK, ActorsType

\* A step of the operation itself keeps what it has read and adds one fact.
LEMMA OwnStep ==
  ASSUME TypeOK, PreviewedBehind, NEW a \in Actor, Progress(a),
         Running(a), StillHolds(a), Running(a)'
  PROVE  StillHolds(a)'
<1> USE NamesAssumption, UnsetAssumption DEF TypeOK, Running
<1>1. CASE Identity(a)
  BY <1>1 DEF Identity, Goto, ActorsType, StillHolds, checkout
<1>2. CASE ReadStatus(a)
  <2>1. Agrees(StatusRead)
    BY DEF Agrees, StatusRead
  <2>2. snap'[a] = StatusRead /\ pc'[a] = "refs"
    BY <1>2 DEF ReadStatus, Goto, ActorsType
  <2>3. UNCHANGED checkout
    BY <1>2 DEF ReadStatus
  <2>4. Agrees(snap[a])'
    BY <2>1, <2>2, <2>3 DEF checkout, Agrees, HeadCommit, Ahead, Behind
  <2> QED
    BY <1>2, <2>2, <2>3, <2>4 DEF ReadStatus, StillHolds, checkout
<1>3. CASE ReadRefs(a)
  <2>1. snap[a] \in LocalState
    BY <1>3 DEF ReadRefs, LocalsSet, ActorsType
  <2>2. snap'[a] = [snap[a] EXCEPT !.branches = RefsRead] /\ pc'[a] = "operation"
    BY <1>3 DEF ReadRefs, Goto, ActorsType
  <2>3. UNCHANGED checkout
    BY <1>3 DEF ReadRefs
  <2>4. op[a] = "apply" => Agrees(snap'[a]) /\ snap'[a].branches = RefsRead
    BY <1>3, <2>1, <2>2 DEF ReadRefs, StillHolds, Agrees, LocalState
  <2>5. op[a] = "apply" => Agrees(snap[a])' /\ snap'[a].branches = RefsRead'
    BY <2>3, <2>4 DEF checkout, Agrees, HeadCommit, Ahead, Behind, RefsRead, Exists
  <2> QED
    BY <1>3, <2>2, <2>3, <2>5 DEF ReadRefs, StillHolds, checkout
<1>4. CASE ReadOperation(a)
  <2> DEFINE s == [snap[a] EXCEPT !.operation = operation]
  <2>1. snap[a] \in LocalState
    BY <1>4 DEF ReadOperation, LocalsSet, ActorsType
  <2>2. UNCHANGED checkout
    BY <1>4 DEF ReadOperation
  <2>3. CASE FirstSnapshot(a, s) \/ SecondSnapshot(a, s)
    BY <1>4, <2>2, <2>3 DEF ReadOperation, FirstSnapshot, SecondSnapshot, Show, Goto, ActorsType,
                            StillHolds, checkout
  <2>4. CASE Revalidation(a, s)
    <3>1. /\ Agrees(s) /\ s.operation = operation /\ s.branches = RefsRead
      BY <1>4, <2>1, <2>4 DEF ReadOperation, Revalidation, StillHolds, Agrees, LocalState
    <3> HIDE DEF s
    <3>2. snap'[a] = s /\ plan'[a] = plan[a]
      BY <2>4 DEF Revalidation, ActorsType
    <3>3. Agrees(snap[a])' /\ operation' = operation
      BY <2>2, <3>1, <3>2 DEF checkout, Agrees, HeadCommit, Ahead, Behind
    <3>4. CASE subject[a] = Upstream
      BY <1>4, <2>2, <2>4, <3>1, <3>2, <3>3, <3>4
         DEF ReadOperation, Revalidation, Eligible, Goto, ActorsType, StillHolds, checkout,
             PullEligible, CheckoutEligible
    <3>5. CASE subject[a] # Upstream
      <4>1. s = plan[a].before /\ ~HasLocalBranch(s, subject[a]) /\ CheckoutEligible(s)
        BY <2>4, <3>5 DEF Revalidation, Eligible
      <4>2. subject[a] \in Branch
        BY <3>5 DEF ActorsType, Subject, Branch
      <4>3. ~Exists(subject[a])
        <5> DEFINE n == subject[a]
                   line == <<n, config[n], Ahead(n), Behind(n)>>
        <5>1. Exists(n) => line \in RefsRead
          BY <4>2 DEF RefsRead
        <5>2. line[1] = n
          OBVIOUS
        <5> QED
          BY <3>1, <4>1, <5>1, <5>2 DEF HasLocalBranch
      <4>4. ~dirty /\ ~operation
        BY <3>1, <4>1 DEF CheckoutEligible, Agrees
      <4>5. Agrees(plan[a].before)'
        BY <2>2, <3>1, <3>2, <4>1 DEF checkout, Agrees, HeadCommit, Ahead, Behind
      <4> QED
        BY <1>4, <2>2, <2>4, <3>2, <3>3, <3>5, <4>1, <4>3, <4>4, <4>5
           DEF ReadOperation, Revalidation, Goto, ActorsType, StillHolds, checkout, Exists
    <3> QED
      BY <3>4, <3>5
  <2> QED
    BY <1>4, <2>3, <2>4 DEF ReadOperation
<1>5. CASE Tracking(a)
  <2>1. UNCHANGED checkout
    BY <1>5 DEF Tracking
  <2>2. CASE op[a] = "preview"
    BY <1>5, <2>1, <2>2 DEF Tracking, Goto, ActorsType, StillHolds, checkout
  <2>3. CASE op[a] = "apply"
    <3>1. /\ Agrees(snap[a]) /\ snap[a].operation = operation /\ PullEligible(snap[a])
      BY <1>5, <2>3 DEF Tracking, StillHolds
    <3>2. snap[a] = plan[a].before /\ plan[a].tracking = config[snap[a].branch]
          /\ plan[a].tracking \in RemoteBranch /\ plan' = plan /\ pc'[a] = "target"
      BY <1>5, <2>3 DEF Tracking, Goto, ActorsType
    <3>3. Agrees(plan[a].before) /\ plan[a].tracking = config[head]
      BY <3>1, <3>2 DEF Agrees
    <3>4. Agrees(plan[a].before)'
      BY <2>1, <3>2, <3>3 DEF checkout, Agrees, HeadCommit, Ahead, Behind
    <3>5. subject[a] = Upstream
      BY <1>5, <2>3 DEF Tracking, PreviewedBehind
    <3> QED
      BY <1>5, <2>1, <3>1, <3>2, <3>3, <3>4, <3>5
         DEF Tracking, StillHolds, checkout, PullEligible, CheckoutEligible
  <2> QED
    BY <1>5, <2>2, <2>3 DEF Tracking
<1>6. CASE Fetch(a)
  <2>1. op[a] # "fetch" /\ op[a] # "apply"
    BY <1>6 DEF Fetch, Forget, ActorsType, LocalsSet
  <2> QED
    BY <1>6, <2>1 DEF Fetch, FetchAll, FetchPull, Goto, ActorsType, StillHolds
<1>7. CASE Target(a)
  <2>1. UNCHANGED checkout
    BY <1>7 DEF Target
  <2>2. CASE subject[a] # Upstream
    BY <1>7, <2>1, <2>2 DEF Target, Goto, ActorsType, StillHolds, checkout
  <2>3. CASE subject[a] = Upstream
    <3>1. op[a] = "apply" /\ pc'[a] = "act" /\ plan' = plan
          /\ plan[a].target = trk[config[head]]
      BY <1>7, <2>3 DEF Target, Show, Goto, ActorsType
    <3>2. Agrees(plan[a].before)'
      BY <1>7, <2>1, <2>3, <3>1 DEF Target, StillHolds, checkout, Agrees, HeadCommit, Ahead, Behind
    <3> QED
      BY <1>7, <2>1, <2>3, <3>1, <3>2 DEF Target, StillHolds, checkout, PullEligible, CheckoutEligible
  <2> QED
    BY <2>2, <2>3
<1>8. CASE Merge(a) \/ CheckoutBranch(a) \/ Interrupted(a) \/ Bail(a)
  BY <1>8 DEF Merge, CheckoutBranch, Interrupted, Bail, Forget, ActorsType
<1> QED
  BY <1>1, <1>2, <1>3, <1>4, <1>5, <1>6, <1>7, <1>8 DEF Progress

\* A pull's plan is only ever confirmed with commits to pull.
LEMMA PreviewedBehindStep ==
  ASSUME TypeOK, PreviewedBehind, [Next]_vars
  PROVE  PreviewedBehind'
<1> USE NamesAssumption, UnsetAssumption DEF TypeOK, PreviewedBehind
<1>1. ASSUME UNCHANGED <<pc, op, subject, plan>> PROVE PreviewedBehind'
  BY <1>1
<1>2. ASSUME NEW a \in Actor, Forget(a) PROVE PreviewedBehind'
  BY <1>2 DEF Forget, ActorsType, LocalsSet
<1>3. ASSUME NEW a \in Actor, ReadOperation(a) PROVE PreviewedBehind'
  <2> DEFINE s == [snap[a] EXCEPT !.operation = operation]
  <2>1. CASE FirstSnapshot(a, s)
    BY <1>3, <2>1 DEF ReadOperation, FirstSnapshot, Goto, ActorsType
  <2>2. CASE SecondSnapshot(a, s)
    <3>1. plan[a] \in Plan
      BY <2>2 DEF SecondSnapshot, ActorsType
    <3> HIDE DEF s
    <3>2. CASE subject[a] = Upstream
      <4>1. s.behind # 0 /\ plan' = [plan EXCEPT ![a] = [plan[a] EXCEPT !.before = s]]
        BY <2>2, <3>2 DEF SecondSnapshot
      <4>2. plan'[a].before = s
        BY <3>1, <4>1 DEF ActorsType, Plan
      <4> QED
        BY <1>3, <2>2, <3>2, <4>1, <4>2 DEF ReadOperation, SecondSnapshot, Goto, ActorsType
    <3>3. CASE subject[a] # Upstream
      BY <1>3, <2>2, <3>3 DEF ReadOperation, SecondSnapshot, Show, ActorsType
    <3> QED
      BY <3>2, <3>3
  <2>3. CASE Revalidation(a, s)
    BY <1>3, <2>3 DEF ReadOperation, Revalidation, Goto, ActorsType
  <2> QED
    BY <1>3, <2>1, <2>2, <2>3 DEF ReadOperation
<1>4. ASSUME NEW a \in Actor, Target(a) PROVE PreviewedBehind'
  <2>1. plan[a] \in Plan
    BY <1>4 DEF Target, ActorsType, LocalsSet
  <2>2. CASE subject[a] # Upstream
    BY <1>4, <2>2 DEF Target, Goto, ActorsType
  <2>3. CASE subject[a] = Upstream /\ op[a] = "apply"
    BY <1>4, <2>3 DEF Target, Goto, ActorsType
  <2>4. CASE subject[a] = Upstream /\ op[a] = "preview"
    <3>1. plan'[a].before = plan[a].before
      BY <1>4, <2>1, <2>4 DEF Target, Show, ActorsType, Plan
    <3> QED
      BY <1>4, <2>4, <3>1 DEF Target, Show, ActorsType
  <2> QED
    BY <1>4, <2>2, <2>3, <2>4 DEF Target
<1>5. ASSUME NEW a \in Actor, Tracking(a) PROVE PreviewedBehind'
  BY <1>5 DEF Tracking, Goto, ActorsType
<1>6. ASSUME NEW a \in Actor, Identity(a) \/ ReadStatus(a) \/ ReadRefs(a) PROVE PreviewedBehind'
  BY <1>6 DEF Identity, ReadStatus, ReadRefs, Goto, ActorsType
<1>7. ASSUME NEW a \in Actor, Fetch(a) PROVE PreviewedBehind'
  BY <1>2, <1>7 DEF Fetch, Goto, ActorsType, LocalsSet
<1>8. ASSUME NEW a \in Actor, Merge(a) \/ CheckoutBranch(a) \/ Interrupted(a) \/ Bail(a)
      PROVE  PreviewedBehind'
  BY <1>2, <1>8 DEF Merge, CheckoutBranch, Interrupted, Bail
<1>9. ASSUME NEW a \in Actor, NEW o \in {"fetch", "preview", "apply"}, NEW what \in Subject,
             Acquire(a, o, what)
      PROVE  PreviewedBehind'
  BY <1>9 DEF Acquire, Goto, ActorsType
<1>10. CASE User \/ ServerStep \/ UNCHANGED vars
  BY <1>1, <1>10 DEF User, UserMove, UserSwitch, UserBranch, UserEdit, UserConfig, UserFetch,
     UserStep, ServerStep, vars, actors
<1> QED
  BY <1>3, <1>4, <1>5, <1>6, <1>7, <1>8, <1>9, <1>10 DEF Next, Progress

LEMMA ReadInvStep ==
  ASSUME TypeOK, OneAtATime, ReadInv, [Next]_vars
  PROVE  ReadInv'
<1> USE NamesAssumption
<1>1. PreviewedBehind'
  BY PreviewedBehindStep DEF ReadInv
<1>2. ASSUME NEW a \in Actor, Running(a)', ~touched'[a] PROVE StillHolds(a)'
  <2>1. ASSUME NEW b \in Actor, Progress(b)
                 \/ \E o \in {"fetch", "preview", "apply"}, what \in Subject : Acquire(b, o, what)
        PROVE  StillHolds(a)'
    <3>1. CASE a # b
      <4>1. CASE Running(a)
        <5>1. /\ UNCHANGED <<checkout, touched>>
              /\ pc'[a] = pc[a] /\ op'[a] = op[a] /\ subject'[a] = subject[a]
              /\ snap'[a] = snap[a] /\ plan'[a] = plan[a]
          BY <2>1, <3>1, <4>1, OthersExcluded
        <5>2. StillHolds(a)
          BY <1>2, <4>1, <5>1 DEF ReadInv
        <5> QED
          BY <5>1, <5>2, StillHoldsUnchanged
      <4>2. CASE ~Running(a)
        <5>1. pc'[a] = pc[a]
          BY <2>1, <3>1 DEF TypeOK, ActorsType, Progress, Acquire, Identity, ReadStatus, ReadRefs,
             ReadOperation, FirstSnapshot, SecondSnapshot, Revalidation, Tracking, Fetch, Target,
             Merge, CheckoutBranch, Interrupted, Bail, Forget, Show, Goto
        <5> QED
          BY <1>2, <4>2, <5>1 DEF Running
      <4> QED
        BY <4>1, <4>2
    <3>2. CASE a = b /\ Progress(a)
      <4>1. Running(a) /\ touched'[a] = touched[a]
        BY <1>2, <3>2 DEF TypeOK, ActorsType, Running, Progress, Identity, ReadStatus, ReadRefs,
           ReadOperation, Tracking, Fetch, Target, Merge, CheckoutBranch, Interrupted, Bail, Forget
      <4>2. StillHolds(a)
        BY <1>2, <4>1 DEF ReadInv
      <4> QED
        BY <1>2, <3>2, <4>1, <4>2, OwnStep DEF ReadInv
    <3>3. CASE a = b /\ \E o \in {"fetch", "preview", "apply"}, what \in Subject : Acquire(a, o, what)
      BY <3>3 DEF TypeOK, ActorsType, Acquire, Goto, StillHolds
    <3> QED
      BY <2>1, <3>1, <3>2, <3>3
  <2>2. CASE User
    BY <1>2, <2>2 DEF User, UserMove, UserSwitch, UserBranch, UserEdit, UserConfig, UserFetch,
                      UserStep
  <2>3. CASE ServerStep \/ UNCHANGED vars
    <3>1. UNCHANGED <<checkout, actors, touched>>
      BY <2>3 DEF ServerStep, vars
    <3>2. StillHolds(a)
      BY <1>2, <3>1 DEF ReadInv, actors, Running
    <3> QED
      BY <3>1, <3>2, StillHoldsUnchanged DEF actors
  <2> QED
    BY <2>1, <2>2, <2>3 DEF Next
<1> QED
  BY <1>1, <1>2 DEF ReadInv

THEOREM ReadsStillHold == Spec => []ReadInv
<1>1. Init => ReadInv
  BY DEF Init, ReadInv, PreviewedBehind, Running
<1> QED
  BY <1>1, TypeCorrect, Exclusion, ReadInvStep, PTL DEF Spec

\* Zero commits ahead is reachability, and a non-zero behind a difference.
LEMMA FastForward ==
  ASSUME NEW h \in Commit, NEW t \in Commit,
         Cardinality(Ancestors[h] \ Ancestors[t]) = 0,
         Cardinality(Ancestors[t] \ Ancestors[h]) # 0
  PROVE  h \in Ancestors[t] /\ h # t
<1> USE HistoryAssumption
<1>1. IsFiniteSet(Ancestors[h] \ Ancestors[t])
  BY FS_Difference
<1>2. Ancestors[h] \ Ancestors[t] = {}
  BY <1>1, FS_EmptySet
<1>3. Ancestors[t] \ Ancestors[h] # {}
  BY FS_EmptySet
<1> QED
  BY <1>2, <1>3

\* A confirmed pull that the user does not disturb while it runs fast-forwards
\* exactly the previewed branch, from exactly the previewed commit, to exactly
\* the previewed target: whatever other tasks of Phrourion do, whatever is
\* pushed, and whatever happened between the preview and its confirmation.
THEOREM PullAppliesItsPreview == Spec => []UndisturbedPull
<1>1. TypeOK /\ ReadInv => UndisturbedPull
  <2> SUFFICES ASSUME TypeOK, ReadInv, NEW a \in Actor,
                      pc[a] = "act", subject[a] = Upstream, ~touched[a]
               PROVE  /\ head = plan[a].before.branch /\ head # Detached
                      /\ HeadCommit = plan[a].before.head
                      /\ ~dirty /\ ~operation /\ registered
                      /\ config[head] = plan[a].tracking /\ config[head] \in RemoteBranch
                      /\ trk[config[head]] = plan[a].target
                      /\ CanFastForward(plan[a].target) /\ HeadCommit # plan[a].target
    BY DEF UndisturbedPull
  <2> USE NamesAssumption
  <2> DEFINE p == plan[a].before
  <2>1. op[a] = "apply" /\ StillHolds(a) /\ p.behind # 0
    BY DEF TypeOK, ActorsType, LocalsSet, ReadInv, PreviewedBehind, Running
  <2>2. Agrees(p) /\ p.operation = operation /\ PullEligible(p) /\ registered
        /\ plan[a].tracking = config[head] /\ config[head] \in RemoteBranch
        /\ trk[config[head]] = plan[a].target
    BY <2>1 DEF StillHolds
  <2>3. plan[a] \in Plan /\ plan[a].target \in Commit
    BY <2>1 DEF TypeOK, ActorsType, LocalsSet
  <2>4. p.ahead = 0
    BY <2>1, <2>2, <2>3 DEF PullEligible, Plan, LocalState
  <2>5. config[head] # NoUpstream
    BY <2>2 DEF Tracked
  <2>6. HeadCommit \in Ancestors[plan[a].target] /\ HeadCommit # plan[a].target
    BY <2>1, <2>2, <2>3, <2>4, <2>5, FastForward
       DEF Agrees, Ahead, Behind, HeadCommit, TypeOK, CheckoutType
  <2> QED
    BY <2>2, <2>6 DEF Agrees, PullEligible, CheckoutEligible, CanFastForward
<1> QED
  BY <1>1, TypeCorrect, ReadsStillHold, PTL

\* A confirmed checkout that the user does not disturb while it runs creates a
\* branch that did not exist, over the clean checkout that was previewed.
THEOREM CheckoutAppliesItsPreview == Spec => []UndisturbedCheckout
<1>1. ReadInv => UndisturbedCheckout
  BY DEF ReadInv, UndisturbedCheckout, Running, StillHolds, Agrees
<1> QED
  BY <1>1, ReadsStillHold, PTL

\* No other task's fetch comes between fetching a pull request and reading
\* FETCH_HEAD.
THEOREM FetchHeadIsRead == Spec => []FetchHeadIsThePullRequest
<1>1. ReadInv => FetchHeadIsThePullRequest
  BY DEF ReadInv, FetchHeadIsThePullRequest, Running, StillHolds
<1> QED
  BY <1>1, ReadsStillHold, PTL

-----------------------------------------------------------------------------
(* What a step of Phrourion may do to branches, whatever the user does. *)

LEMMA ConfirmedMoveStep ==
  ASSUME TypeOK, [Next]_vars, NEW a \in Actor, pc'[a] # pc[a]
  PROVE  ConfirmedMove(a)
<1> USE NamesAssumption DEF TypeOK
<1>1. ASSUME UNCHANGED <<head, ref>> PROVE ConfirmedMove(a)
  BY <1>1 DEF ConfirmedMove
<1>2. ASSUME NEW b \in Actor, Merge(b) PROVE ConfirmedMove(a)
  <2>1. a = b
    BY <1>2 DEF Merge, Forget, ActorsType
  <2>2. op[a] = "apply"
    BY <1>2, <2>1 DEF Merge, ActorsType, LocalsSet
  <2> QED
    BY <1>2, <2>1, <2>2 DEF Merge, ConfirmedMove, CanFastForward, HeadCommit, CheckoutType, Ref
<1>3. ASSUME NEW b \in Actor, CheckoutBranch(b) PROVE ConfirmedMove(a)
  <2>1. a = b
    BY <1>3 DEF CheckoutBranch, Forget, ActorsType
  <2>2. op[a] = "apply"
    BY <1>3, <2>1 DEF CheckoutBranch, ActorsType, LocalsSet
  <2> QED
    BY <1>3, <2>1, <2>2 DEF CheckoutBranch, ConfirmedMove, CheckoutType, Ref
<1>4. CASE User \/ ServerStep \/ UNCHANGED vars
  BY <1>4 DEF User, UserMove, UserSwitch, UserBranch, UserEdit, UserConfig, UserFetch, UserStep,
              ServerStep, vars, actors
<1>5. ASSUME NEW b \in Actor,
             \/ Progress(b) /\ ~Merge(b) /\ ~CheckoutBranch(b)
             \/ \E o \in {"fetch", "preview", "apply"}, what \in Subject : Acquire(b, o, what)
      PROVE  ConfirmedMove(a)
  BY <1>1, <1>5 DEF Progress, Acquire, Identity, ReadStatus, ReadRefs, ReadOperation, Tracking,
                    Fetch, Target, Interrupted, Bail, checkout
<1> QED
  BY <1>2, <1>3, <1>4, <1>5 DEF Next

\* Even when the user interferes at the worst moment, Phrourion moves a branch
\* only forward and only to a target the user confirmed, and it leaves the
\* checked-out branch only for the one a confirmed checkout creates.
THEOREM MovesAreConfirmed == Spec => ConfirmedMovesOnly
<1>1. TypeOK /\ [Next]_vars => [\A a \in Actor : pc'[a] # pc[a] => ConfirmedMove(a)]_vars
  BY ConfirmedMoveStep
<1> QED
  BY <1>1, TypeCorrect, PTL DEF Spec, ConfirmedMovesOnly

-----------------------------------------------------------------------------
(* Every operation runs out of commands. *)

\* The second snapshot of a preview, after its fetch.
Second(a) == op[a] = "preview" /\ plan[a] # NoValue

\* A bound on the commands an operation still has before it, by the command it is
\* at: the longest way to its end, over both kinds of preview and of apply.
CommandsLeft(a) ==
  CASE pc[a] = "identity"  -> 12
    [] pc[a] = "status"    -> IF Second(a) THEN 5 ELSE 11
    [] pc[a] = "refs"      -> IF Second(a) THEN 4 ELSE 10
    [] pc[a] = "operation" -> IF Second(a) THEN 3 ELSE 9
    [] pc[a] = "tracking"  -> 8
    [] pc[a] = "fetch"     -> 7
    [] pc[a] = "target"    -> IF subject[a] = Upstream THEN 2 ELSE 6
    [] pc[a] = "act"       -> 1
    [] OTHER               -> 0

\* Whatever the user, the server and other operations do, a running operation has
\* fewer commands left after each of its own and never gets more: no change of the
\* checkout makes it read, fetch or revalidate again (git.rs has no loop that does).
CommandsRunOut ==
  [][\A a \in Actor : Running(a) =>
       /\ CommandsLeft(a)' <= CommandsLeft(a)
       /\ Progress(a) => CommandsLeft(a)' < CommandsLeft(a)]_vars

\* The apply of a pull request looks up no upstream and no commit: it has the plan's.
AppliesPlan ==
  \A a \in Actor : op[a] = "apply" /\ pc[a] \in {"tracking", "target"} => subject[a] = Upstream

LEMMA AppliesPlanStep ==
  ASSUME TypeOK, OneAtATime, AppliesPlan, [Next]_vars
  PROVE  AppliesPlan'
<1> SUFFICES ASSUME NEW a \in Actor, op'[a] = "apply", pc'[a] \in {"tracking", "target"}
             PROVE  subject'[a] = Upstream
  BY DEF AppliesPlan
<1> USE NamesAssumption
<1>0. /\ pc \in [Actor -> Label] /\ op \in [Actor -> {"fetch", "preview", "apply"}]
      /\ subject \in [Actor -> Subject]
  BY DEF TypeOK, ActorsType
<1>1. CASE pc'[a] = pc[a] /\ op'[a] = op[a] /\ subject'[a] = subject[a]
  BY <1>1 DEF AppliesPlan
<1>2. CASE Progress(a)
  <2>1. ~Forget(a)
    BY <1>0 DEF Forget
  <2>2. CASE Identity(a) \/ ReadStatus(a) \/ ReadRefs(a)
    BY <1>0, <2>2 DEF Identity, ReadStatus, ReadRefs, Goto
  <2>3. CASE ReadOperation(a)
    BY <1>0, <2>3 DEF ReadOperation, FirstSnapshot, SecondSnapshot, Revalidation, Goto, Show
  <2>4. CASE Tracking(a)
    BY <1>0, <2>4 DEF Tracking, AppliesPlan
  <2>5. CASE Fetch(a)
    BY <1>0, <2>1, <2>5 DEF Fetch, TypeOK, LocalsSet
  <2>6. CASE Target(a)
    BY <1>0, <2>6 DEF Target, AppliesPlan
  <2> QED
    BY <1>2, <2>1, <2>2, <2>3, <2>4, <2>5, <2>6
       DEF Progress, Merge, CheckoutBranch, Interrupted, Bail
<1>3. ASSUME NEW b \in Actor, b # a,
             \/ Progress(b)
             \/ \E o \in {"fetch", "preview", "apply"}, what \in Subject : Acquire(b, o, what)
      PROVE  subject'[a] = Upstream
  <2>1. CASE Running(a)
    BY <1>1, <1>3, <2>1, OthersExcluded
  <2>2. CASE ~Running(a)
    <3>1. pc'[a] = pc[a]
      BY <1>0, <1>3 DEF Progress, Acquire, Identity, ReadStatus, ReadRefs, ReadOperation, Tracking,
                    Fetch, Target, Merge, CheckoutBranch, Interrupted, Bail, Forget, Goto,
                    FirstSnapshot, SecondSnapshot, Revalidation, Show
    <3> QED
      BY <2>2, <3>1 DEF Running
  <2> QED
    BY <2>1, <2>2
<1>4. CASE \E o \in {"fetch", "preview", "apply"}, what \in Subject : Acquire(a, o, what)
  BY <1>0, <1>4 DEF Acquire, Goto
<1>5. CASE User \/ ServerStep \/ UNCHANGED vars
  BY <1>1, <1>5 DEF User, UserMove, UserSwitch, UserBranch, UserEdit, UserConfig, UserFetch,
     UserStep, ServerStep, vars, actors
<1> QED
  BY <1>2, <1>3, <1>4, <1>5 DEF Next

LEMMA OwnCommand ==
  ASSUME TypeOK, TypeOK', AppliesPlan, NEW a \in Actor, Running(a), Progress(a)
  PROVE  CommandsLeft(a)' < CommandsLeft(a)
<1> USE NamesAssumption
<1>0. /\ pc \in [Actor -> Label] /\ pc' \in [Actor -> Label]
      /\ op[a] \in {"fetch", "preview", "apply"} /\ plan \in [Actor -> Plan \cup {NoValue}]
  BY DEF TypeOK, ActorsType
<1>1. CommandsLeft(a) > 0 /\ CommandsLeft(a) \in Nat
  BY <1>0 DEF CommandsLeft, Running, Label
<1>2. ASSUME Forget(a) PROVE CommandsLeft(a)' < CommandsLeft(a)
  <2>1. pc'[a] = "idle"
    BY <1>0, <1>2 DEF Forget
  <2>2. CommandsLeft(a)' = 0
    BY <2>1 DEF CommandsLeft
  <2> QED
    BY <1>1, <2>2
<1>3. ASSUME NEW p, Show(a, p) PROVE CommandsLeft(a)' < CommandsLeft(a)
  <2>1. pc'[a] = "shown"
    BY <1>0, <1>3 DEF Show
  <2>2. CommandsLeft(a)' = 0
    BY <2>1 DEF CommandsLeft
  <2> QED
    BY <1>1, <2>2
<1>4. CASE Identity(a)
  <2>1. pc[a] = "identity" /\ pc'[a] \in {"fetch", "status"}
    BY <1>0, <1>4 DEF Identity, Goto
  <2> QED
    BY <2>1 DEF CommandsLeft
<1>5. CASE ReadStatus(a)
  <2>1. pc[a] = "status" /\ pc'[a] = "refs" /\ Second(a)' = Second(a)
    BY <1>0, <1>5 DEF ReadStatus, Goto, Second
  <2> QED
    BY <2>1 DEF CommandsLeft
<1>6. CASE ReadRefs(a)
  <2>1. pc[a] = "refs" /\ pc'[a] = "operation" /\ Second(a)' = Second(a)
    BY <1>0, <1>6 DEF ReadRefs, Goto, Second
  <2> QED
    BY <2>1 DEF CommandsLeft
<1>7. CASE ReadOperation(a)
  <2> DEFINE s == [snap[a] EXCEPT !.operation = operation]
  <2>1. pc[a] = "operation" /\ subject' = subject
    BY <1>7 DEF ReadOperation
  <2>2. CASE FirstSnapshot(a, s)
    <3>1. ~Second(a) /\ pc'[a] \in {"tracking", "fetch"}
      BY <1>0, <2>2 DEF FirstSnapshot, Goto, Second
    <3> QED
      BY <2>1, <3>1 DEF CommandsLeft
  <2>3. CASE SecondSnapshot(a, s)
    <3>1. CASE subject[a] = Upstream
      <4>1. Second(a) /\ pc'[a] = "target"
        BY <1>0, <2>3, <3>1 DEF SecondSnapshot, Goto, Second
      <4> QED
        BY <2>1, <3>1, <4>1 DEF CommandsLeft
    <3>2. CASE subject[a] # Upstream
      BY <1>3, <2>3, <3>2 DEF SecondSnapshot
    <3> QED
      BY <3>1, <3>2
  <2>4. CASE Revalidation(a, s)
    <3>1. ~Second(a) /\ pc'[a] \in {"tracking", "act"}
      BY <1>0, <2>4 DEF Revalidation, Goto, Second
    <3> QED
      BY <2>1, <3>1 DEF CommandsLeft
  <2> QED
    BY <1>7, <2>2, <2>3, <2>4 DEF ReadOperation
<1>8. CASE Tracking(a)
  <2>1. pc[a] = "tracking" /\ subject' = subject /\ pc'[a] \in {"fetch", "target"}
    BY <1>0, <1>8 DEF Tracking, Goto
  <2> QED
    BY <2>1 DEF CommandsLeft
<1>9. CASE Fetch(a)
  <2>1. CASE op[a] = "fetch"
    BY <1>2, <1>9, <2>1 DEF Fetch
  <2>2. CASE op[a] # "fetch"
    <3>1. /\ pc[a] = "fetch" /\ pc'[a] \in {"status", "target"}
          /\ UNCHANGED <<op, subject, plan>>
      BY <1>0, <1>9, <2>2 DEF Fetch, Goto
    <3>2. Second(a)'
      BY <2>2, <3>1, <1>0 DEF TypeOK, LocalsSet, Second
    <3> QED
      BY <3>1, <3>2 DEF CommandsLeft
  <2> QED
    BY <2>1, <2>2
<1>10. CASE Target(a)
  <2>1. pc[a] = "target" /\ UNCHANGED <<op, subject>>
    BY <1>10 DEF Target
  <2>2. CASE subject[a] = Upstream
    <3>1. CASE op[a] = "preview"
      BY <1>3, <1>10, <2>2, <3>1 DEF Target
    <3>2. CASE op[a] # "preview"
      <4>1. pc'[a] = "act"
        BY <1>0, <1>10, <2>2, <3>2 DEF Target, Goto
      <4> QED
        BY <2>1, <2>2, <4>1 DEF CommandsLeft
    <3> QED
      BY <3>1, <3>2
  <2>3. CASE subject[a] # Upstream
    <3>1. pc'[a] = "status" /\ plan' = [plan EXCEPT ![a].target = fetchHead.commit]
      BY <1>0, <1>10, <2>3 DEF Target, Goto
    <3>2. op[a] # "fetch"
      BY <2>1 DEF TypeOK, LocalsSet
    <3>3. plan[a] \in Plan
      BY <1>0, <2>1, <3>2 DEF TypeOK, LocalsSet
    <3>4. fetchHead.commit \in Commit
      BY DEF TypeOK, CheckoutType
    <3>5. plan'[a] \in Plan
      BY <1>0, <3>1, <3>3, <3>4 DEF Plan
    <3>6. plan'[a] # NoValue
      BY <3>5, UnsetAssumption
    <3>7. CASE op[a] = "preview"
      BY <2>1, <2>3, <3>1, <3>6, <3>7 DEF CommandsLeft, Second
    <3>8. CASE op[a] = "apply"
      BY <2>1, <2>3, <3>8 DEF AppliesPlan
    <3> QED
      BY <1>0, <3>2, <3>7, <3>8
  <2> QED
    BY <2>2, <2>3
<1>11. CASE Merge(a) \/ CheckoutBranch(a) \/ Interrupted(a) \/ Bail(a)
  BY <1>2, <1>11 DEF Merge, CheckoutBranch, Interrupted, Bail
<1> QED
  BY <1>4, <1>5, <1>6, <1>7, <1>8, <1>9, <1>10, <1>11 DEF Progress

LEMMA CommandsStep ==
  ASSUME TypeOK, TypeOK', AppliesPlan, OneAtATime, [Next]_vars, NEW a \in Actor, Running(a)
  PROVE  /\ CommandsLeft(a)' <= CommandsLeft(a)
         /\ Progress(a) => CommandsLeft(a)' < CommandsLeft(a)
<1>1. CommandsLeft(a) \in Nat /\ CommandsLeft(a)' \in Nat
  BY DEF CommandsLeft
<1>2. ASSUME Progress(a)
      PROVE  CommandsLeft(a)' < CommandsLeft(a) /\ CommandsLeft(a)' <= CommandsLeft(a)
  <2>1. CommandsLeft(a)' < CommandsLeft(a)
    BY <1>2, OwnCommand
  <2> QED
    BY <1>1, <2>1
<1>3. ASSUME pc'[a] = pc[a] /\ op'[a] = op[a] /\ subject'[a] = subject[a] /\ plan'[a] = plan[a]
      PROVE  CommandsLeft(a)' = CommandsLeft(a)
  BY <1>3 DEF CommandsLeft, Second
<1>4. ASSUME NEW b \in Actor, b # a,
             \/ Progress(b)
             \/ \E o \in {"fetch", "preview", "apply"}, what \in Subject : Acquire(b, o, what)
      PROVE  CommandsLeft(a)' = CommandsLeft(a)
  BY <1>3, <1>4, OthersExcluded
<1>5. ~ \E o \in {"fetch", "preview", "apply"}, what \in Subject : Acquire(a, o, what)
  BY DEF Acquire, Running
<1>6. ASSUME User \/ ServerStep \/ UNCHANGED vars
      PROVE  CommandsLeft(a)' = CommandsLeft(a)
  <2>1. UNCHANGED <<pc, op, subject, plan>>
    BY <1>6 DEF User, UserMove, UserSwitch, UserBranch, UserEdit, UserConfig, UserFetch,
       UserStep, ServerStep, vars, actors
  <2> QED
    BY <1>3, <2>1
<1>7. \/ Progress(a) \/ User \/ ServerStep \/ UNCHANGED vars
      \/ \E o \in {"fetch", "preview", "apply"}, what \in Subject : Acquire(a, o, what)
      \/ \E b \in Actor \ {a} :
           \/ Progress(b)
           \/ \E o \in {"fetch", "preview", "apply"}, what \in Subject : Acquire(b, o, what)
  BY DEF Next
<1>8. CommandsLeft(a)' <= CommandsLeft(a)
  <2>1. CommandsLeft(a)' = CommandsLeft(a) => CommandsLeft(a)' <= CommandsLeft(a)
    BY <1>1
  <2> QED
    BY <1>2, <1>4, <1>5, <1>6, <1>7, <2>1
<1> QED
  BY <1>2, <1>8

\* However the checkout is disturbed, an operation runs out of commands: with the
\* fairness that LockComesFree assumes, it gives back the lock.
THEOREM OperationsAreBounded == Spec => CommandsRunOut
<1>1. Init => AppliesPlan
  BY DEF Init, AppliesPlan
<1>2. TypeOK /\ OneAtATime /\ AppliesPlan /\ [Next]_vars => AppliesPlan'
  BY AppliesPlanStep
<1>3. TypeOK /\ TypeOK' /\ OneAtATime /\ AppliesPlan /\ [Next]_vars =>
        [\A a \in Actor : Running(a) =>
           /\ CommandsLeft(a)' <= CommandsLeft(a)
           /\ Progress(a) => CommandsLeft(a)' < CommandsLeft(a)]_vars
  BY CommandsStep
<1> QED
  BY <1>1, <1>2, <1>3, TypeCorrect, Exclusion, PTL DEF Spec, CommandsRunOut
=============================================================================
