---------------------------- MODULE PollerProofs ----------------------------
(***************************************************************************)
(* Theorems about Poller for any rows, permits, caps and changes.  That no *)
(* flag sticks and no polls overlap does not depend on deadlines: what is  *)
(* known of a row there is its flags.  Its deadlines, and the permits, are *)
(* the subject of the last section.                                        *)
(***************************************************************************)
EXTENDS Poller, FiniteSetTheorems, TLAPS

-----------------------------------------------------------------------------
(* Kinds of the variables, as far as the theorems need them. *)

\* A RowState of which only the busy flags are said.
RowShape(row) == DOMAIN row = {"busy", "wait", "failures"} /\ row.busy \subseteq Kind

TasksType ==
  /\ waiting \in [Poll -> Nat]
  /\ running \in [Poll -> Nat]
  /\ answered \in [Poll -> Nat]

RowsType == rows = [r \in Shown |-> rows[r]] /\ \A r \in Shown : RowShape(rows[r])

Kinds == TasksType /\ RowsType /\ Shown \subseteq Repo

LEMMA FreshShape == RowShape(Fresh) /\ Fresh.busy = {}
BY DEF RowShape, Fresh

\* A message takes down the flag of its kind and no other.
LEMMA AnsweredShape ==
  ASSUME NEW row, RowShape(row), NEW k \in Kind, NEW failed \in BOOLEAN
  PROVE  RowShape(Answered(row, k, failed)) /\ Answered(row, k, failed).busy = row.busy \ {k}
<1>1. CASE k = "local"
  BY <1>1 DEF Answered, RowShape
<1>2. CASE k # "local"
  <2> DEFINE n == NextFailureCount(row.failures[k], failed)
             a == [row EXCEPT !.busy = @ \ {k}, !.failures[k] = n, !.wait[k] = RemoteBackoff(n)]
  <2>1. Answered(row, k, failed) = a
    BY <1>2 DEF Answered
  <2> HIDE DEF n
  <2>2. DOMAIN a = {"busy", "wait", "failures"} /\ a.busy = row.busy \ {k}
    BY DEF RowShape
  <2> QED
    BY <2>1, <2>2 DEF RowShape
<1> QED
  BY <1>1, <1>2

LEMMA StartingKinds == \A r : Starting(r) \subseteq Kind
BY DEF Starting

-----------------------------------------------------------------------------
(* What each step does to the flags of the rows and to the tasks. *)

\* The step leaves the flags of every row it keeps, and new rows have none up.
KeepsFlags ==
  \A r \in Shown' : RowShape(rows'[r]) /\
    rows'[r].busy = IF r \in Shown THEN rows[r].busy ELSE {}

\* The step moves a poll from one place to the next, or leaves all in place.
KeepsTasks ==
  \A w \in Poll : Outstanding(w)' = Outstanding(w)

Restarting ==
  /\ Shown' = Shown
  /\ \A r \in Shown : RowShape(rows'[r]) /\ rows'[r].busy = rows[r].busy \cup Starting(r)
  /\ \A w \in Poll :
       Outstanding(w)' = IF w[1] \in Shown /\ w[2] \in Starting(w[1])
                         THEN Outstanding(w) + 1 ELSE Outstanding(w)
  /\ UNCHANGED returned

Answering(w) ==
  /\ Shown' = Shown
  /\ \A r \in Shown : RowShape(rows'[r]) /\
       rows'[r].busy = IF r = w[1] THEN rows[r].busy \ {w[2]} ELSE rows[r].busy
  /\ Outstanding(w) > 0 /\ Outstanding(w)' = Outstanding(w) - 1
  /\ \A v \in Poll \ {w} : Outstanding(v)' = Outstanding(v)
  /\ UNCHANGED returned

\* A row appears only with nothing of its id under way, or is remembered.
Remembering ==
  /\ returned \subseteq returned'
  /\ \A w \in Poll : w[1] \in Shown' \ Shown /\ Outstanding(w) > 0 => w[1] \in returned'

Quiet == KeepsFlags /\ KeepsTasks /\ Remembering

LEMMA ScheduleStep == Kinds /\ Schedule => Kinds' /\ Restarting
<1> SUFFICES ASSUME Kinds, Schedule PROVE Kinds' /\ Restarting
  OBVIOUS
<1>1. rows' = [r \in Shown |-> [rows[r] EXCEPT !.busy = @ \cup Starting(r)]]
  BY DEF Schedule
<1>2. Shown' = Shown
  BY <1>1 DEF Shown
<1>3. ASSUME NEW r \in Shown
      PROVE  RowShape(rows'[r]) /\ rows'[r].busy = rows[r].busy \cup Starting(r)
  <2>1. rows'[r] = [rows[r] EXCEPT !.busy = @ \cup Starting(r)]
    BY <1>1
  <2>2. RowShape(rows[r])
    BY DEF Kinds, RowsType
  <2> QED
    BY <2>1, <2>2, StartingKinds DEF RowShape
<1>4. waiting' = [w \in Poll |-> IF w[1] \in Shown /\ w[2] \in Starting(w[1])
                                 THEN waiting[w] + 1 ELSE waiting[w]]
  BY DEF Schedule
<1>5. running' = running /\ answered' = answered /\ returned' = returned
  BY DEF Schedule
<1>6. TasksType'
  BY <1>4, <1>5 DEF Kinds, TasksType
<1>7. ASSUME NEW w \in Poll
      PROVE  Outstanding(w)' = IF w[1] \in Shown /\ w[2] \in Starting(w[1])
                               THEN Outstanding(w) + 1 ELSE Outstanding(w)
  BY <1>4, <1>5 DEF Kinds, TasksType, Outstanding
<1>8. Kinds'
  BY <1>1, <1>2, <1>3, <1>6 DEF Kinds, RowsType
<1> QED
  BY <1>2, <1>3, <1>5, <1>7, <1>8 DEF Restarting

LEMMA HandleStep ==
  ASSUME NEW w \in Poll, NEW failed \in BOOLEAN
  PROVE  Kinds /\ Handle(w, failed) => Kinds' /\ Answering(w)
<1> SUFFICES ASSUME Kinds, Handle(w, failed) PROVE Kinds' /\ Answering(w)
  OBVIOUS
<1>1. rows' = [r \in Shown |-> IF r = w[1] THEN Answered(rows[r], w[2], failed) ELSE rows[r]]
  BY DEF Handle
<1>2. Shown' = Shown
  BY <1>1 DEF Shown
<1>3. w[2] \in Kind
  BY DEF Poll
<1>4. ASSUME NEW r \in Shown
      PROVE  RowShape(rows'[r]) /\
             rows'[r].busy = IF r = w[1] THEN rows[r].busy \ {w[2]} ELSE rows[r].busy
  <2>1. RowShape(rows[r])
    BY DEF Kinds, RowsType
  <2>2. CASE r = w[1]
    BY <1>1, <1>3, <2>1, <2>2, AnsweredShape
  <2>3. CASE r # w[1]
    BY <1>1, <2>1, <2>3
  <2> QED
    BY <2>2, <2>3
<1>5. /\ answered' = [answered EXCEPT ![w] = @ - 1] /\ answered[w] > 0
      /\ waiting' = waiting /\ running' = running /\ returned' = returned
  BY DEF Handle
<1>6. TasksType'
  BY <1>5 DEF Kinds, TasksType
<1>7. /\ Outstanding(w) > 0 /\ Outstanding(w)' = Outstanding(w) - 1
      /\ \A v \in Poll \ {w} : Outstanding(v)' = Outstanding(v)
  BY <1>5 DEF Kinds, TasksType, Outstanding
<1>8. Kinds'
  BY <1>1, <1>2, <1>4, <1>6 DEF Kinds, RowsType
<1> QED
  BY <1>2, <1>4, <1>5, <1>7, <1>8 DEF Answering

LEMMA ReloadStep ==
  ASSUME PollerAssumption
  PROVE  Kinds /\ Reload => Kinds' /\ Quiet
<1> SUFFICES ASSUME Kinds, Reload PROVE Kinds' /\ Quiet
  OBVIOUS
<1>1. PICK registered \in Registries : ReloadRegistry(registered)
  BY DEF Reload
<1>2. rows' = [r \in registered |-> IF r \in Shown THEN rows[r] ELSE Fresh]
  BY <1>1 DEF ReloadRegistry
<1>3. Shown' = registered
  BY <1>2 DEF Shown
<1>4. KeepsFlags
  BY <1>2, <1>3, FreshShape DEF KeepsFlags, Kinds, RowsType
<1>5. waiting' = waiting /\ running' = running /\ answered' = answered
  BY <1>1 DEF ReloadRegistry, tasks
<1>6. KeepsTasks
  BY <1>5 DEF KeepsTasks, Outstanding
<1>7. Remembering
  <2>1. returned' = returned \cup
          {r \in registered \ Shown : \E k \in Kind : <<r, k>> \in Poll /\ Outstanding(<<r, k>>) > 0}
    BY <1>1 DEF ReloadRegistry
  <2>2. ASSUME NEW w \in Poll, w[1] \in registered \ Shown, Outstanding(w) > 0
        PROVE  w[1] \in returned'
    <3>1. w = <<w[1], w[2]>> /\ w[2] \in Kind
      BY DEF Poll
    <3> QED
      BY <2>1, <2>2, <3>1
  <2> QED
    BY <1>3, <2>1, <2>2 DEF Remembering
<1>8. Kinds'
  <2>1. registered \subseteq Repo
    BY PollerAssumption
  <2> QED
    BY <1>2, <1>3, <1>4, <1>5, <2>1 DEF Kinds, RowsType, TasksType, KeepsFlags
<1> QED
  BY <1>4, <1>6, <1>7, <1>8 DEF Quiet

\* The other steps: the message of a fetch, removals, the clock and the tasks.
LEMMA QuietStep ==
  ASSUME Kinds,
         \/ \E r \in Repo : Fetched(r)
         \/ Drained \/ Remove \/ FiveSeconds \/ Minute
         \/ \E w \in Poll : Acquire(w) \/ Finish(w)
         \/ UNCHANGED vars
  PROVE  Kinds' /\ Quiet
<1>1. CASE \E r \in Repo : Fetched(r)
  <2>1. PICK q \in Repo : Fetched(q)
    BY <1>1
  <2>2. rows' = [r \in Shown |-> IF r = q THEN [rows[r] EXCEPT !.wait["remote"] = 0] ELSE rows[r]]
    BY <2>1 DEF Fetched
  <2>3. Shown' = Shown
    BY <2>2 DEF Shown
  <2>4. ASSUME NEW r \in Shown PROVE RowShape(rows'[r]) /\ rows'[r].busy = rows[r].busy
    BY <2>2 DEF Kinds, RowsType, RowShape
  <2>5. /\ waiting' = waiting /\ running' = running /\ answered' = answered
        /\ returned' = returned
    BY <2>1 DEF Fetched, tasks
  <2> QED
    BY <2>2, <2>3, <2>4, <2>5
       DEF Kinds, RowsType, TasksType, Quiet, KeepsFlags, KeepsTasks, Remembering, Outstanding
<1>2. CASE Minute
  <2>1. rows' = [r \in Shown |->
          [rows[r] EXCEPT !.wait = [k \in Backed |-> IF @[k] > 0 THEN @[k] - 1 ELSE 0]]]
    BY <1>2 DEF Minute
  <2>2. Shown' = Shown
    BY <2>1 DEF Shown
  <2>3. ASSUME NEW r \in Shown PROVE RowShape(rows'[r]) /\ rows'[r].busy = rows[r].busy
    <3> DEFINE w == [k \in Backed |-> IF rows[r].wait[k] > 0 THEN rows[r].wait[k] - 1 ELSE 0]
    <3>1. rows'[r] = [rows[r] EXCEPT !.wait = w]
      BY <2>1
    <3> HIDE DEF w
    <3> QED
      BY <3>1 DEF Kinds, RowsType, RowShape
  <2>4. /\ waiting' = waiting /\ running' = running /\ answered' = answered
        /\ returned' = returned
    BY <1>2 DEF Minute, tasks
  <2> QED
    BY <2>1, <2>2, <2>3, <2>4
       DEF Kinds, RowsType, TasksType, Quiet, KeepsFlags, KeepsTasks, Remembering, Outstanding
<1>3. CASE Remove
  <2>1. PICK q \in Shown : rows' = [r \in Shown \ {q} |-> rows[r]]
    BY <1>3 DEF Remove
  <2>2. Shown' = Shown \ {q}
    BY <2>1 DEF Shown
  <2>3. /\ waiting' = waiting /\ running' = running /\ answered' = answered
        /\ returned' = returned
    BY <1>3 DEF Remove, tasks
  <2> QED
    BY <2>1, <2>2, <2>3
       DEF Kinds, RowsType, TasksType, Quiet, KeepsFlags, KeepsTasks, Remembering, Outstanding
<1>4. CASE Drained \/ FiveSeconds \/ UNCHANGED vars
  <2>1. /\ waiting' = waiting /\ running' = running /\ answered' = answered
        /\ returned' = returned /\ rows' = rows
    BY <1>4 DEF Drained, FiveSeconds, vars, tasks
  <2> QED
    BY <2>1 DEF Shown, Kinds, RowsType, TasksType, Quiet, KeepsFlags, KeepsTasks,
                Remembering, Outstanding
<1>5. CASE \E w \in Poll : Acquire(w) \/ Finish(w)
  <2>1. rows' = rows /\ returned' = returned
    BY <1>5 DEF Acquire, Finish
  <2>2. TasksType' /\ KeepsTasks
    BY <1>5 DEF Acquire, Finish, Kinds, TasksType, KeepsTasks, Outstanding
  <2> QED
    BY <2>1, <2>2 DEF Shown, Kinds, RowsType, Quiet, KeepsFlags, Remembering
<1> QED
  BY <1>1, <1>2, <1>3, <1>4, <1>5

-----------------------------------------------------------------------------
(* The two safety properties together. *)

\* A poll of a row that never came back is alone, and its flag is up.
Alone(w) ==
  w[1] \notin returned =>
    /\ Outstanding(w) <= 1
    /\ w[1] \in Shown /\ ~Busy(w) => Outstanding(w) = 0

PollsInv == Kinds /\ \A w \in Poll : (Busy(w) => Outstanding(w) > 0) /\ Alone(w)

LEMMA OutstandingType == Kinds => \A w \in Poll : Outstanding(w) \in Nat
BY DEF Kinds, TasksType, Outstanding

LEMMA InitPolls == ASSUME PollerAssumption PROVE Init => PollsInv
<1> SUFFICES ASSUME Init PROVE PollsInv
  OBVIOUS
<1>1. PICK registered \in Registries : rows = [r \in registered |-> Fresh]
  BY DEF Init
<1>2. Shown = registered /\ registered \subseteq Repo
  BY <1>1, PollerAssumption DEF Shown
<1>3. \A w \in Poll : Outstanding(w) = 0
  BY DEF Init, Outstanding
<1>4. Kinds
  BY <1>1, <1>2, FreshShape DEF Kinds, RowsType, TasksType, Init
<1>5. \A w : ~Busy(w)
  BY <1>1, <1>2, FreshShape DEF Busy
<1> QED
  BY <1>3, <1>4, <1>5 DEF PollsInv, Alone

LEMMA PollsStep == ASSUME PollerAssumption PROVE PollsInv /\ [Next]_vars => PollsInv'
<1> SUFFICES ASSUME PollsInv, [Next]_vars PROVE PollsInv'
  OBVIOUS
<1>1. Kinds
  BY DEF PollsInv
<1>2. \A w \in Poll : Outstanding(w) \in Nat
  BY <1>1, OutstandingType
<1>3. ASSUME Schedule PROVE PollsInv'
  <2>1. Kinds' /\ Restarting
    BY <1>1, <1>3, ScheduleStep
  <2>2. ASSUME NEW w \in Poll PROVE ((Busy(w) => Outstanding(w) > 0) /\ Alone(w))'
    <3>1. Shown' = Shown /\ returned' = returned
      BY <2>1 DEF Restarting
    <3>2. w[1] \in Shown => rows'[w[1]].busy = rows[w[1]].busy \cup Starting(w[1])
      BY <2>1 DEF Restarting
    <3>3. Outstanding(w) \in Nat /\ (Busy(w) => Outstanding(w) > 0) /\ Alone(w)
      BY <1>2 DEF PollsInv
    <3>4. CASE w[1] \in Shown /\ w[2] \in Starting(w[1])
      <4>1. ~Busy(w) /\ Busy(w)'
        BY <3>1, <3>2, <3>4 DEF Busy, Starting
      <4>2. Outstanding(w)' = Outstanding(w) + 1
        BY <2>1, <3>4 DEF Restarting
      <4> QED
        BY <3>1, <3>3, <3>4, <4>1, <4>2 DEF Alone
    <3>5. CASE ~(w[1] \in Shown /\ w[2] \in Starting(w[1]))
      <4>1. Busy(w)' = Busy(w)
        BY <3>1, <3>2, <3>5 DEF Busy
      <4>2. Outstanding(w)' = Outstanding(w)
        BY <2>1, <3>5 DEF Restarting
      <4> QED
        BY <3>1, <3>3, <4>1, <4>2 DEF Alone
    <3> QED
      BY <3>4, <3>5
  <2> QED
    BY <2>1, <2>2 DEF PollsInv
<1>4. ASSUME NEW v \in Poll, NEW failed \in BOOLEAN, Handle(v, failed) PROVE PollsInv'
  <2>1. Kinds' /\ Answering(v)
    BY <1>1, <1>4, HandleStep
  <2>3. ASSUME NEW w \in Poll PROVE ((Busy(w) => Outstanding(w) > 0) /\ Alone(w))'
    <3>1. CASE w = v
      <4>1. /\ Shown' = Shown /\ returned' = returned
            /\ w[1] \in Shown => rows'[w[1]].busy = rows[w[1]].busy \ {w[2]}
            /\ Outstanding(w) > 0 /\ Outstanding(w)' = Outstanding(w) - 1
        BY <2>1, <3>1 DEF Answering
      <4>2. ~Busy(w)'
        BY <4>1 DEF Busy
      <4>3. Outstanding(w) \in Nat /\ Alone(w)
        BY <1>2 DEF PollsInv
      <4> QED
        BY <4>1, <4>2, <4>3 DEF Alone
    <3>2. CASE w # v
      <4>1. w = <<w[1], w[2]>> /\ v = <<v[1], v[2]>>
        BY DEF Poll
      <4>2. Busy(w)' = Busy(w)
        BY <2>1, <3>2, <4>1 DEF Answering, Busy
      <4>3. Outstanding(w)' = Outstanding(w) /\ returned' = returned /\ Shown' = Shown
        BY <2>1, <3>2 DEF Answering
      <4> QED
        BY <4>2, <4>3 DEF PollsInv, Alone
    <3> QED
      BY <3>1, <3>2
  <2> QED
    BY <2>1, <2>3 DEF PollsInv
<1>5. ASSUME Kinds' /\ Quiet PROVE PollsInv'
  <2>1. ASSUME NEW w \in Poll PROVE ((Busy(w) => Outstanding(w) > 0) /\ Alone(w))'
    BY <1>2, <1>5 DEF PollsInv, Quiet, KeepsFlags, KeepsTasks, Remembering, Busy, Alone
  <2> QED
    BY <1>5, <2>1 DEF PollsInv
<1> QED
  BY <1>1, <1>3, <1>4, <1>5, ReloadStep, QuietStep DEF Next

\* A busy flag is up only while somebody will take it down, and a poll of a row
\* that never came back is alone.
THEOREM PollsCorrect == Spec => []PollsInv
<1>1. Init => PollsInv
  BY PollerAssumption, InitPolls
<1>2. PollsInv /\ [Next]_vars => PollsInv'
  BY PollerAssumption, PollsStep
<1> QED
  BY <1>1, <1>2, PTL DEF Spec

\* No row's monitoring ends because its busy flag stays up: event_loop's
\* handlers take down what its scheduler put up, also for rows that came back.
THEOREM FlagsComeDown == Spec => []NeverStuck
<1>1. PollsInv => NeverStuck
  BY DEF PollsInv, NeverStuck
<1> QED
  BY <1>1, PollsCorrect, PTL

\* One poll of a kind at a time for a row that did not come back.
THEOREM OnePollAtATime == Spec => []PollsDoNotOverlap
<1>1. PollsInv => PollsDoNotOverlap
  BY DEF PollsInv, Alone, PollsDoNotOverlap
<1> QED
  BY <1>1, PollsCorrect, PTL

-----------------------------------------------------------------------------
(* Kinds and bounds: the back-off and the permits. *)

\* Powers of two count the subsets of an interval, and a longer one has more.
LEMMA BackoffGrows ==
  ASSUME NEW n \in Nat, NEW m \in Nat, n <= m
  PROVE  RemoteBackoff(n) \in 0 .. RemoteBackoff(m) /\ RemoteBackoff(m) \in Nat
<1> DEFINE Sets(k) == SUBSET (1 .. k)
<1>1. ASSUME NEW k \in Nat PROVE IsFiniteSet(Sets(k)) /\ Cardinality(Sets(k)) = RemoteBackoff(k)
  <2>1. IsFiniteSet(1 .. k) /\ Cardinality(1 .. k) = k
    BY FS_Interval
  <2> QED
    BY <2>1, FS_SUBSET DEF RemoteBackoff
<1>2. Sets(n) \subseteq Sets(m)
  <2>1. 1 .. n \subseteq 1 .. m
    OBVIOUS
  <2> QED
    BY <2>1
<1>3. /\ Cardinality(Sets(n)) <= Cardinality(Sets(m))
      /\ Cardinality(Sets(n)) \in Nat /\ Cardinality(Sets(m)) \in Nat
  BY <1>1, <1>2, FS_Subset, FS_CardinalityType
<1>4. Cardinality(Sets(n)) = RemoteBackoff(n) /\ Cardinality(Sets(m)) = RemoteBackoff(m)
  BY <1>1
<1> HIDE DEF Sets
<1> QED
  BY <1>3, <1>4

LEMMA FreshIsRow == ASSUME PollerAssumption PROVE Fresh \in RowState
<1>1. 0 \in 0 .. RemoteBackoff(FailureCap) /\ 0 \in 0 .. FailureCap
  BY BackoffGrows DEF PollerAssumption
<1>2. [k \in Backed |-> 0] \in [Backed -> 0 .. RemoteBackoff(FailureCap)]
      /\ [k \in Backed |-> 0] \in [Backed -> 0 .. FailureCap]
  BY <1>1
<1> QED
  BY <1>2 DEF Fresh, RowState

\* A message leaves its row with deadlines and counts within their bounds.
LEMMA AnsweredIsRow ==
  ASSUME PollerAssumption, NEW row \in RowState, NEW k \in Kind, NEW failed \in BOOLEAN
  PROVE  Answered(row, k, failed) \in RowState
<1>1. CASE k = "local"
  BY <1>1 DEF Answered, RowState
<1>2. CASE k # "local"
  <2> DEFINE n == NextFailureCount(row.failures[k], failed)
             d == RemoteBackoff(n)
  <2>1. k \in Backed
    BY <1>2 DEF Kind, Backed
  <2>2. n \in 0 .. FailureCap
    BY <2>1 DEF NextFailureCount, RowState, PollerAssumption
  <2>3. d \in 0 .. RemoteBackoff(FailureCap)
    BY <2>2, BackoffGrows DEF PollerAssumption
  <2>4. Answered(row, k, failed) = [row EXCEPT !.busy = @ \ {k}, !.failures[k] = n, !.wait[k] = d]
    BY <1>2 DEF Answered
  <2>5. [row.failures EXCEPT ![k] = n] \in [Backed -> 0 .. FailureCap]
    BY <2>1, <2>2 DEF RowState
  <2>6. [row.wait EXCEPT ![k] = d] \in [Backed -> 0 .. RemoteBackoff(FailureCap)]
    BY <2>1, <2>3 DEF RowState
  <2> HIDE DEF n, d
  <2>7. Answered(row, k, failed) =
          [row EXCEPT !.busy = @ \ {k}, !.failures = [row.failures EXCEPT ![k] = n],
                      !.wait = [row.wait EXCEPT ![k] = d]]
    BY <2>4 DEF RowState
  <2> QED
    BY <2>5, <2>6, <2>7 DEF RowState
<1> QED
  BY <1>1, <1>2

\* The runs of polls, each of which holds a permit.
Runs(n) == {v \in Poll \X (Nat \ {0}) : v[2] <= n[v[1]]}

\* Permits are neither lost nor invented: those that are not free are held.
PermitsAccounted ==
  IsFiniteSet(Runs(running)) /\ permits + Cardinality(Runs(running)) = Permits

KindsInv == TypeOK /\ PermitsAccounted

LEMMA OneRunMore ==
  ASSUME NEW n \in [Poll -> Nat], NEW w \in Poll, IsFiniteSet(Runs(n))
  PROVE  /\ IsFiniteSet(Runs([n EXCEPT ![w] = @ + 1]))
         /\ Cardinality(Runs([n EXCEPT ![w] = @ + 1])) = Cardinality(Runs(n)) + 1
<1> DEFINE run == <<w, n[w] + 1>>
           m   == [n EXCEPT ![w] = @ + 1]
<1>1. ASSUME NEW v \in Poll \X (Nat \ {0})
      PROVE  v \in Runs(m) <=> v \in Runs(n) \/ v = run
  <2>1. CASE v[1] = w
    <3>1. m[v[1]] = n[w] + 1 /\ n[w] \in Nat /\ v[2] \in Nat
      BY <2>1
    <3>2. v[2] <= n[w] + 1 <=> v[2] <= n[w] \/ v[2] = n[w] + 1
      BY <3>1
    <3>3. v = <<w, v[2]>>
      BY <2>1
    <3> QED
      BY <2>1, <3>1, <3>2, <3>3 DEF Runs
  <2>2. CASE v[1] # w
    BY <2>2 DEF Runs
  <2> QED
    BY <2>1, <2>2
<1>2. run \in Poll \X (Nat \ {0}) /\ run \notin Runs(n)
  BY DEF Runs
<1>3. Runs(m) = Runs(n) \cup {run}
  BY <1>1, <1>2 DEF Runs
<1> HIDE DEF run
<1>4. /\ IsFiniteSet(Runs(n) \cup {run})
      /\ Cardinality(Runs(n) \cup {run}) = Cardinality(Runs(n)) + 1
  BY <1>2, FS_AddElement
<1> QED
  BY <1>3, <1>4

LEMMA OneRunLess ==
  ASSUME NEW n \in [Poll -> Nat], NEW w \in Poll, n[w] > 0, IsFiniteSet(Runs(n))
  PROVE  /\ IsFiniteSet(Runs([n EXCEPT ![w] = @ - 1]))
         /\ Cardinality(Runs([n EXCEPT ![w] = @ - 1])) = Cardinality(Runs(n)) - 1
         /\ Cardinality(Runs(n)) > 0
<1> DEFINE m == [n EXCEPT ![w] = @ - 1]
<1>1. m \in [Poll -> Nat] /\ n = [m EXCEPT ![w] = @ + 1]
  <2>1. m \in [Poll -> Nat]
    OBVIOUS
  <2>2. ASSUME NEW p \in Poll PROVE n[p] = [m EXCEPT ![w] = @ + 1][p]
    OBVIOUS
  <2> HIDE DEF m
  <2>3. n = [p \in Poll |-> n[p]]
    OBVIOUS
  <2>4. [m EXCEPT ![w] = @ + 1] = [p \in Poll |-> [m EXCEPT ![w] = @ + 1][p]]
    BY <2>1
  <2> QED
    BY <2>1, <2>2, <2>3, <2>4
<1>2. Runs(m) \subseteq Runs(n)
  <2>1. \A p \in Poll : m[p] \in Nat /\ n[p] \in Nat /\ m[p] <= n[p]
    OBVIOUS
  <2> QED
    BY <2>1 DEF Runs
<1>3. IsFiniteSet(Runs(m))
  BY <1>2, FS_Subset
<1>4. Cardinality(Runs(m)) \in Nat /\ Cardinality(Runs(n)) = Cardinality(Runs(m)) + 1
  <2> HIDE DEF m
  <2>1. Cardinality(Runs([m EXCEPT ![w] = @ + 1])) = Cardinality(Runs(m)) + 1
    BY <1>1, <1>3, OneRunMore
  <2> QED
    BY <1>1, <1>3, <2>1, FS_CardinalityType
<1> QED
  BY <1>3, <1>4

LEMMA InitKinds == ASSUME PollerAssumption, Init PROVE KindsInv
<1>1. PICK registered \in Registries : rows = [r \in registered |-> Fresh]
  BY DEF Init
<1>2. Shown = registered /\ registered \subseteq Repo
  BY <1>1 DEF Shown, PollerAssumption
<1>3. rows \in [Shown -> RowState]
  BY <1>1, <1>2, FreshIsRow
<1>4. TypeOK
  BY <1>2, <1>3 DEF Init, TypeOK, PollerAssumption
<1>5. Runs(running) = {}
  BY DEF Init, Runs
<1>6. Permits + 0 = Permits /\ permits = Permits
  BY DEF Init, PollerAssumption
<1> QED
  BY <1>4, <1>5, <1>6, FS_EmptySet DEF KindsInv, PermitsAccounted

LEMMA KindsStep == ASSUME PollerAssumption, KindsInv, [Next]_vars PROVE KindsInv'
<1> USE DEF KindsInv
<1>1. CASE Schedule
  <2>1. rows' = [r \in Shown |-> [rows[r] EXCEPT !.busy = @ \cup Starting(r)]]
    BY <1>1 DEF Schedule
  <2>2. Shown' = Shown
    BY <2>1 DEF Shown
  <2>3. ASSUME NEW r \in Shown PROVE rows'[r] \in RowState
    BY <2>1, StartingKinds DEF TypeOK, RowState
  <2>4. rows' \in [Shown -> RowState]
    BY <2>1, <2>3
  <2>5. waiting' \in [Poll -> Nat]
    BY <1>1 DEF Schedule, TypeOK
  <2>6. UNCHANGED <<permits, running, answered, returned, changes>>
        /\ localDue' = FALSE /\ at' = "messages"
    BY <1>1 DEF Schedule
  <2> QED
    BY <2>2, <2>4, <2>5, <2>6 DEF TypeOK, PermitsAccounted
<1>2. ASSUME NEW w \in Poll, NEW failed \in BOOLEAN, Handle(w, failed) PROVE KindsInv'
  <2>1. rows' = [r \in Shown |-> IF r = w[1] THEN Answered(rows[r], w[2], failed) ELSE rows[r]]
    BY <1>2 DEF Handle
  <2>2. Shown' = Shown
    BY <2>1 DEF Shown
  <2>3. w[2] \in Kind
    BY DEF Poll
  <2>4. \A r \in Shown : rows[r] \in RowState
    BY DEF TypeOK
  <2>5. rows' \in [Shown -> RowState]
    BY <2>1, <2>3, <2>4, AnsweredIsRow
  <2>6. answered' \in [Poll -> Nat]
    BY <1>2 DEF Handle, TypeOK
  <2>7. localDue' \in BOOLEAN
    BY <1>2, Zenon DEF Handle, TypeOK
  <2>8. UNCHANGED <<at, permits, waiting, running, returned, changes>>
    BY <1>2 DEF Handle
  <2> QED
    BY <2>2, <2>5, <2>6, <2>7, <2>8 DEF TypeOK, PermitsAccounted
<1>3. ASSUME NEW q \in Repo, Fetched(q) PROVE KindsInv'
  <2>1. rows' = [r \in Shown |-> IF r = q THEN [rows[r] EXCEPT !.wait["remote"] = 0] ELSE rows[r]]
    BY <1>3 DEF Fetched
  <2>2. Shown' = Shown
    BY <2>1 DEF Shown
  <2>3. 0 \in 0 .. RemoteBackoff(FailureCap)
    BY BackoffGrows DEF PollerAssumption
  <2>4. ASSUME NEW r \in Shown PROVE rows'[r] \in RowState
    BY <2>1, <2>3 DEF TypeOK, RowState
  <2>5. rows' \in [Shown -> RowState]
    BY <2>1, <2>4
  <2>6. UNCHANGED <<at, tasks, returned, changes>> /\ localDue' = TRUE
    BY <1>3 DEF Fetched
  <2> QED
    BY <2>2, <2>5, <2>6 DEF TypeOK, PermitsAccounted, tasks
<1>4. CASE Drained
  BY <1>4 DEF Drained, TypeOK, PermitsAccounted, tasks, Shown
<1>5. CASE Reload
  <2>1. PICK registered \in Registries : ReloadRegistry(registered)
    BY <1>5 DEF Reload
  <2>2. rows' = [r \in registered |-> IF r \in Shown THEN rows[r] ELSE Fresh]
    BY <2>1 DEF ReloadRegistry
  <2>3. Shown' = registered /\ registered \subseteq Repo
    BY <2>2 DEF Shown, PollerAssumption
  <2>4. \A r \in Shown : rows[r] \in RowState
    BY DEF TypeOK
  <2>5. rows' \in [registered -> RowState]
    BY <2>2, <2>4, FreshIsRow
  <2>6. returned' \subseteq Repo
    BY <2>1, <2>3 DEF ReloadRegistry, TypeOK
  <2>7. changes' \in 0 .. MaxChanges
    BY <2>1 DEF ReloadRegistry, TypeOK, PollerAssumption
  <2>8. UNCHANGED <<localDue, tasks, at>>
    BY <1>5, <2>1 DEF Reload, ReloadRegistry
  <2> QED
    BY <2>3, <2>5, <2>6, <2>7, <2>8 DEF TypeOK, PermitsAccounted, tasks
<1>6. CASE Remove
  <2>1. PICK q \in Shown : rows' = [r \in Shown \ {q} |-> rows[r]]
    BY <1>6 DEF Remove
  <2>2. Shown' = Shown \ {q}
    BY <2>1 DEF Shown
  <2>3. rows' \in [Shown \ {q} -> RowState] /\ Shown' \subseteq Repo
    BY <2>1, <2>2 DEF TypeOK
  <2>4. changes' \in 0 .. MaxChanges
    BY <1>6 DEF Remove, TypeOK, PollerAssumption
  <2>5. UNCHANGED <<at, localDue, tasks, returned>>
    BY <1>6 DEF Remove
  <2> QED
    BY <2>2, <2>3, <2>4, <2>5 DEF TypeOK, PermitsAccounted, tasks
<1>7. ASSUME NEW w \in Poll, Acquire(w) PROVE KindsInv'
  <2>1. waiting' \in [Poll -> Nat] /\ running' \in [Poll -> Nat] /\ permits' \in 0 .. Permits
    BY <1>7 DEF Acquire, TypeOK, PollerAssumption
  <2>2. PermitsAccounted'
    <3>1. running' = [running EXCEPT ![w] = @ + 1] /\ permits' = permits - 1
      BY <1>7 DEF Acquire
    <3>2. Cardinality(Runs(running)) \in Nat /\ permits \in Int /\ Permits \in Int
      BY FS_CardinalityType DEF PermitsAccounted, TypeOK, PollerAssumption
    <3>3. /\ IsFiniteSet(Runs(running'))
          /\ Cardinality(Runs(running')) = Cardinality(Runs(running)) + 1
      BY <3>1, OneRunMore DEF PermitsAccounted, TypeOK
    <3> QED
      BY <3>1, <3>2, <3>3 DEF PermitsAccounted
  <2>3. UNCHANGED <<at, rows, localDue, answered, returned, changes>>
    BY <1>7 DEF Acquire
  <2> QED
    BY <2>1, <2>2, <2>3 DEF TypeOK, Shown
<1>8. ASSUME NEW w \in Poll, Finish(w) PROVE KindsInv'
  <2>1. answered' \in [Poll -> Nat] /\ running' \in [Poll -> Nat]
    BY <1>8 DEF Finish, TypeOK
  <2>2. PermitsAccounted' /\ permits' \in 0 .. Permits
    <3>1. running' = [running EXCEPT ![w] = @ - 1] /\ permits' = permits + 1 /\ running[w] > 0
      BY <1>8 DEF Finish
    <3>2. Cardinality(Runs(running)) \in Nat /\ permits \in Nat /\ Permits \in Nat
      BY FS_CardinalityType DEF PermitsAccounted, TypeOK, PollerAssumption
    <3>3. /\ IsFiniteSet(Runs(running'))
          /\ Cardinality(Runs(running')) = Cardinality(Runs(running)) - 1
          /\ Cardinality(Runs(running)) > 0
      BY <3>1, OneRunLess DEF PermitsAccounted, TypeOK
    <3> QED
      BY <3>1, <3>2, <3>3 DEF PermitsAccounted
  <2>3. UNCHANGED <<at, rows, localDue, waiting, returned, changes>>
    BY <1>8 DEF Finish
  <2> QED
    BY <2>1, <2>2, <2>3 DEF TypeOK, Shown
<1>9. CASE FiveSeconds
  BY <1>9 DEF FiveSeconds, TypeOK, PermitsAccounted, tasks, Shown
<1>10. CASE Minute
  <2>1. rows' = [r \in Shown |->
          [rows[r] EXCEPT !.wait = [k \in Backed |-> IF @[k] > 0 THEN @[k] - 1 ELSE 0]]]
    BY <1>10 DEF Minute
  <2>2. Shown' = Shown
    BY <2>1 DEF Shown
  <2>3. ASSUME NEW r \in Shown PROVE rows'[r] \in RowState
    <3> DEFINE w == [k \in Backed |-> IF rows[r].wait[k] > 0 THEN rows[r].wait[k] - 1 ELSE 0]
    <3>1. rows'[r] = [rows[r] EXCEPT !.wait = w]
      BY <2>1
    <3>2. RemoteBackoff(FailureCap) \in Nat
      BY BackoffGrows DEF PollerAssumption
    <3>3. rows[r] \in RowState
      BY DEF TypeOK
    <3>4. w \in [Backed -> 0 .. RemoteBackoff(FailureCap)]
      BY <3>2, <3>3 DEF RowState
    <3> HIDE DEF w
    <3> QED
      BY <3>1, <3>3, <3>4 DEF RowState
  <2>4. rows' \in [Shown -> RowState]
    BY <2>1, <2>3
  <2>5. UNCHANGED <<at, tasks, returned, changes>> /\ localDue' = TRUE
    BY <1>10 DEF Minute
  <2> QED
    BY <2>2, <2>4, <2>5 DEF TypeOK, PermitsAccounted, tasks
<1>11. CASE UNCHANGED vars
  BY <1>11 DEF vars, TypeOK, PermitsAccounted, tasks, Shown
<1> QED
  BY <1>1, <1>2, <1>3, <1>4, <1>5, <1>6, <1>7, <1>8, <1>9, <1>10, <1>11 DEF Next

\* Every variable keeps its kind: no deadline beyond what the capped count of
\* failures allows, and as many permits free as the semaphore has and nobody
\* holds, however many polls of whatever rows are under way (event_loop.rs).
THEOREM PollerTypes == Spec => []TypeOK
<1>1. Init => KindsInv
  BY PollerAssumption, InitKinds
<1>2. KindsInv /\ [Next]_vars => KindsInv'
  BY PollerAssumption, KindsStep
<1>3. KindsInv => TypeOK
  BY DEF KindsInv
<1> QED
  BY <1>1, <1>2, <1>3, PTL DEF Spec
=============================================================================
