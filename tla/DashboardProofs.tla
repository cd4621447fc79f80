-------------------------- MODULE DashboardProofs --------------------------
(***************************************************************************)
(* Theorems about Dashboard for any checkouts, workspaces and number of    *)
(* background actions.                                                     *)
(***************************************************************************)
EXTENDS Dashboard, FiniteSetTheorems, TLAPS

-----------------------------------------------------------------------------
(* The actions a key starts. *)

\* The messages a slot owes are those of a job.
OwesMessages == \A t \in Task : ended[t] => jobs[t] # NoJob

\* A key is read only after a draw.
DrawnAtKey == at = "key" => drawn

DashInv == TypeOK /\ OwesMessages /\ DrawnAtKey /\ BusyHasAnAction

LEMMA PlanJobs == Plan \subseteq Job /\ \A plan \in Plan : plan.does \in {"pull", "checkout"}
BY DEF Plan, Job

LEMMA RepoJobs ==
  ASSUME NEW r \in Repo, NEW d \in {"preview", "checkout_preview"}
  PROVE  [does |-> d, repo |-> r] \in Job /\ [does |-> d, repo |-> r] \notin Plan
<1>1. [does |-> d, repo |-> r] \in Job
  BY DEF Job
<1>2. [does |-> d, repo |-> r].does \notin {"pull", "checkout"}
  OBVIOUS
<1> QED
  BY <1>1, <1>2, PlanJobs

LEMMA BareJobs ==
  ASSUME NEW d \in {"open", "terminal", "add"}
  PROVE  [does |-> d] \in Job /\ [does |-> d] \notin Plan
<1>1. [does |-> d] \in Job
  BY DEF Job
<1>2. [does |-> d].does \notin {"pull", "checkout"}
  OBVIOUS
<1> QED
  BY <1>1, <1>2, PlanJobs

LEMMA FetchJobs ==
  ASSUME NEW n \in 1..Cardinality(Repo)
  PROVE  [does |-> "fetch", left |-> n] \in Job /\ [does |-> "fetch", left |-> n] \notin Plan
<1>1. [does |-> "fetch", left |-> n] \in Job
  BY DEF Job
<1>2. [does |-> "fetch", left |-> n].does \notin {"pull", "checkout"}
  OBVIOUS
<1> QED
  BY <1>1, <1>2, PlanJobs

\* At most one fetch for each registered checkout.
LEMMA FetchCount == TypeOK => FetchCounts \subseteq 0..Cardinality(Repo)
<1> SUFFICES ASSUME TypeOK PROVE FetchCounts \subseteq 0..Cardinality(Repo)
  OBVIOUS
<1>1. rows \in SUBSET Repo /\ IsFiniteSet(Repo)
  BY DashboardAssumption DEF TypeOK
<1>2. Cardinality(rows) <= Cardinality(Repo) /\ Cardinality(rows) \in Nat
  BY <1>1, FS_Subset, FS_CardinalityType
<1>3. Cardinality(Repo) \in Nat
  BY <1>1, FS_CardinalityType
<1> QED
  BY <1>2, <1>3 DEF FetchCounts

\* What the key says of the action it starts.
Launched(job) ==
  /\ job \in Job
  /\ job \in Plan => mode = Show(job) /\ drawn
  /\ action_busy' => action_busy \/ job.does # "open"

Launch(job) ==
  /\ ~help /\ Launched(job) /\ UNCHANGED ended
  /\ \E t \in Task : jobs[t] = NoJob /\ jobs' = [jobs EXCEPT ![t] = job]

LEMMA StartLaunches ==
  ASSUME NEW job, NEW busy, ~help, Start(job, busy), Launched(job)
  PROVE  Launch(job)
BY DEF Start, Launch

LEMMA KeyLaunches ==
  ASSUME TypeOK, DrawnAtKey, Key
  PROVE  Idle \/ \E job : Launch(job)
<1>1. CASE \/ NoKey \/ OpenHelp \/ CloseHelp \/ Select \/ Leave \/ OpenPrompt \/ PickOther
           \/ PickWorkspace \/ SubmitWorkspace \/ SubmitAccount \/ ConfirmRemove
  BY <1>1 DEF NoKey, OpenHelp, CloseHelp, Select, Leave, OpenPrompt, PickOther,
              PickWorkspace, SubmitWorkspace, SubmitAccount, ConfirmRemove
<1>0. current # NoRepo => current \in Repo
  BY DEF TypeOK, Selections
<1>2. CASE SubmitAdd
  <2> DEFINE job == [does |-> "add"]
  <2>1. ~help /\ Start(job, TRUE)
    BY <1>2 DEF SubmitAdd, ModeKey
  <2>2. Launched(job)
    BY BareJobs DEF Launched
  <2> QED
    BY <2>1, <2>2, StartLaunches
<1>3. CASE SubmitCheckout
  <2> DEFINE job == [does |-> "checkout_preview", repo |-> current]
  <2>1. ASSUME current # NoRepo PROVE Launched(job)
    <3>1. job \in Job /\ job \notin Plan
      BY <1>0, <2>1, RepoJobs
    <3>2. job.does # "open"
      OBVIOUS
    <3> QED
      BY <3>1, <3>2 DEF Launched
  <2>2. ~help /\ (Idle \/ (current # NoRepo /\ Start(job, TRUE)))
    BY <1>3 DEF SubmitCheckout, ModeKey
  <2> HIDE DEF job
  <2> QED
    BY <2>1, <2>2, StartLaunches
<1>4. CASE Confirm
  <2>1. ~help /\ Start(mode.plan, TRUE) /\ mode.name = "confirm" /\ drawn
    BY <1>4 DEF Confirm, ModeKey, AKey, DrawnAtKey
  <2>2. mode \in [name : {"confirm"}, plan : Plan]
    BY <2>1 DEF TypeOK, Mode
  <2>3. mode.plan \in Plan /\ mode = Show(mode.plan)
    BY <2>2 DEF Show
  <2>4. Launched(mode.plan)
    BY <2>1, <2>3, PlanJobs DEF Launched
  <2> QED
    BY <2>1, <2>4, StartLaunches
<1>5. CASE Preview
  <2> DEFINE job == [does |-> "preview", repo |-> current]
  <2>1. ~help /\ current # NoRepo /\ Start(job, TRUE)
    BY <1>5 DEF Preview, ModeKey
  <2>2. job \in Job /\ job \notin Plan
    BY <1>0, <2>1, RepoJobs
  <2>3. job.does # "open"
    OBVIOUS
  <2>4. Launched(job)
    BY <2>2, <2>3 DEF Launched
  <2> QED
    BY <2>1, <2>4, StartLaunches
<1>6. CASE OpenTerminal
  <2> DEFINE job == [does |-> "terminal"]
  <2>1. ~help /\ Start(job, TRUE)
    BY <1>6 DEF OpenTerminal, ModeKey
  <2>2. Launched(job)
    BY BareJobs DEF Launched
  <2> QED
    BY <2>1, <2>2, StartLaunches
<1>7. CASE OpenPage
  <2> DEFINE job == [does |-> "open"]
  <2>1. ~help /\ Start(job, action_busy) /\ action_busy' = action_busy
    BY <1>7 DEF OpenPage, ModeKey, Start
  <2>2. Launched(job)
    BY <2>1, BareJobs DEF Launched
  <2> QED
    BY <2>1, <2>2, StartLaunches
<1>8. CASE Fetch
  <2>1. PICK n \in FetchCounts :
          IF n = 0 THEN Idle ELSE Start([does |-> "fetch", left |-> n], TRUE)
    BY <1>8 DEF Fetch
  <2> DEFINE job == [does |-> "fetch", left |-> n]
  <2>2. ~help
    BY <1>8 DEF Fetch, ModeKey
  <2>3. ASSUME n # 0 PROVE Launched(job)
    <3>0. Cardinality(Repo) \in Nat
      BY DashboardAssumption, FS_CardinalityType
    <3>1. job \in Job /\ job \notin Plan
      BY <2>3, <3>0, FetchCount, FetchJobs
    <3>2. job.does # "open"
      OBVIOUS
    <3> QED
      BY <3>1, <3>2 DEF Launched
  <2> HIDE DEF job
  <2>4. Idle \/ (n # 0 /\ Start(job, TRUE))
    BY <2>1 DEF job
  <2> QED
    BY <2>2, <2>3, <2>4, StartLaunches
<1> QED
  BY <1>1, <1>2, <1>3, <1>4, <1>5, <1>6, <1>7, <1>8 DEF Key

-----------------------------------------------------------------------------
(* The background actions: types, and what action_busy promises. *)

JobsType ==
  /\ action_busy \in BOOLEAN
  /\ jobs \in [Task -> Job \cup {NoJob}]
  /\ ended \in [Task -> BOOLEAN]

LEMMA RemainingType ==
  ASSUME NEW job \in Job
  PROVE  Remaining(job) \in Job \cup {NoJob}
<1>1. CASE job.does = "fetch" /\ job.left > 1
  <2>0. Cardinality(Repo) \in Nat
    BY DashboardAssumption, FS_CardinalityType
  <2>1. job \in [does : {"fetch"}, left : 1..Cardinality(Repo)]
    BY <1>1 DEF Job
  <2>2. [job EXCEPT !.left = @ - 1] \in [does : {"fetch"}, left : 1..Cardinality(Repo)]
    BY <1>1, <2>0, <2>1
  <2> QED
    BY <1>1, <2>2 DEF Remaining, Job
<1>2. CASE ~(job.does = "fetch" /\ job.left > 1)
  BY <1>2 DEF Remaining
<1> QED
  BY <1>1, <1>2

LEMMA LaunchStep ==
  ASSUME DashInv, NEW job, Launch(job), action_busy' \in BOOLEAN
  PROVE  JobsType' /\ OwesMessages' /\ BusyHasAnAction'
<1>1. PICK t \in Task : jobs[t] = NoJob /\ jobs' = [jobs EXCEPT ![t] = job]
  BY DEF Launch
<1>2. job \in Job /\ job # NoJob /\ ended' = ended
  BY DashboardAssumption DEF Launch, Launched
<1>3. JobsType'
  BY <1>1, <1>2 DEF DashInv, TypeOK, JobsType
<1>4. OwesMessages'
  BY <1>1, <1>2 DEF DashInv, TypeOK, OwesMessages
<1>5. ASSUME action_busy' PROVE \E u \in Task : Guarded(u)'
  <2>1. CASE job.does # "open"
    BY <1>1, <1>2, <2>1 DEF DashInv, TypeOK, Guarded
  <2>2. CASE action_busy
    <3>1. PICK u \in Task : Guarded(u)
      BY <2>2 DEF DashInv, BusyHasAnAction
    <3>2. jobs'[u] = jobs[u]
      BY <1>1, <3>1 DEF Guarded, DashInv, TypeOK
    <3> QED
      BY <3>1, <3>2 DEF Guarded
  <2> QED
    BY <1>5, <2>1, <2>2 DEF Launch, Launched
<1> QED
  BY <1>3, <1>4, <1>5 DEF BusyHasAnAction

LEMMA TookStep ==
  ASSUME DashInv, NEW t \in Task, Took(t)
  PROVE  /\ JobsType' /\ OwesMessages' /\ BusyHasAnAction'
         /\ jobs[t] \in Job
         /\ \A u \in Task : ~Started(u)
<1>1. jobs[t] \in Job
  BY DEF Took, DashInv, TypeOK, OwesMessages
<1>2. /\ jobs' = [jobs EXCEPT ![t] = Remaining(jobs[t])]
      /\ ended' = [ended EXCEPT ![t] = FALSE] /\ action_busy' = FALSE
  BY DEF Took
<1>3. Remaining(jobs[t]) \in Job \cup {NoJob}
  BY <1>1, RemainingType
<1>4. JobsType'
  BY <1>2, <1>3 DEF DashInv, TypeOK, JobsType
<1>5. OwesMessages'
  BY <1>2 DEF DashInv, TypeOK, OwesMessages
<1>6. BusyHasAnAction'
  BY <1>2 DEF BusyHasAnAction
<1>7. \A u \in Task : ~Started(u)
  BY <1>1, <1>2, DashboardAssumption DEF Started, DashInv, TypeOK
<1> QED
  BY <1>1, <1>4, <1>5, <1>6, <1>7

LEMMA IdleStep ==
  ASSUME DashInv, Idle
  PROVE  JobsType' /\ OwesMessages' /\ BusyHasAnAction' /\ \A u \in Task : ~Started(u)
BY DEF DashInv, TypeOK, Idle, JobsType, OwesMessages, BusyHasAnAction, Guarded, Started

LEMMA FinishStep ==
  ASSUME DashInv, NEW t \in Task, Finish(t)
  PROVE  JobsType' /\ OwesMessages' /\ BusyHasAnAction' /\ \A u \in Task : ~Started(u)
<1>1. /\ jobs' = jobs /\ action_busy' = action_busy /\ jobs[t] # NoJob
      /\ ended' = [ended EXCEPT ![t] = TRUE]
  BY DEF Finish
<1> QED
  BY <1>1 DEF DashInv, TypeOK, JobsType, OwesMessages, BusyHasAnAction, Guarded, Started

-----------------------------------------------------------------------------
(* The rest of the state. *)

LoopType == loop \in {"running", "quit", "failed"} /\ at \in {"messages", "key"}

ViewType ==
  /\ mode \in Mode /\ help \in BOOLEAN /\ drawn \in BOOLEAN
  /\ pending \in Plan \cup {NoPlan}
  /\ DrawnAtKey

ShownType ==
  /\ rows \subseteq Repo /\ current \in Selections(rows)
  /\ workspaces \in 0..MaxWorkspaces /\ named \in BOOLEAN

LEMMA ReloadType == ASSUME ReloadRegistry PROVE ShownType'
BY DEF ReloadRegistry, ShownType, Selections

LEMMA BareModes ==
  /\ Normal \in Mode
  /\ \A n \in {"add", "filter", "checkout", "create_workspace", "add_workspace",
               "remove_workspace", "accounts"} : [name |-> n] \in Mode
  /\ \A i \in 0..MaxWorkspaces : [name |-> "workspace", index |-> i] \in Mode
  /\ \A r \in Repo : [name |-> "remove", repo |-> r] \in Mode
  /\ \A plan \in Plan : Show(plan) \in Mode
BY DEF Mode, Normal, Show

LEMMA PreviewStep ==
  ASSUME DashInv, NEW t \in Task, PreviewMessage(t)
  PROVE  /\ LoopType' /\ ViewType' /\ ShownType'
         /\ help => help' /\ mode' = mode
<1> DEFINE plan == [does |-> IF jobs[t].does = "preview" THEN "pull" ELSE "checkout",
                    repo |-> jobs[t].repo]
<1>1. Took(t) /\ UNCHANGED <<loop, at, help, shown>> /\ at = "messages"
  BY DEF PreviewMessage, Took
<1>2. jobs[t] \in Job /\ jobs[t].does \in {"preview", "checkout_preview"}
  BY <1>1, TookStep DEF PreviewMessage
<1>3. jobs[t].repo \in Repo
  BY <1>2 DEF Job
<1>4. plan \in Plan
  BY <1>3 DEF Plan
<1>5. PresentPreview(plan) \/ UNCHANGED <<mode, drawn, pending>>
  BY DEF PreviewMessage
<1> HIDE DEF plan
<1>6. Show(plan) \in Mode
  BY <1>4, BareModes
<1>7. ViewType' /\ (help => help' /\ mode' = mode)
  BY <1>1, <1>4, <1>5, <1>6 DEF PresentPreview, ViewType, DrawnAtKey, DashInv, TypeOK
<1> QED
  BY <1>1, <1>7 DEF LoopType, ShownType, Selections, shown, DashInv, TypeOK

LEMMA OtherMessageStep ==
  ASSUME DashInv, NEW t \in Task, ActionMessage(t) \/ AddedMessage(t)
  PROVE  /\ LoopType' /\ ViewType' /\ ShownType'
         /\ UNCHANGED view
<1>1. at' = at /\ UNCHANGED view
  BY DEF ActionMessage, AddedMessage
<1>2. ViewType'
  BY <1>1 DEF ViewType, view, DrawnAtKey, DashInv, TypeOK
<1>3. LoopType'
  BY <1>1 DEF ActionMessage, AddedMessage, LoopType, DashInv, TypeOK
<1>4. ShownType' 
  BY ReloadType DEF ActionMessage, AddedMessage, ShownType, Selections, shown, DashInv, TypeOK
<1> QED
  BY <1>1, <1>2, <1>3, <1>4

\* Keys: what any of them leaves of the loop, the view and the rows.
KeyType ==
  /\ LoopType' /\ ViewType' /\ ShownType'
  /\ help => (help' => mode' = mode)

LEMMA PromptKeys ==
  ASSUME DashInv, \/ NoKey \/ OpenHelp \/ CloseHelp \/ Leave \/ OpenPrompt \/ PickOther
  PROVE  KeyType
<1> USE DEF AKey, DashInv, TypeOK
<1>1. CASE NoKey
  BY <1>1 DEF NoKey, KeyType, LoopType, ViewType, ShownType, DrawnAtKey, view, shown, Selections
<1>2. CASE OpenHelp
  BY <1>2 DEF OpenHelp, KeyType, LoopType, ViewType, ShownType, DrawnAtKey, shown, Selections
<1>3. CASE CloseHelp
  <2>1. (IF pending = NoPlan THEN mode ELSE Show(pending)) \in Mode
    BY BareModes
  <2>2. help' = FALSE /\ mode' \in Mode /\ drawn' = FALSE /\ pending' = NoPlan
    BY <1>3, <2>1 DEF CloseHelp, Enter
  <2>3. at' = "messages" /\ UNCHANGED <<loop, shown>>
    BY <1>3 DEF CloseHelp
  <2> QED
    BY <2>2, <2>3 DEF KeyType, LoopType, ViewType, ShownType, DrawnAtKey, shown, Selections
<1>4. CASE Leave
  <2>1. mode' \in Mode /\ drawn' = FALSE /\ ~help
    BY <1>4, BareModes DEF Leave, Enter
  <2> QED
    BY <1>4, <2>1 DEF Leave, KeyType, LoopType, ViewType, ShownType, DrawnAtKey, Selections
<1>5. CASE OpenPrompt
  <2>1. current # NoRepo => current \in Repo
    BY DEF Selections
  <2>2. 0..workspaces \subseteq 0..MaxWorkspaces
    BY DashboardAssumption
  <2>3. mode' \in Mode /\ drawn' = FALSE
    BY <1>5, <2>1, <2>2, BareModes DEF OpenPrompt, Enter
  <2>4. ~help /\ at' = "messages" /\ UNCHANGED <<help, pending, loop, shown>>
    BY <1>5 DEF OpenPrompt, ModeKey
  <2> QED
    BY <2>3, <2>4 DEF KeyType, LoopType, ViewType, ShownType, DrawnAtKey, shown, Selections
<1>6. CASE PickOther
  <2>1. 0..workspaces \subseteq 0..MaxWorkspaces
    BY DashboardAssumption
  <2>2. mode' \in Mode /\ drawn' = FALSE
    BY <1>6, <2>1, BareModes DEF PickOther, Enter
  <2>3. ~help /\ at' = "messages" /\ UNCHANGED <<help, pending, loop, shown>>
    BY <1>6 DEF PickOther, ModeKey
  <2> QED
    BY <2>2, <2>3 DEF KeyType, LoopType, ViewType, ShownType, DrawnAtKey, shown, Selections
<1> QED
  BY <1>1, <1>2, <1>3, <1>4, <1>5, <1>6

LEMMA ListKeys ==
  ASSUME DashInv,
         Select \/ PickWorkspace \/ SubmitWorkspace \/ SubmitAccount \/ ConfirmRemove
  PROVE  KeyType
<1>0. ~help /\ help' = help /\ pending' = pending /\ at' = "messages"
  BY DEF Select, PickWorkspace, SubmitWorkspace, SubmitAccount, ConfirmRemove, ModeKey, AKey
<1>1. LoopType'
  BY <1>0 DEF Select, PickWorkspace, SubmitWorkspace, SubmitAccount, ConfirmRemove,
              DashInv, TypeOK, LoopType
<1>2. mode' = mode \/ mode' = Normal
  BY DEF Select, PickWorkspace, SubmitWorkspace, SubmitAccount, ConfirmRemove, Enter
<1>3. drawn' \in BOOLEAN
  BY DEF Select, PickWorkspace, SubmitWorkspace, SubmitAccount, ConfirmRemove, Enter,
         DashInv, TypeOK
<1>4. ViewType'
  BY <1>0, <1>2, <1>3, BareModes DEF ViewType, DrawnAtKey, DashInv, TypeOK
<1>5. ShownType'
  <2>1. CASE ReloadRegistry
    BY <2>1, ReloadType
  <2>2. CASE UNCHANGED shown
    BY <2>2 DEF shown, ShownType, Selections, DashInv, TypeOK
  <2>3. CASE Select
    BY <2>3 DEF Select, ShownType, Selections, DashInv, TypeOK
  <2>4. CASE PickWorkspace
    <3>1. (mode.index > 0) \in BOOLEAN
      OBVIOUS
    <3>2. \/ UNCHANGED shown
          \/ /\ UNCHANGED <<rows, workspaces>>
             /\ \/ named' = (mode.index > 0) /\ current' \in Selections(rows)
                \/ UNCHANGED <<named, current>>
      BY <2>4 DEF PickWorkspace
    <3>3. CASE UNCHANGED <<rows, workspaces>> /\ named' \in BOOLEAN /\ current' \in Selections(rows)
      BY <3>3 DEF ShownType, Selections, DashInv, TypeOK
    <3> QED
      BY <2>2, <3>1, <3>2, <3>3 DEF DashInv, TypeOK
  <2>5. CASE ConfirmRemove
    BY <2>5 DEF ConfirmRemove, ShownType, Selections, DashInv, TypeOK
  <2> QED
    BY <2>1, <2>2, <2>3, <2>4, <2>5 DEF SubmitWorkspace, SubmitAccount
<1> QED
  BY <1>0, <1>1, <1>4, <1>5 DEF KeyType

LEMMA StartKeys ==
  ASSUME DashInv,
         \/ SubmitAdd \/ SubmitCheckout \/ Confirm \/ Preview \/ OpenTerminal \/ OpenPage \/ Fetch
  PROVE  KeyType
<1>1. ~help /\ UNCHANGED <<help, pending, loop, shown>> /\ at' = "messages"
  BY DEF SubmitAdd, SubmitCheckout, Confirm, Preview, OpenTerminal, OpenPage, Fetch, ModeKey, AKey
<1>2. (mode' = Normal /\ drawn' = FALSE) \/ UNCHANGED <<mode, drawn>>
  BY DEF SubmitAdd, SubmitCheckout, Confirm, Preview, OpenTerminal, OpenPage, Fetch, Enter
<1> QED
  BY <1>1, <1>2, BareModes
     DEF KeyType, LoopType, ViewType, ShownType, DrawnAtKey, shown, Selections, DashInv, TypeOK

LEMMA KeyStep == ASSUME DashInv, Key PROVE KeyType
BY PromptKeys, ListKeys, StartKeys DEF Key

\* The flag a key leaves is a flag.
LEMMA KeyFlag == ASSUME DashInv, Key PROVE action_busy' \in BOOLEAN
<1> USE DEF DashInv, TypeOK
<1>1. CASE Idle
  BY <1>1 DEF Idle
<1>2. CASE ~Idle
  BY <1>2 DEF Key, NoKey, OpenHelp, CloseHelp, Select, Leave, OpenPrompt, PickOther,
              PickWorkspace, SubmitWorkspace, SubmitAccount, ConfirmRemove, SubmitAdd,
              SubmitCheckout, Confirm, Preview, OpenTerminal, OpenPage, Fetch, Start
<1> QED
  BY <1>1, <1>2

-----------------------------------------------------------------------------
(* The invariant and the two action properties. *)

\* The two action properties, said of one step.
Confirmed ==
  \A t \in Task : Started(t) /\ jobs'[t] \in Plan => mode = Show(jobs'[t]) /\ ~help /\ drawn

Suspended == help => (help' => mode' = mode) /\ ~\E t \in Task : Started(t)

LEMMA DashStep ==
  ASSUME DashInv, [Next]_vars
  PROVE  DashInv' /\ Confirmed /\ Suspended
<1>0. ASSUME LoopType', ViewType', ShownType', JobsType', OwesMessages', BusyHasAnAction'
      PROVE  DashInv'
  BY <1>0 DEF DashInv, TypeOK, LoopType, ViewType, ShownType, JobsType
<1>1. CASE Key
  <2>1. KeyType
    BY <1>1, KeyStep
  <2>2. CASE Idle
    <3>1. JobsType' /\ OwesMessages' /\ BusyHasAnAction' /\ \A u \in Task : ~Started(u)
      BY <2>2, IdleStep
    <3> QED
      BY <1>0, <2>1, <3>1 DEF KeyType, Confirmed, Suspended
  <2>3. CASE \E job : Launch(job)
    <3>1. PICK job : Launch(job)
      BY <2>3
    <3>2. JobsType' /\ OwesMessages' /\ BusyHasAnAction'
      BY <1>1, <3>1, KeyFlag, LaunchStep
    <3>3. ~help /\ (job \in Plan => mode = Show(job) /\ drawn)
      BY <3>1 DEF Launch, Launched
    <3>4. PICK t \in Task : jobs[t] = NoJob /\ jobs' = [jobs EXCEPT ![t] = job]
      BY <3>1 DEF Launch
    <3>5. ASSUME NEW u \in Task, Started(u) PROVE jobs'[u] = job
      BY <3>4, <3>5 DEF Started, DashInv, TypeOK
    <3>6. Confirmed
      BY <3>3, <3>5 DEF Confirmed
    <3> QED
      BY <1>0, <2>1, <3>2, <3>3, <3>6 DEF KeyType, Suspended
  <2> QED
    BY <1>1, <2>2, <2>3, KeyLaunches DEF DashInv
<1>2. ASSUME NEW t \in Task, PreviewMessage(t) PROVE DashInv' /\ Confirmed /\ Suspended
  <2>1. JobsType' /\ OwesMessages' /\ BusyHasAnAction' /\ \A u \in Task : ~Started(u)
    BY <1>2, TookStep DEF PreviewMessage
  <2> QED
    BY <1>0, <1>2, <2>1, PreviewStep DEF Confirmed, Suspended
<1>3. ASSUME NEW t \in Task, ActionMessage(t) \/ AddedMessage(t)
      PROVE  DashInv' /\ Confirmed /\ Suspended
  <2>1. JobsType' /\ OwesMessages' /\ BusyHasAnAction' /\ \A u \in Task : ~Started(u)
    BY <1>3, TookStep DEF ActionMessage, AddedMessage
  <2>2. LoopType' /\ ViewType' /\ ShownType' /\ UNCHANGED view
    BY <1>3, OtherMessageStep
  <2> QED
    BY <1>0, <2>1, <2>2 DEF Confirmed, Suspended, view
<1>4. ASSUME NEW t \in Task, Finish(t) PROVE DashInv' /\ Confirmed /\ Suspended
  <2>1. JobsType' /\ OwesMessages' /\ BusyHasAnAction' /\ \A u \in Task : ~Started(u)
    BY <1>4, FinishStep
  <2>2. UNCHANGED <<loop, at, view, shown>>
    BY <1>4 DEF Finish
  <2>3. LoopType' /\ ViewType' /\ ShownType'
    BY <2>2 DEF view, shown, LoopType, ViewType, ShownType, DrawnAtKey, Selections, DashInv, TypeOK
  <2> QED
    BY <1>0, <2>1, <2>2, <2>3 DEF Confirmed, Suspended, view
<1>5. CASE Draw \/ Quit \/ UNCHANGED vars
  <2>1. Idle /\ UNCHANGED <<mode, help, pending, shown>>
    BY <1>5 DEF Draw, Quit, AKey, Idle, vars, view
  <2>2. JobsType' /\ OwesMessages' /\ BusyHasAnAction' /\ \A u \in Task : ~Started(u)
    BY <2>1, IdleStep
  <2>3. LoopType' /\ drawn' \in BOOLEAN /\ DrawnAtKey'
    BY <1>5 DEF Draw, Quit, AKey, vars, view, LoopType, DrawnAtKey, DashInv, TypeOK
  <2>4. ViewType' /\ ShownType'
    BY <2>1, <2>3 DEF shown, ViewType, ShownType, Selections, DashInv, TypeOK
  <2> QED
    BY <1>0, <2>1, <2>2, <2>3, <2>4 DEF Confirmed, Suspended
<1> QED
  BY <1>1, <1>2, <1>3, <1>4, <1>5 DEF Next, Message

LEMMA DashInit == Init => DashInv
BY DashboardAssumption, BareModes
   DEF Init, DashInv, TypeOK, OwesMessages, DrawnAtKey, BusyHasAnAction, Selections

LEMMA DashCorrect == Spec => []DashInv
<1>1. DashInv /\ [Next]_vars => DashInv'
  BY DashStep
<1> QED
  BY <1>1, DashInit, PTL DEF Spec

\* Every variable keeps its kind, and the selection is one of the rows: also
\* after reloads and removals in the middle of a prompt.
THEOREM DashboardTypes == Spec => []TypeOK
<1>1. DashInv => TypeOK
  BY DEF DashInv
<1> QED
  BY <1>1, DashCorrect, PTL

\* action_busy never outlives the last action whose message takes it down.
THEOREM FlagNeedsAnAction == Spec => []BusyHasAnAction
<1>1. DashInv => BusyHasAnAction
  BY DEF DashInv
<1> QED
  BY <1>1, DashCorrect, PTL

\* No pull or checkout starts but from a confirmation of its very plan that is
\* on the screen.
THEOREM OnlyConfirmedPlans == Spec => ConfirmedOnScreen
<1>1. DashInv /\ [Next]_vars => [Confirmed]_vars
  BY DashStep
<1>2. [][Confirmed]_vars => ConfirmedOnScreen
  BY PTL DEF Confirmed, ConfirmedOnScreen
<1> QED
  BY <1>1, <1>2, DashCorrect, PTL DEF Spec

\* What help covers waits for it, and no action starts under it.
THEOREM HelpKeepsTheMode == Spec => HelpSuspends
<1>1. DashInv /\ [Next]_vars => [Suspended]_vars
  BY DashStep
<1>2. [][Suspended]_vars => HelpSuspends
  BY PTL DEF Suspended, HelpSuspends
<1> QED
  BY <1>1, <1>2, DashCorrect, PTL DEF Spec
=============================================================================
