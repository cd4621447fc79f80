----------------------------- MODULE Dashboard -----------------------------
(***************************************************************************)
(* The interactive half of the event loop (src/src/tui/event_loop.rs and   *)
(* app.rs): the mode the dashboard is in, the help layer over it, the      *)
(* background actions a key starts, the action_busy flag that keeps other  *)
(* keys away meanwhile, and the previews that come back to be confirmed.   *)
(* Each turn handles the messages that have arrived, draws, and reads at   *)
(* most one key.                                                           *)
(*                                                                         *)
(* Mode::Help { previous, pending } is help = TRUE with mode = previous.   *)
(* Typed text is abstracted to whether it is acceptable when Enter is      *)
(* pressed; what Git and the registry answer is left open (GuardedGit and  *)
(* RegistryFile model them); polls are in Poller.                          *)
(***************************************************************************)
EXTENDS Naturals, FiniteSets

CONSTANTS Repo,           \* ids of the checkouts
          NoRepo,         \* no row is selected: none is visible
          Task,           \* slots for background actions (bounds them)
          NoJob, NoPlan,
          MaxWorkspaces   \* bound on the named workspaces

Plan == [does : {"pull", "checkout"}, repo : Repo]

Job == [does : {"preview", "checkout_preview", "pull", "checkout"}, repo : Repo]
       \cup [does : {"open", "terminal", "add"}]
       \cup [does : {"fetch"}, left : 1..Cardinality(Repo)]

Mode == [name : {"normal", "add", "filter", "checkout", "create_workspace",
                 "add_workspace", "remove_workspace", "accounts"}]
        \cup [name : {"workspace"}, index : 0..MaxWorkspaces]
        \cup [name : {"confirm"}, plan : Plan]
        \cup [name : {"remove"}, repo : Repo]

ASSUME DashboardAssumption ==
  /\ NoRepo \notin Repo
  /\ NoJob \notin Job
  /\ NoPlan \notin Plan
  /\ IsFiniteSet(Repo)
  /\ MaxWorkspaces \in Nat

VARIABLES
  loop,         \* "running", "quit" by the user, or "failed" with an error
  at,           \* "messages" or "key"
  mode,         \* App.mode, the suspended one while help is open
  help,         \* the help layer is open
  pending,      \* the preview that waits under it
  drawn,        \* what mode and help say is what the screen shows
  action_busy,
  jobs, ended,  \* the job of each slot; it has a message in the channel
  rows,         \* ids of App.rows
  current,      \* App::current: the selected row
  workspaces,   \* number of named workspaces the dashboard knows
  named         \* a named workspace is active (otherwise All)

view   == <<mode, help, pending, drawn>>
shown  == <<rows, current, workspaces, named>>
vars   == <<loop, at, view, action_busy, jobs, ended, shown>>

Normal == [name |-> "normal"]

\* A selection that App::visible may yield: a row exactly when one is visible.
Selections(r) == r \cup {NoRepo}

Init ==
  /\ loop = "running"
  /\ at = "messages"
  /\ mode = Normal /\ help = FALSE /\ pending = NoPlan /\ drawn = FALSE
  /\ action_busy = FALSE
  /\ jobs = [t \in Task |-> NoJob]
  /\ ended = [t \in Task |-> FALSE]
  /\ rows \in SUBSET Repo
  /\ current \in Selections(rows)
  /\ workspaces \in 0..MaxWorkspaces
  /\ named \in {b \in BOOLEAN : b => workspaces > 0}

\* Mutant: the selection is not looked up again.
ReloadKeepingSelection ==
  /\ rows' \in SUBSET Repo
  /\ workspaces' \in 0..MaxWorkspaces
  /\ named' \in {b \in BOOLEAN : b => workspaces' > 0}
  /\ UNCHANGED current

\* reload_registry: the rows, workspaces and active workspace are those of the
\* file, which other processes write too; mode and action_busy are not touched.
ReloadRegistry ==
  /\ rows' \in SUBSET Repo
  /\ current' \in Selections(rows')
  /\ workspaces' \in 0..MaxWorkspaces
  /\ named' \in {b \in BOOLEAN : b => workspaces' > 0}

-----------------------------------------------------------------------------
(* Messages. *)

Show(plan) == [name |-> "confirm", plan |-> plan]

\* Mutant: a preview does not wait for help to close.
PresentPreviewAtOnce(plan) == mode' = Show(plan) /\ drawn' = FALSE /\ UNCHANGED pending

\* present_preview
PresentPreview(plan) ==
  IF help THEN pending' = plan /\ UNCHANGED <<mode, drawn>>
          ELSE mode' = Show(plan) /\ drawn' = FALSE /\ UNCHANGED pending

\* A message of the task in slot t.  Every one of them clears action_busy; a
\* fetch sends one for each repository it was asked to fetch.
Remaining(job) ==
  IF job.does = "fetch" /\ job.left > 1 THEN [job EXCEPT !.left = @ - 1] ELSE NoJob

Took(t) ==
  /\ loop = "running" /\ at = "messages"
  /\ ended[t]
  /\ ended' = [ended EXCEPT ![t] = FALSE]
  /\ jobs' = [jobs EXCEPT ![t] = Remaining(@)]
  /\ action_busy' = FALSE

\* Message::Preview and CheckoutPreview: a plan to confirm, or an error.
PreviewMessage(t) ==
  /\ Took(t)
  /\ jobs[t].does \in {"preview", "checkout_preview"}
  /\ \/ PresentPreview([does |-> IF jobs[t].does = "preview" THEN "pull" ELSE "checkout",
                        repo |-> jobs[t].repo])
     \/ UNCHANGED <<mode, drawn, pending>>
  /\ UNCHANGED <<loop, at, help, shown>>

\* Message::Action and Fetched, either outcome.
ActionMessage(t) ==
  /\ Took(t)
  /\ jobs[t].does \in {"pull", "checkout", "open", "terminal", "fetch"}
  /\ UNCHANGED <<loop, at, view, shown>>

\* Message::Added: the registry is loaded again, and an error of that ends the
\* event loop; an error of the addition itself is recorded.
AddedMessage(t) ==
  /\ Took(t)
  /\ jobs[t].does = "add"
  /\ \/ ReloadRegistry /\ UNCHANGED loop
     \/ UNCHANGED <<loop, shown>>
     \/ loop' = "failed" /\ UNCHANGED shown
  /\ UNCHANGED <<at, view>>

\* The workspace picker stands past its options, which a reload can have made
\* fewer.
PastOptions == ~help /\ mode.name = "workspace" /\ mode.index > workspaces

\* The channel is empty: clamp the selection and draw, which panics at a picker
\* past its options.
Draw ==
  /\ loop = "running" /\ at = "messages"
  /\ \A t \in Task : ~ended[t]
  /\ IF PastOptions THEN loop' = "failed" /\ UNCHANGED <<at, drawn>>
     ELSE at' = "key" /\ drawn' = TRUE /\ UNCHANGED loop
  /\ UNCHANGED <<mode, help, pending, action_busy, jobs, ended, shown>>

-----------------------------------------------------------------------------
(* Keys.  A key ends the turn, and so does the wait for one. *)

\* Mutant: several keys are read before the next draw.
ManyKeys == loop = "running" /\ at = "key" /\ at' \in {"messages", "key"}

AKey ==
  /\ loop = "running" /\ at = "key"
  /\ at' = "messages"

\* A key the mode sees: help takes all others.
ModeKey(name) == AKey /\ ~help /\ mode.name = name /\ UNCHANGED <<help, pending>>

Enter(m) == mode' = m /\ drawn' = FALSE

Idle == UNCHANGED <<action_busy, jobs, ended>>

\* The action goes to a task of its own.
Start(job, busy) ==
  /\ \E t \in Task : jobs[t] = NoJob /\ jobs' = [jobs EXCEPT ![t] = job]
  /\ action_busy' = busy
  /\ UNCHANGED ended

NoKey == AKey /\ Idle /\ UNCHANGED <<loop, view, shown>>

\* Ctrl-C everywhere, q on the dashboard.
Quit ==
  /\ AKey
  /\ loop' = "quit"
  /\ Idle /\ UNCHANGED <<view, shown>>

OpenHelp ==
  /\ AKey /\ ~help
  /\ help' = TRUE /\ pending' = NoPlan /\ drawn' = FALSE
  /\ Idle /\ UNCHANGED <<loop, mode, shown>>

CloseHelp ==
  /\ AKey /\ help
  /\ help' = FALSE /\ pending' = NoPlan
  /\ Enter(IF pending = NoPlan THEN mode ELSE Show(pending))
  /\ Idle /\ UNCHANGED <<loop, shown>>

\* j, k: another row; a character of the filter, or its Esc, any row.
Select ==
  /\ \/ ModeKey("normal") /\ current # NoRepo /\ current' \in rows
     \/ ModeKey("filter") /\ current' \in Selections(rows)
  /\ Idle /\ UNCHANGED <<loop, mode, drawn, rows, workspaces, named>>

\* Esc, n in a confirmation, Enter in the filter.
Leave ==
  /\ AKey /\ ~help /\ mode # Normal
  /\ Enter(Normal)
  /\ IF mode.name = "filter" THEN current' \in Selections(rows) ELSE UNCHANGED current
  /\ Idle /\ UNCHANGED <<loop, help, pending, rows, workspaces, named>>

\* The keys that open a prompt; only / and w do so while an action runs.
OpenPrompt ==
  /\ ModeKey("normal")
  /\ \/ Enter([name |-> "filter"])
     \/ \E i \in 0..workspaces : (i = 0 <=> ~named) /\ Enter([name |-> "workspace", index |-> i])
     \/ /\ ~action_busy
        /\ \/ \E n \in {"add", "create_workspace", "add_workspace", "remove_workspace",
                        "accounts"} : Enter([name |-> n])
           \/ /\ current # NoRepo
              /\ Enter([name |-> "remove", repo |-> current]) \/ Enter([name |-> "checkout"])
  /\ Idle /\ UNCHANGED <<loop, shown>>

\* Up and Down in the workspace picker: All is option 0.
PickOther ==
  /\ ModeKey("workspace")
  /\ \E i \in 0..workspaces :
       /\ i = mode.index - 1 \/ i = mode.index + 1
       /\ Enter([name |-> "workspace", index |-> i])
  /\ Idle /\ UNCHANGED <<loop, shown>>

\* Enter in the picker, whose index the last draw has found in range.
PickWorkspace ==
  /\ ModeKey("workspace")
  /\ \/ named' = (mode.index > 0) /\ current' \in Selections(rows)
     \/ UNCHANGED <<named, current>>
  /\ Enter(Normal)
  /\ Idle /\ UNCHANGED <<loop, rows, workspaces>>

\* Enter in the prompts that change the registry at once: create a workspace,
\* or change a membership of the selected row.  The latter bails out of the
\* event loop when no workspace or no row is selected.
NoSubject == mode.name # "create_workspace" /\ (current = NoRepo \/ ~named)

SubmitWorkspace ==
  /\ \E n \in {"create_workspace", "add_workspace", "remove_workspace"} : ModeKey(n)
  /\ \/ NoSubject /\ loop' = "failed" /\ UNCHANGED <<mode, drawn, shown>>
     \/ /\ mode.name # "create_workspace" => current # NoRepo
        /\ ReloadRegistry \/ UNCHANGED shown
        /\ Enter(Normal)
        /\ UNCHANGED loop
  /\ Idle

\* Enter in the token field: saved and loaded again, or refused; an error of
\* the load ends the event loop.
SubmitAccount ==
  /\ ModeKey("accounts")
  /\ \/ ReloadRegistry /\ Enter(Normal) /\ UNCHANGED loop
     \/ UNCHANGED <<loop, mode, drawn, shown>>
     \/ loop' = "failed" /\ UNCHANGED <<mode, drawn, shown>>
  /\ Idle

SubmitAdd ==
  /\ ModeKey("add")
  /\ Start([does |-> "add"], TRUE)
  /\ Enter(Normal)
  /\ UNCHANGED <<loop, shown>>

\* A number and a selected row, or back to the dashboard.
SubmitCheckout ==
  /\ ModeKey("checkout")
  /\ \/ current # NoRepo /\ Start([does |-> "checkout_preview", repo |-> current], TRUE)
     \/ Idle
  /\ Enter(Normal)
  /\ UNCHANGED <<loop, shown>>

Confirm ==
  /\ ModeKey("confirm")
  /\ Start(mode.plan, TRUE)
  /\ Enter(Normal)
  /\ UNCHANGED <<loop, shown>>

ConfirmRemove ==
  /\ ModeKey("remove")
  /\ \/ rows' = rows \ {mode.repo} /\ current' \in Selections(rows')
     \/ UNCHANGED <<rows, current>>
  /\ Enter(Normal)
  /\ Idle /\ UNCHANGED <<loop, workspaces, named>>

\* p, t and o act on the selected row; o whether or not an action runs.
Preview ==
  /\ ModeKey("normal") /\ ~action_busy /\ current # NoRepo
  /\ Start([does |-> "preview", repo |-> current], TRUE)
  /\ UNCHANGED <<loop, mode, drawn, shown>>

OpenTerminal ==
  /\ ModeKey("normal") /\ ~action_busy /\ current # NoRepo
  /\ Start([does |-> "terminal"], TRUE)
  /\ UNCHANGED <<loop, mode, drawn, shown>>

OpenPage ==
  /\ ModeKey("normal") /\ current # NoRepo
  /\ Start([does |-> "open"], action_busy)
  /\ UNCHANGED <<loop, mode, drawn, shown>>

\* r, R: fetch the selected row, or all visible ones, one after the other.
FetchCounts == IF current = NoRepo THEN {0} ELSE 1..Cardinality(rows)

\* Mutant: action_busy goes up when there is nothing to fetch, too.
FetchNothing ==
  /\ ModeKey("normal") /\ ~action_busy
  /\ \E n \in FetchCounts :
       IF n = 0 THEN action_busy' = TRUE /\ UNCHANGED <<jobs, ended>>
       ELSE Start([does |-> "fetch", left |-> n], TRUE)
  /\ UNCHANGED <<loop, mode, drawn, shown>>

Fetch ==
  /\ ModeKey("normal") /\ ~action_busy
  /\ \E n \in FetchCounts :
       IF n = 0 THEN Idle ELSE Start([does |-> "fetch", left |-> n], TRUE)
  /\ UNCHANGED <<loop, mode, drawn, shown>>

Key ==
  \/ NoKey \/ OpenHelp \/ CloseHelp \/ Select \/ Leave \/ OpenPrompt \/ PickOther
  \/ PickWorkspace \/ SubmitWorkspace \/ SubmitAccount \/ SubmitAdd \/ SubmitCheckout
  \/ Confirm \/ ConfirmRemove \/ Preview \/ OpenTerminal \/ OpenPage \/ Fetch

-----------------------------------------------------------------------------
\* Mutant: an addition ends without a message.
FinishUnlessAdd(t) ==
  /\ jobs[t] # NoJob /\ ~ended[t] /\ jobs[t].does # "add"
  /\ ended' = [ended EXCEPT ![t] = TRUE]
  /\ UNCHANGED <<loop, at, view, action_busy, jobs, shown>>

\* A background task has something to say; leaving the loop aborts the tasks.
Finish(t) ==
  /\ loop = "running"
  /\ jobs[t] # NoJob /\ ~ended[t]
  /\ ended' = [ended EXCEPT ![t] = TRUE]
  /\ UNCHANGED <<loop, at, view, action_busy, jobs, shown>>

Message(t) == PreviewMessage(t) \/ ActionMessage(t) \/ AddedMessage(t)

Next ==
  \/ \E t \in Task : Message(t) \/ Finish(t)
  \/ Draw
  \/ Key
  \/ Quit

\* The loop goes round; every command of a task has a timeout.
Fairness ==
  /\ WF_vars((\E t \in Task : Message(t)) \/ Draw \/ Key)
  /\ \A t \in Task : WF_vars(Finish(t))

Spec == Init /\ [][Next]_vars /\ Fairness

-----------------------------------------------------------------------------
(* Properties. *)

\* Every variable keeps its kind, and the selection is one of the rows.
TypeOK ==
  /\ loop \in {"running", "quit", "failed"}
  /\ at \in {"messages", "key"}
  /\ mode \in Mode
  /\ help \in BOOLEAN /\ drawn \in BOOLEAN
  /\ pending \in Plan \cup {NoPlan}
  /\ action_busy \in BOOLEAN
  /\ jobs \in [Task -> Job \cup {NoJob}]
  /\ ended \in [Task -> BOOLEAN]
  /\ rows \subseteq Repo
  /\ current \in Selections(rows)
  /\ workspaces \in 0..MaxWorkspaces
  /\ named \in BOOLEAN

\* action_busy is up only while an action that will take it down is on its way:
\* also when R finds no visible row, and when several actions overlap.
Guarded(t) == jobs[t] # NoJob /\ jobs[t].does # "open"

BusyHasAnAction == action_busy => \E t \in Task : Guarded(t)

\* The dashboard is never shut for ever: whatever the user starts, the keys
\* that action_busy holds back come back.
KeysComeBack == []<>(~action_busy \/ loop # "running")

\* A pull or a checkout starts only from a confirmation of that very plan that
\* is on the screen when the key is read, whenever its preview arrived and
\* whether or not help was open over it.
Started(t) == jobs[t] = NoJob /\ jobs'[t] # NoJob

ConfirmedOnScreen ==
  [][\A t \in Task : Started(t) /\ jobs'[t] \in Plan =>
       mode = Show(jobs'[t]) /\ ~help /\ drawn]_vars

\* While help is open the suspended mode stays as it was, whatever arrives, and
\* no key starts an action.
HelpSuspends ==
  [][help => (help' => mode' = mode) /\ ~\E t \in Task : Started(t)]_vars

\* "Errors ... do not prevent navigation" (docs/design.md): the event loop ends
\* when the user quits, never because of an error.
ErrorsDoNotEndTheLoop == loop # "failed"

\* "busy hint should show while an action runs" (tui/mod.rs): the footer shows
\* it while action_busy.
RunningActionIsShown == (\E t \in Task : Guarded(t)) => action_busy
=============================================================================
