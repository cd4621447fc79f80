------------------------------- MODULE Poller -------------------------------
(***************************************************************************)
(* The monitoring half of the dashboard's event loop                       *)
(* (src/src/tui/event_loop.rs): each turn starts the local, remote and     *)
(* fetch polls that are due, applies the messages of the ones that ended,  *)
(* then waits a moment for a key.  A poll is a task of its own: it waits   *)
(* for one of the permits, runs, and sends a message.  Rows come and go    *)
(* meanwhile: the user removes one, or the registry is loaded again.       *)
(*                                                                         *)
(* Time is in minutes for the remote and fetch polls, whose deadlines are  *)
(* countdowns here (0: due), and "five seconds have passed" for the local  *)
(* ones.  What a poll found is abstracted to whether it failed.  The order *)
(* of messages and of the tasks that wait is left open, which allows more  *)
(* than the FIFO channel and semaphore do.                                 *)
(***************************************************************************)
EXTENDS Naturals

CONSTANTS Repo,        \* ids of checkouts
          Registries,  \* the sets of enabled ids the registry can hold
          LocalOnly,   \* those without a remote (ProviderKind::Local)
          Permits,     \* Semaphore::new(4)
          FailureCap,  \* the 4 of next_failure_count
          MaxChanges   \* bound on the changes of the set of rows

ASSUME PollerAssumption ==
  /\ LocalOnly \subseteq Repo
  /\ Registries \subseteq SUBSET Repo
  /\ Permits \in Nat \ {0}
  /\ FailureCap \in Nat
  /\ MaxChanges \in Nat

Kind   == {"local", "remote", "fetch"}
Backed == {"remote", "fetch"}     \* the kinds that back off
Poll   == {w \in Repo \X Kind : w[2] = "fetch" => w[1] \notin LocalOnly}

VARIABLES
  at,        \* where the loop is: "turn" (from the key to the polls), "messages"
  rows,      \* App.rows: a RowState for each shown id
  localDue,  \* five seconds since last_local
  permits,   \* free permits of the semaphore
  waiting, running, answered,  \* for each poll: tasks waiting for a permit,
                               \* tasks at work, messages not yet handled
  returned,  \* rows shown again while a poll of their id was under way
  changes    \* changes of the set of rows so far (bounded)

tasks == <<permits, waiting, running, answered>>
vars  == <<at, rows, localDue, tasks, returned, changes>>

Shown == DOMAIN rows

Fresh == [busy |-> {}, wait |-> [k \in Backed |-> 0], failures |-> [k \in Backed |-> 0]]

Init ==
  /\ at = "turn"
  /\ \E registered \in Registries : rows = [r \in registered |-> Fresh]
  /\ localDue = TRUE
  /\ permits = Permits
  /\ waiting = [w \in Poll |-> 0]
  /\ running = [w \in Poll |-> 0]
  /\ answered = [w \in Poll |-> 0]
  /\ returned = {}
  /\ changes = 0

-----------------------------------------------------------------------------
(* One turn of the loop: start what is due, handle messages, then a key. *)

\* Mutant: a poll that failed is not tried again.
DueAfterSuccess(r, k) ==
  \/ k = "local" /\ localDue
  \/ k \in Backed /\ rows[r].wait[k] = 0 /\ rows[r].failures[k] = 0

Due(r, k) ==
  \/ k = "local" /\ localDue
  \/ k \in Backed /\ rows[r].wait[k] = 0

\* Mutant: the busy flags are not looked at.
StartingAgain(r) == {k \in Kind : <<r, k>> \in Poll /\ Due(r, k)}

\* The background fetch is for rows with a remote.
Starting(r) == {k \in Kind : <<r, k>> \in Poll /\ Due(r, k) /\ k \notin rows[r].busy}

Schedule ==
  /\ at = "turn"
  /\ rows' = [r \in Shown |-> [rows[r] EXCEPT !.busy = @ \cup Starting(r)]]
  /\ waiting' = [w \in Poll |->
                   IF w[1] \in Shown /\ w[2] \in Starting(w[1])
                   THEN waiting[w] + 1 ELSE waiting[w]]
  /\ localDue' = FALSE
  /\ at' = "messages"
  /\ UNCHANGED <<permits, running, answered, returned, changes>>

\* Mutant: the count is not capped.
UncappedFailureCount(current, failed) == IF failed THEN current + 1 ELSE 0

NextFailureCount(current, failed) ==
  IF ~failed THEN 0 ELSE IF current < FailureCap THEN current + 1 ELSE FailureCap

RemoteBackoff(failures) == 2^failures

\* Mutant: a failed poll does not take its busy flag down.
AnsweredUnlessFailed(row, k, failed) ==
  IF failed THEN row ELSE [row EXCEPT !.busy = @ \ {k}]

\* What a message does to the row it is about.
Answered(row, k, failed) ==
  IF k = "local"
  THEN [row EXCEPT !.busy = @ \ {k}]
  ELSE LET n == NextFailureCount(row.failures[k], failed)
       IN [row EXCEPT !.busy = @ \ {k}, !.failures[k] = n, !.wait[k] = RemoteBackoff(n)]

\* Message::Local, Remote or BackgroundFetched.  A message about a row that is
\* gone is dropped; a fetch that succeeded makes the local reads due.
Handle(w, failed) ==
  /\ at = "messages"
  /\ answered[w] > 0
  /\ answered' = [answered EXCEPT ![w] = @ - 1]
  /\ rows' = [r \in Shown |-> IF r = w[1] THEN Answered(rows[r], w[2], failed) ELSE rows[r]]
  /\ localDue' = (localDue \/ (w[2] = "fetch" /\ ~failed))
  /\ UNCHANGED <<at, permits, waiting, running, returned, changes>>

\* Message::Fetched: the fetch the user asked for with r or R, either outcome.
Fetched(r) ==
  /\ at = "messages"
  /\ rows' = [q \in Shown |-> IF q = r THEN [rows[q] EXCEPT !.wait["remote"] = 0] ELSE rows[q]]
  /\ localDue' = TRUE
  /\ UNCHANGED <<at, tasks, returned, changes>>

Drained ==
  /\ at = "messages"
  /\ \A w \in Poll : answered[w] = 0
  /\ at' = "turn"
  /\ UNCHANGED <<rows, localDue, tasks, returned, changes>>

Outstanding(w) == waiting[w] + running[w] + answered[w]

\* reload_registry: rows that stay keep their state, the others start afresh.
\* The registry holds what other processes made of it.
ReloadRegistry(registered) ==
  /\ changes < MaxChanges
  /\ changes' = changes + 1
  /\ rows' = [r \in registered |-> IF r \in Shown THEN rows[r] ELSE Fresh]
  /\ returned' = returned \cup
       {r \in registered \ Shown : \E k \in Kind : <<r, k>> \in Poll /\ Outstanding(<<r, k>>) > 0}
  /\ UNCHANGED <<localDue, tasks>>

\* Message::Added, or a prompt whose Enter ends in reload_registry.
Reload ==
  /\ \E registered \in Registries : ReloadRegistry(registered)
  /\ UNCHANGED at

\* A removal the user confirmed.
Remove ==
  /\ at = "turn"
  /\ changes < MaxChanges
  /\ changes' = changes + 1
  /\ \E r \in Shown : rows' = [q \in Shown \ {r} |-> rows[q]]
  /\ UNCHANGED <<at, localDue, tasks, returned>>

-----------------------------------------------------------------------------
(* The tasks and the clock. *)

Acquire(w) ==
  /\ waiting[w] > 0 /\ permits > 0
  /\ waiting' = [waiting EXCEPT ![w] = @ - 1]
  /\ running' = [running EXCEPT ![w] = @ + 1]
  /\ permits' = permits - 1
  /\ UNCHANGED <<at, rows, localDue, answered, returned, changes>>

Finish(w) ==
  /\ running[w] > 0
  /\ running' = [running EXCEPT ![w] = @ - 1]
  /\ answered' = [answered EXCEPT ![w] = @ + 1]
  /\ permits' = permits + 1
  /\ UNCHANGED <<at, rows, localDue, waiting, returned, changes>>

FiveSeconds ==
  /\ ~localDue
  /\ localDue' = TRUE
  /\ UNCHANGED <<at, rows, tasks, returned, changes>>

Minute ==
  /\ \E r \in Shown, k \in Backed : rows[r].wait[k] > 0
  /\ rows' = [r \in Shown |->
                [rows[r] EXCEPT !.wait = [k \in Backed |-> IF @[k] > 0 THEN @[k] - 1 ELSE 0]]]
  /\ localDue' = TRUE
  /\ UNCHANGED <<at, tasks, returned, changes>>

Next ==
  \/ Schedule
  \/ \E w \in Poll, failed \in BOOLEAN : Handle(w, failed)
  \/ \E r \in Repo : Fetched(r)
  \/ Drained
  \/ Reload
  \/ Remove
  \/ \E w \in Poll : Acquire(w) \/ Finish(w)
  \/ FiveSeconds
  \/ Minute

Turn == Schedule \/ (\E w \in Poll, failed \in BOOLEAN : Handle(w, failed)) \/ Drained

\* The loop goes round (it waits 50 ms for a key), every command a poll runs
\* has a timeout, the semaphore serves its waiters in turn, time passes.
Fairness ==
  /\ WF_vars(Turn)
  /\ \A w \in Poll : SF_vars(Acquire(w)) /\ WF_vars(Finish(w))
  /\ WF_vars(FiveSeconds) /\ WF_vars(Minute)

Spec == Init /\ [][Next]_vars /\ Fairness

-----------------------------------------------------------------------------
(* Properties. *)

RowState == [busy : SUBSET Kind,
             wait : [Backed -> 0..RemoteBackoff(FailureCap)],
             failures : [Backed -> 0..FailureCap]]

\* Every variable keeps its kind; a row never backs off for longer than the
\* cap on its failure count allows, and permits are neither lost nor invented.
TypeOK ==
  /\ at \in {"turn", "messages"}
  /\ Shown \subseteq Repo /\ rows \in [Shown -> RowState]
  /\ localDue \in BOOLEAN
  /\ permits \in 0..Permits
  /\ waiting \in [Poll -> Nat]
  /\ running \in [Poll -> Nat]
  /\ answered \in [Poll -> Nat]
  /\ returned \subseteq Repo
  /\ changes \in 0..MaxChanges

Busy(w) == w[1] \in Shown /\ w[2] \in rows[w[1]].busy

\* A row's busy flag is only ever up while a task or a message is on its way to
\* clear it, also for a row that was removed and added again: a flag nobody
\* clears would end that row's monitoring without a trace.
NeverStuck == \A w \in Poll : Busy(w) => Outstanding(w) > 0

\* One poll of a kind at a time for a row, so a result never arrives after a
\* newer one; only a row that came back while a poll of its id was under way
\* (the id is the checkout's path) can be polled twice at once.
PollsDoNotOverlap == \A w \in Poll : w[1] \notin returned => Outstanding(w) <= 1

\* Monitoring goes on: however the polls end and whatever the user removes and
\* adds, each poll of a row that stays is started again and again, also behind
\* a failing host and while all permits are taken.
Starts(w) == ~Busy(w) /\ Busy(w)'

MonitoringGoesOn ==
  \A w \in Poll : []<>(w[1] \notin Shown) \/ []<><<Starts(w)>>_vars
=============================================================================
