# Phrourion in TLA+

Phrourion (`phro`) watches a set of registered Git checkouts from one terminal
dashboard and from a command line. It polls each checkout and its forge,
fetches, and changes a checkout in two ways only: a confirmed fast-forward pull
and a confirmed checkout of a pull request. This directory holds TLA+ models
of that program, the TLC configurations that check them on small instances,
and theorems about them checked by TLAPS.

Paths below are those of the repository (`src/git.rs` is the file the map
calls `src/src/git.rs`).

## 1. The system

### Components

| Component | Source | State | Operations |
|---|---|---|---|
| Guarded Git operations | `src/git.rs`, `src/command.rs` | the checkout itself (HEAD, refs, config, work tree), `phrourion.lock` in the common Git directory, `LocalState`, `PullPreview`, `CheckoutPreview` | `snapshot`, `fetch`, `preview`, `apply`, `checkout_preview`, `checkout_apply`; `lock`, `identity`, `tracking` |
| Registry | `src/registry.rs`, and its callers in `src/main.rs` and the dashboard | `repos.toml`, `repos.lock`: checkouts, workspaces, active workspace, accounts | `load`, `update`, and the changes add, remove, create/delete workspace, add/remove many, set active, set/remove account |
| Monitoring loop | `src/tui/event_loop.rs:277-430`, `app.rs` | rows with busy flags, deadlines and failure counts; a semaphore of 4; the message channel | start local, remote and fetch polls; handle their messages; `reload_registry` |
| Interactive loop | `src/tui/event_loop.rs`, `src/tui/app.rs` | `Mode` (with help over it), `action_busy`, selection, background tasks | every key and every message of a background action |
| Attention, observations, cache | `src/model.rs`, `app.rs`, `src/tui/cache.rs` | last good observation and its age, attention tier, cached rows | `retain_previous`, notifications, write and read of the cache |
| Overview | `src/tui/app.rs`, `event_loop.rs` | index of the highlighted row, filter, active workspace | keys that move, filter and act; answers and reloads that reorder the rows |
| Credentials | `src/auth.rs`, `main.rs` | system keyring, in-process keyring cache | get, set, remove, replace |
| Providers | `src/provider.rs`, `gitlab.rs`, `bitbucket.rs`, `forgejo.rs`, `provider_http.rs` | none kept between polls | pagination, retries, mapping of failures to observations |
| Drawing and key catalogue | `src/tui/draw.rs`, `keys.rs` | the scroll of help; otherwise none | cells, glyph, header and its advice; the list of keys and when they are available |
| Terminal launcher, animation, path input, screenshot tool | `src/terminal.rs`, `src/tui/animation.rs`, `path_input.rs`, `src/bin/phro-screenshot.rs` | none that outlives a call | one spawn; display; completion |

### How they interact

The event loop is the only writer of the application state. It starts tokio
tasks, which call Git, the forges and the registry and answer with one message
in an unbounded channel. The loop takes every message that has arrived, draws,
waits up to 50 ms for one key, handles it, and starts over. Polls pass through
a semaphore of four permits, actions do not. Dashboard and command lines share
two things: the registry file, under a lock tried once, and each checkout,
under another lock tried once. The user and other programs share the checkout
and take neither lock.

### What is hard, and what correctness means

- *Guarded Git.* Each Git command is a child process awaited by the code; a
  snapshot is three to five of them, a preview has a fetch between two
  snapshots, and hours may pass between preview and confirmation. Correct
  means: two operations of Phrourion never overlap on a checkout; what is
  applied is what was previewed, unless the user interferes in the very moments
  of the apply; even then no commit is lost and nothing moves that was not
  confirmed; and the lock always comes free.
- *Registry.* Several processes load, change and rename one file and may die or
  lose power in between. Correct means: updates are atomic and serial, the file
  is always whole, and no sequence of requests leaves a duplicate or a name
  that names nothing.
- *Monitoring.* Rows are removed and come back while their polls are under way,
  and the messages name a row only by its id. Correct means: no busy flag
  without somebody to clear it, one poll of a kind per row, every row polled
  for ever.
- *Interactive loop.* Messages arrive in the middle of prompts and of help, and
  one flag stands for several tasks. Correct means: only a plan on the screen
  is confirmed, help suspends what it covers, keys are never dead for ever,
  errors stay with their checkout.
- *Overview and keys.* Every answer may reorder the rows under the highlight and
  under an open prompt, and what a key means depends on a mode that messages
  change. Correct means: a key acts on the row that is highlighted, a prompt on
  the row it was opened on, and the help says what the keys do.
- *Attention and cache.* Answers come in any order and fail, a session starts
  from the answers of an earlier one, and the remote of a row may change under
  its poll. Correct means: a failure never passes for an empty answer or a fresh
  one, attention rests on confirmed answers, a row is notified of when it enters
  a notable tier, and what is shown for a remote was read from it.
- *Credentials.* Polls read a secret on other threads while a form replaces it.
  Correct means: a cached secret is never older than the last completed change of
  it in this process, and keyring and registry agree, or differ only by what a
  command has done that failed between the two and was not repeated.
- *Providers.* A poll is up to a dozen queries and many pages, any of which may
  fail while the forge changes. Correct means: what is shown was there, a list
  that is shown as complete is complete, and one failure hides nothing else.

`PROJECT.json` lists the hazards line by line under `hazards`, with the
properties that cover each one.

## 2. The modules

```
GuardedGit ------ MCGuardedGit      RegistryOps --- RegistryPromise
    \                                                   \
     GuardedGitProofs                                    RegistryFile --- MCRegistryFile
                                                         /       \
                                    AtomicRegistry ------         RegistryProofs
                                    (refinement)
Poller ---------- MCPoller                Dashboard ------ DashboardProofs
    \
     PollerProofs                         Overview ------- MCOverview
                                              \
Observations --- Monitor --- Display          ScreenProofs
   |                          |   \           /
   |               MCDisplay -+    \      Keys
   |                          MonitorProofs
   |                                      Credentials ---- MCCredentials
   +---- Providers ---- MCProviders           \
             \                                 CredentialsProofs
              ProvidersProofs
             /
         Paging ------- MCPaging
```

`RegistryFile` composes the value of the registry with the protocol of its file;
`Display` composes what is kept of a row with what is shown of it. `Providers`
and `Monitor` meet in `Observations`: the result of a poll in one is the answer
taken over in the other. `Poller`, `Dashboard`, `Overview`, `Monitor` and `Keys`
are five views of the same event loop, each keeping the state its own properties
depend on and leaving open what the others model, so that, up to the named
bounds, each allows more behaviours than the loop has.

### GuardedGit: fetch, pull, checkout

The checkout is seven variables (`head`, `ref`, `config`, `trk`, `fetchHead`,
`dirty`, `operation`) and `registered`, whether the remote's URL still is the
identity in the registry. The server is `up` and `pr`. `Actor` stands for
tasks and processes of Phrourion alike: `phrourion.lock` is taken on a file
opened anew for each operation, so two tasks of one process exclude each other
as two processes do.

Each Git command is one action: `Identity`, `ReadStatus` (git status),
`ReadRefs` (for-each-ref), `ReadOperation` (the look for MERGE_HEAD and the
like, then the checks of the caller), `Tracking`, `Fetch`, `Target`
(rev-parse), `Merge`, `CheckoutBranch`. The caller's checks between two
commands are in the action that ends the earlier one: `FirstSnapshot`,
`SecondSnapshot` and `Revalidation` are the three places the code calls
`snapshot` from. Every early return, failed command and time-out is `Bail`: it
drops the guard file, which releases the lock. `Interrupted` is a time-out
that kills git while it writes the work tree.

Commits are abstract; `Ancestors` gives reachability, and the numbers ahead and
behind are computed from it as Git does. The user's actions may happen between
any two commands: commit or reset, switch, detach, create and delete branches,
edit, start or end a merge, change the upstream, change the remote's URL,
fetch. `touched[a]` records that the user acted since `a` took the lock. It is
a hypothesis of the two properties about an undisturbed apply and nothing in
the model reads it: `git merge` acts on whatever HEAD is at that moment, and
`docs/design.md` says as much of external programs.

### RegistryOps, RegistryPromise, RegistryFile, AtomicRegistry

`RegistryOps` is the value of a registry and the changes, each as the set of
registries it can lead to: empty when the code bails out. Workspace names are
compared in lower case but stored as spelled, hence `Spelling` and `Fold`. The
vectors are sets of entries: their order is display, and an entry listed twice
with different memberships still shows.

`RegistryFile` is `registry::update` in steps, run by several processes:
`TryLock`, `Load`, `Change`, `Write`, `Sync`, `Persist` (rename), `Return`,
with `Fail` before the rename, `Die` anywhere and `PowerLoss`, which loses what
was not synced. `Edit` is a hand edit of the active workspace, which `load`
is written to survive. `AtomicRegistry` is the promise: one registry, one
request at a time, applied whole or not at all. `ImplementsAtomic` instantiates
it with the content of the file, the pending request and the answer.

What "applied whole" means is not left to the operators that apply it:
`RegistryPromise` says for each kind of request when it may succeed and what is
different then, in terms of who is listed (`Roster`) and who is in which
workspace however it is spelled (`Members`), and that the rest is as before. Its
sentences about several selectors are that each of them means one checkout, and
that the members are those there were, with, or without, all of the selected
ones. `AtomicRegistry` takes that promise as its constant, so a change that took
a list in part would break the refinement (the mutant `AddFound` does).

### Poller

One turn is `Schedule` (start what is due), any number of `Handle`, `Fetched`
and `Reload` (messages), `Drained`, and then possibly `Reload` or `Remove`
(keys). `Acquire` and `Finish` are the tasks. Deadlines are countdowns in
minutes: 1, 2, 4, 8, 16, the back-off of `remote_backoff`. A row that leaves
takes its flags with it; its tasks go on and send their messages, which find no
row or a new one under the same id. `returned` remembers such ids.

### Dashboard

`mode` is `App.mode`, or the suspended mode while `help` is open; `pending` is
the preview that waits for help to close. `jobs` are background tasks, each
with at least one message to send (`ended`); a fetch of all rows sends one for
each. Actions are named after the keys and messages: `Confirm`,
`SubmitAdd`, `PreviewMessage`, `AddedMessage` and so on. What was typed is
abstracted to acceptable or not, and what Git and the registry answer is left
open, since the modules above say what it is. `loop = "failed"` is an error or
panic that leaves the event loop. `drawn` says that the mode on the screen is
the current one.

### Observations, Monitor, Display

`Observations` is `Observation<T>` of `src/model.rs`: data, error, supported,
with `RetainPrevious`, and the two readings of it in the dashboard, `Label` and
`CellState`. The time of a read is set and kept with the data, so having data
stands for it.

`Monitor` has the `rows` with their local and remote observations, the `polls`
under way (what they are about was fixed when they started), the `cache` file of
each remote and the `registry`, which others change. `StartPoll`,
`LocalMessage`, `RemoteMessage`, `Reload`, `Remove` are the loop's; `Restart`
ends the program anywhere and starts it from the registry and the cache;
`EditRegistry` is another process. A failed write of the cache is a branch of
`RemoteMessage`, since nobody sees it. `Attention` looks for its reasons in the
order of the code. `told` is the reason of the last notification: what
`notify_on_attention_entry` did, kept as state. `heard` and `swapped` are
history, read by properties only: the sources whose last answer to a row was a
success, and that a row took on another remote while data or a poll of the
former one was about.

`Display` adds no state: `Count`, `CiLabel`, `HealthGlyph`, `Triage`,
`ActionMessage` are functions of the rows as in `draw.rs`. A list is a set of
items; the items whose detail contains one of `CI_FAIL_MARKERS` are
`FailMarked`.

### Providers, Paging

`Providers` is one poll of one repository. `answer` has what each query
brought, `forge` what the forge holds at the moment, `during` what it has held
since the poll began. `Asks(q)` is the order of the queries: GitHub asks for
the repository, then for its lists and the user together, then for the head,
its checks, its statuses and the workflows one after the other; GitLab and
Bitbucket ask for everything at once; Forgejo in three rounds. `Answer`,
`QueryFails`, `FeatureIsOff` (404 on the first page, Forgejo) and
`AnswerIsPartial` may interleave with `ForgeChanges`. The last is an answer that
lacks something and passes for whole, because the code does not check it: a user
without a name, or statuses missing from Forgejo's combined status.
`GithubSnapshot` and the other three are the adapters'
mapping of answers to the ten fields of `RemoteState`; `NoClient` is
`failed_snapshot`. The queries of GitHub through `gh` and through the API are
the same ones.

`Paging` is the reading of one list, in the four ways the code has: following
links (`provider_http.rs`), counting to a limit (`gitlab.rs`), counting without
one (`forgejo.rs`), and `gh` with its attempts after a rate limit
(`provider.rs`). The forge cuts pages of its own size, fails, limits, links to
pages read before, and items come and go between pages.

### Credentials

The system's `keyring`, the dashboard's `cache` of it with the time of each
entry, the `accounts` of the registry. A read is `Begin` (environment first),
`Look` (the cache), `ReadKeyring` or `ReadFails`, `Publish`
(`publish_if_fresh`); reads are on many threads. A command of the accounts form
or of `phro auth` is `Call`, `Load` (whose account is replaced?), `Forget`,
`Uncache`, `Store`, `Recache`, `Update`; between any two of them it may fail or,
in a process of its own, die (`Fails`). Only the form shares the cache with the
polls. An update of the registry is one step, as `RegistryProofs` shows.
`foreign`, `owed` and `disturbed` are history: the keys that other processes have
changed, the commands that failed or died and were not repeated to their end
since, and that two commands were under way at a time.

### Overview, Keys

`Overview` is the list on the screen: `rows` with their tier and workspaces,
`matched` (the filter), `active`, and `selected`, an index into the visible
rows in order of tier and name. `IndexAfter` is `update_rows`, used by
`PollAnswered` and by `Reload`, which sets the active workspace first as the
code does. A prompt remembers the row it was `opened` on, for the properties;
the code looks it up at Enter. `AddRuns` and `Elsewhere` are other tasks and
processes that change the registry `file`.

`Keys` has the dispatch of every key in every mode (`NormalKey`, `TextKey`,
`PickerKey`, `ConfirmKey`, `HelpKey`, `OpensHelp`) next to `IsAvailable`, the
catalogue of `keys.rs`. Arrows are not told apart from the letters that mean the
same.

## 3. What the runs check

| Run | Question | Properties |
|---|---|---|
| `guarded_git` | Is the lock exclusive and given back, is what is applied what was previewed, what can move a branch? | `TypeOK`, `OneAtATime`, `UndisturbedPull`, `UndisturbedCheckout`, `FetchHeadIsThePullRequest`, `ConfirmedMovesOnly`, `LockComesFree` |
| `registry_file` | Is `update` atomic and serial under failures, deaths and power loss, and does any sequence of requests keep the registry consistent? | `TypeOK`, `OneUpdateAtATime`, `NeverTorn`, `NoDuplicates`, `NothingDangles`, `ImplementsAtomic`, `LockComesFree` |
| `poller` | Can a flag stick, can polls overlap, does monitoring go on? | `TypeOK`, `NeverStuck`, `PollsDoNotOverlap`, `MonitoringGoesOn` |
| `dashboard` | What is confirmed, what does help suspend, do the keys come back? | `TypeOK`, `BusyHasAnAction`, `ConfirmedOnScreen`, `HelpSuspends`, `KeysComeBack` |
| `monitor` | Is attention confirmed and told, is old data marked, is a row's data its remote's, do the displays of it agree, is data ever lost? | `ConfirmedAttention`, `NoticeWasGiven`, `StaleIsMarked`, `OwnRemote`, `OverviewAgrees`, `SuccessReplaces` |
| `providers` | Does a snapshot say only what was there, does a failure stay where it happened? | `SnapshotIsHonest`, `FailuresAreContained` |
| `paging` | Is a list that is taken for whole the whole list, does reading end? | `WholeIsWhole`, `ReadingEnds` |
| `credentials` | Is the cache ever older than the keyring, does a change show at once, do keyring and accounts agree? | `CacheIsFresh`, `ReadsOwnWrites`, `SecretsMatchAccounts` |
| `overview` | Does the highlight follow its row, do keys and prompts act on theirs? | `KeysActOnTheirRow`, `SelectionFollows` |
| `keys` | Does the catalogue say what the handlers do, does help scroll back? | `HelpIsInBounds`, `KeysMatchCatalogue` |
| `dashboard_errors` | Do errors stay out of the loop? **No.** | `ErrorsDoNotEndTheLoop` |
| `dashboard_busy` | Is the busy hint up while an action runs? **No.** | `RunningActionIsShown` |

Some properties have named parts, each with its own comment in the module:
`SnapshotIsHonest` is `TypeOK`, `HonestSnapshot`, `ChecksOfOneCommit` and
`RunningIsShown`; `FailuresAreContained` is `FailureStaysLocal` and
`BackoffIsDeserved`; `WholeIsWhole` is `PagingTypeOK`, `WholeOrNothing` and
`NothingSkipped`; `KeysActOnTheirRow` is `TypeOK`, `SomethingHighlighted` and
`PromptStays`; `HelpIsInBounds` is `KeysTypeOK` and `HelpScrollsBack`;
`OverviewAgrees` is `AdviceFollowsAttention` and `FailingCheckShows`. `Mutant`
definitions in the modules are plausible bugs; each property is violated by at
least one, and `PROJECT.json` pairs them.

The two violated runs are disagreements between the code and what the
repository says of it:

- Enter in the add-to-workspace or remove-from-workspace prompt, with All
  active or no visible row, runs `bail!` inside `event_loop`
  (`src/tui/event_loop.rs:583`) and ends the dashboard. The other prompts
  record the error; `docs/design.md:46` says errors do not prevent navigation.
  The `?` on `registry::load` (419, 665) and the index of the workspace picker,
  which drawing uses unchecked (`src/tui/draw.rs:933`) and a reload can put out
  of range, lead to the same state.
- The first of the messages of `R` clears `action_busy` (380) while the other
  rows are still being fetched, and so does the message of `o` (408) while any
  action runs. `src/tui/mod.rs:1684` says the busy hint should show while an
  action runs.

### Bounds, and why they are enough

- `guarded_git`: two actors (the lock has one holder and the code compares no
  two waiters), one interference by the user and one push anywhere, the branch
  `main`, one pull request, and three commits: a root, one ahead of it and one
  beside, so that an ancestor, a descendant and a diverged pair occur. The
  theorems of section 4 hold for any history, branches, number of actors and
  interferences.
- `registry_file`: two checkouts with the same directory name (so a name is
  ambiguous), two spellings of one workspace and the reserved name, one host and
  two kinds of forge. `alone` picks the situation: one process that makes every
  request in any order and number, failing and dying anywhere, or two processes
  and seven requests, each of which reads something another one changes.
- `poller`: one row that may leave and come back (two changes), or two rows,
  one of them local, that compete for one permit. One permit is harder than
  four: it makes every poll wait behind every other. `FailureCap` 1 instead of
  4 makes the longest back-off 2 minutes; no guard depends on its value.
- `dashboard`: two rows, one named workspace besides All, and two background
  tasks at once. `action_busy` admits one guarded task; the second slot is for
  the unguarded `o`, or for the guarded task that its message lets in.
- `monitor`: one row, since rows share nothing but cache files of one remote,
  which the removal and return of the row exercises; two remotes; checks and
  release proposals (an alarming field and a calm one); a failing and a running
  item; one poll of each kind and remote at a time. Three worlds, each small in
  another respect: six local states with one remote; two remotes between which
  the registry may change, checks only; failing and running checks together.
- `providers`: each kind of forge, with a registry that asks for labelled issues
  only; a forge that is empty throughout, or one that alternates between two states that
  differ in head, lists, checks and runs; two workflows. Every query may fail, and
  those whose gaps go unnoticed may be answered in part, by any part.
- `paging`: lists of none to five items, so that a list ends before, at and
  after a page and the limit of two pages; forges with pages smaller than, equal
  to and larger than the two items asked for; two changes of the list, three
  attempts, and links to any page read before.
- `credentials`: one host with two providers, one of which replaces the other;
  two reads, the form and one shell command beside it, two commands in all, so that one may fail and be repeated or
  followed by another; a
  cache entry lives for two ticks of three. Two situations: one key and both
  reads, or both providers and one read.
- `overview`: three checkouts in two tiers, which can change places around the
  highlight, one workspace, one command of another process and one other task.
- `keys`: help one line longer than the screen, pages of two, numbers that
  saturate at three, two background tasks. The theorems hold for any of these.

A bound on tasks, commands or changes only limits how much happens in one
behaviour; every such bound is a named constant in the guard of the action it
limits.

### Fairness

- Git operations (`Running(a) /\ Progress(a)`, weak): every command is awaited
  with a time-out of 45 s (`src/command.rs:49`), after which it fails. Nothing
  obliges the user to start or confirm.
- `registry::update` (weak, per process): straight-line code that waits for
  nobody. Dying is allowed at every step.
- Event loop (`Turn`; in Dashboard a message, a draw or a key, weak): the loop
  waits at most 50 ms for a key. Tasks finish (weak): each command and request
  has a time-out.
- Permits (`Acquire(w)`, strong): tokio's semaphore serves waiters first in,
  first out, so a waiter is not passed over for ever although permits come and
  go. The model keeps no queue and assumes its consequence.
- Time passes (weak): `FiveSeconds`, `Minute`.
- Paging (`Read`, weak): every request and every call of `gh` has a time-out.

`NoKey` is one of the outcomes of waiting for a key, so liveness of the
dashboard never depends on the user pressing anything. `Monitor`, `Providers`,
`Credentials`, `Overview` and `Keys` state safety only: what must go on there is
the business of `Poller`, `Paging` and `Dashboard`.

## 4. What is proved

Every theorem holds for all values of the constants that satisfy the named
assumptions: names do not collide, `Ancestors` is reflexive and transitive with
finitely many ancestors for each commit, `Torn` and `NoFile` are no registry,
the repositories and the items of a list are finitely many and a checkout with
conflicts is dirty (`dirty` at `src/git.rs:31` counts them), and the lists
`Contents` repeat no item.

Inductions over data are made where they can be stated with sets: a set of
numbers that is not empty has a least one, a finite set has a rank for each of
its elements, and sums over finite sets are built up one element at a time. The
library's induction theorems that take an operator cannot be instantiated by
the installed provers, and no module uses RECURSIVE.

`GuardedGitProofs`:
1. `TypeCorrect`. `LocalsSet`, a part of `TypeOK`, says where in an operation
   which local is set; without it the fields of a plan could not be typed.
2. `Exclusion`: whoever runs holds the lock. An actor starts only by taking it,
   and `Release` frees it only for its holder.
3. `ReadsStillHold`, the inductive invariant. The properties speak of the last
   moment before `git merge` or `git checkout -b`; they are not inductive,
   because what is known there was read many commands earlier. `StillHolds(a)`
   says, for each command of an apply, which parts of the checkout the actor
   has read and that they still are so while the user left it alone; other
   actors cannot disturb them, because they do not run (2), and `fetch` of the
   actor itself happens before the reads it could spoil. `PreviewedBehind`
   carries "the preview was behind its upstream" across the wait for
   confirmation.
4. `PullAppliesItsPreview`, `CheckoutAppliesItsPreview`, `FetchHeadIsRead` are
   consequences. That the merge is a proper fast-forward is arithmetic: zero
   commits ahead and a positive number behind make HEAD a proper ancestor of the
   upstream (lemma `FastForward`, from cardinalities of finite sets).
5. `MovesAreConfirmed`, an action property, with no hypothesis about the user.
6. `OperationsAreBounded`: the measure `CommandsLeft` goes down with every command
   of an operation and nobody else raises it. It needs `LocalsSet`, to tell the
   two snapshots of a preview apart, and `AppliesPlan`, that the apply of a pull
   request looks up nothing. This is the part of `LockComesFree` that does not
   rest on fairness, and no run states it.

`RegistryProofs`:
1. `UpdateCorrect`: types, exclusion and `SerialInv` together. `SerialInv` says
   that from load to rename the memory of the lock's holder is made from what is
   in the file; it needs exclusion to hold, and it is what makes `Persist` an
   atomic `Apply`.
2. `RegistryTypes`, `OneUpdate`, `RegistryNeverTorn` (only synced temporary files
   are renamed).
3. `RegistryHasNoDuplicates`, `LoadedNothingDangles`: every change keeps a
   registry consistent (lemma `ChangesKeepConsistent`, one case per request), and
   loading repairs the one thing a hand edit can break.
4. `UpdateIsAtomic`: each step of `RegistryFile` is a step or a stutter of
   `AtomicRegistry`. That a rename is an `Apply` rests on `ChangesKeepPromise`, one
   lemma per kind of request: what `RegistryOps` makes of a consistent registry
   is what `RegistryPromise` allows. It needs 3, since a selector that is found
   means one checkout only where no checkout is registered twice.

`PollerProofs`:
1. `PollsCorrect`, the inductive invariant. `PollsDoNotOverlap` alone is not
   inductive: a poll that is alone stays alone only because its flag keeps the
   scheduler away, so `Alone` adds that a flag that is down has nothing under
   way. Each step is first reduced to what it does to flags and tasks
   (`Restarting`, `Answering`, or `Quiet`), whatever it does to deadlines.
2. `FlagsComeDown` and `OnePollAtATime` are its two halves.
3. `PollerTypes`: kinds and bounds. The permits are those that no run holds
   (`PermitsAccounted`), and the longest back-off of `remote_backoff` is that of
   the capped exponent: 2^n grows with n (`BackoffGrows`, by counting subsets).

`DashboardProofs`:
1. `DashInv` adds two facts to the properties: a slot that owes a message has a
   job, and a key is read only after a draw (`DrawnAtKey`), which is what makes a
   confirmation one of something on the screen.
2. Each key is reduced to nothing or one `Launch` of an action (`KeyLaunches`);
   each message, to a slot that gives up a job (`TookStep`).
3. `DashboardTypes`, `FlagNeedsAnAction`, and the two action properties
   `OnlyConfirmedPlans` and `HelpKeepsTheMode`.

`MonitorProofs`:
1. `MonitorInvariant`, by one lemma per action: types, `RowOK` for each shown
   row (it was told of its tier, and an observation that is confirmed, or has data
   and no error, comes from a source in `heard`),
   and, as long as nothing was swapped, that each poll is about the remote of
   its row (`PollsAreOwn`) and each file holds its own remote's data
   (`FilesOwn`). The last two need each other: a row is filled by polls and
   files, and a file by rows. An answer has two cases, that of a row that is
   gone (`NobodyListens`) and that of one that is there (`OneListens`).
2. `MonitorTypes`, `AttentionIsConfirmed`, `StaleSaysSo`, `NoticesAreGiven` and
   `DataIsOwn` are consequences. The first goes through `AttentionGrounds`: a
   reason has at least one confirmed ground.
3. `NothingIsLost`, an action property: the only step that replaces what a field
   shows is an answer to that row, and it replaces data by data or by
   "unsupported" (lemma `AnswerFollows`).
4. `OverviewsAgree` joins `Display`: the totals of the header are sums over rows,
   and one row with something to show makes its total positive
   (`TotalCounts`, by induction on the set of rows). It needs `HeardIsCalm`, the
   converse of `RowOK`: a source in `heard` shows no error, so what is said to be
   stale was not heard.

`CredentialsProofs`:
1. `CredentialTypes`.
2. `CacheStaysFresh` and `OwnWritesAreRead`, from `FreshInv`. Freshness alone is
   not inductive: a read that is about to publish may hold an old value. It is
   harmless because the entry that overtook it is not older than the read
   (`Overtaken`), which is what the strict comparison of `publish_if_fresh` looks
   for. `KeptApart` says that a read under which no write has begun has,
   and keeps, the keyring's value.
3. `SecretsAreThoseOfAccounts`. The property is about commands that have ended;
   `SecretsInv` says the same of every moment, counting the command that is under
   way as if it failed now (`Open`), so that failing is no step at all for it.
   `Phase` is what the last step of a command needs to be taken off that list:
   the replaced secret is gone, its own is there.

`ProvidersProofs`:
1. `PollIsSound`, the inductive invariant `PollInvariant`: every answer shows
   the forge as it was at a moment of the poll (`Origin`, `RunsSeen`), checks
   and statuses are of the commit that was found (`OfCommit`; of Forgejo's, those
   that its combined status has), workflows are
   answered in their order up to the first that fails (`InOrder`), and the
   result, once there, is what the adapter makes of the answers that are there
   (`FromAnswers`, `Kept`). `InOrder` names the number of workflows read, which
   spares an induction over their sequence.
2. `SnapshotsAreHonest`: by kind of forge and field, what each mapping shows is
   the meaning of the field at the moment its query was answered.
3. `FailuresStayLocal`: the other direction, from an error in a field to a
   query it rests on that has failed.
4. `WholeListsAreWhole`, about `Paging`. What has been read says nothing of what
   is still to come, so the invariant says where reading stands: of a list that
   stood still, exactly the pages before `next` have been read
   (`StandingStill`); of a list that grew, what was there at first is read or
   still ahead, wherever the new items went (`NoneLost`); and `gh` has attempts
   left and has read nothing until it has read everything (`AllAtOnce`).
5. `RoundsAreBounded`: the measure `RoundsLeft` goes down with every round. It
   needs `Rounds`, that no list is longer than it could have grown and no page
   asked for is beyond its end. This is the part of `ReadingEnds` that does not
   rest on fairness, and no run states it.

`ScreenProofs`:
1. `OverviewSound`, the inductive invariant of `Overview`. An index is the number of
   visible rows before a row; that two rows have different ones, and that each
   number below the count of rows is the index of one, is `RowsAreNumbered` (the
   ranks are an injection from a finite set into as many numbers). `InView` says
   that the index is not beyond the last visible row when a key is read and while
   a prompt has its row; at other moments it may be.
2. `KeysActRight` and, as an action property, `HighlightFollows`: what
   `IndexAfter` finds is the index of the same row in the new order
   (`IndexKeeps`).
3. `HelpKeepsUp`, about `Keys` (a frame clamps the scroll that keys have raised, and
   a key is read only after a frame) and `CatalogueIsTrue` (for each key, that
   its guard and its availability are the same condition, and that what it does
   changes the view).

Only model-checked: the liveness properties, `LockComesFree` (twice),
`MonitoringGoesOn`, `KeysComeBack` and `ReadingEnds`. Their proofs need ENABLED,
which the prover does not support.

## 5. Observed

Points where code and documents differ, or where the code does what a reader may
not expect, met while modelling. They have no violated run of their own: the
models do what the code does, and the properties name the exceptions.

- GitHub's `user` query may fail while the pull requests are read
  (`src/provider.rs:291`): the reviews asked of the user are then an empty list
  and a count of 0, where `docs/design.md:80` says that a failed query cannot
  produce one. GitLab and Bitbucket fail the field instead. `Unasked` in
  `Providers` excepts it from `HonestSnapshot`.
- A user that is answered without a login, or without any of the keys reviewers
  are compared by, is accepted by GitHub, GitLab and Bitbucket
  (`src/provider.rs:291`, `src/gitlab.rs:219`, `src/bitbucket.rs:256`): no
  review matches, and an empty list is shown as a success, against the same
  line of `docs/design.md`, which names incomplete queries too. Also excepted by
  `Unasked`.
- Forgejo's combined status is accepted with `statuses` missing or no list, as
  one without any, and only its first page is read
  (`src/forgejo.rs:235-247`): the row may show no checks, or not all, as a
  success, again against `docs/design.md:80`. `ChecksOfOneCommit` claims that
  none is missing only of an answer that is whole; that all are of one commit it
  claims always.
- Bitbucket's release proposals are a successful empty list whatever happened
  (`src/bitbucket.rs:131`), also excepted; they are not looked for there.
- GitLab's pipelines are those of all refs (`src/gitlab.rs:498`);
  `docs/design.md:82` says that CI in the overview is of the default branch.
  `ChecksOfOneCommit` is about GitHub and Forgejo.
- A Forgejo instance whose maximum page size is below 50 ends every list at its
  first page (`src/forgejo.rs:101`); `SizeHonoured` assumes this away.
- A remote answer is written to the cache under the identity the row has when it
  arrives (`src/tui/event_loop.rs:364`), not the one it was asked for. The cache
  file's key tells remotes apart (`src/tui/cache.rs`), the answer does not say
  whose it is. `OwnRemote` holds until a path is registered with another remote
  while data or a poll of the former is about; a reload also keeps the former
  remote's data in the row.
- No notification is sent when a row goes from the pending tier to the problem
  tier (`src/tui/event_loop.rs:68`), though it "newly enters" conflict or failed
  CI (`README.md:90`). `unpushed` and `incoming` are notified of although the
  README does not list them. A failed refresh makes a row calm, so the success
  after it notifies again of the same thing. `NoticeWasGiven` is about the
  tiers as the code has them.
- `reload_registry` sets the active workspace before `update_rows` looks up the
  highlighted row (`src/tui/event_loop.rs:255-260`): when another process or a
  half-failed creation has switched the workspace, the highlight may come to
  another row than the one it was on, against `README.md:86`. `SelectionFollows`
  is about reloads that do not switch it.
- The header counts what failed or is stale as 0 for remote lists, but takes a
  stale local state as it is (`src/tui/draw.rs:185-192`). It does not know of
  unpushed commits.
- Help calls `m` and `u` unavailable without a selected row and `o` available on
  a row without a web page; the handlers decide otherwise
  (`src/tui/event_loop.rs:763`, 825), against `README.md:135`. `KeysMatchCatalogue`
  names both exceptions.
- Closing help over a prompt with a preview pending shows the preview and drops
  the prompt (`src/tui/app.rs:267`); `README.md:111` says that it returns to the
  interrupted prompt. A preview that arrives while the user types does the same.
- A terminal that is a symbolic link is run by its target's name, which may be
  none of the supported ones (`src/terminal.rs:64`).
- `CI_FAIL_MARKERS` are looked for anywhere in a check's detail, and GitLab's
  `failed` and Bitbucket's `FAILED` are none of them (`src/tui/app.rs:10`).

## 6. What is not modelled, and why

- *Durability of the rename.* `update` syncs the file and not its directory; the
  model takes the rename as durable. If it is not, the earlier registry
  reappears whole.
- *`parse_remote`, path resolution, listing commands, `path_input`*: pure
  functions on strings.
- *JSON, URLs, headers and time stamps of the forges*: an answer is the data it
  stands for, a failure, which is also what an answer is that the code finds
  malformed, or one of the incomplete answers it does not notice (`Incomplete`
  in `Providers`). A single item without a title, link or state is shown with
  blanks, or as the mapping takes it, and is not told apart from a complete one.
- *The lookup of `gh`'s token and of Git's credential helper*: one read each,
  after the keyring; `"anonymous"` in `Credentials` stands for them.
- *Layout, colours, the tabs of details, scrolling of the log, the animation*: no
  other part reads them.
- *Typed text*: acceptable or not, or the set of rows it matches.
- *`terminal.rs`* searches for a program and spawns it; the screenshot tool
  draws fixtures. Neither keeps state, and no step comes between theirs.
