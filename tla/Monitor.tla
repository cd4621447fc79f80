------------------------------- MODULE Monitor -------------------------------
(***************************************************************************)
(* What the rows of the dashboard show and where it comes from: the local  *)
(* and the remote observations (src/src/model.rs, tui/app.rs), how the     *)
(* event loop takes over the answer of a poll and raises a notification    *)
(* (tui/event_loop.rs), and the cache on disk a new session starts from    *)
(* (tui/cache.rs).                                                         *)
(*                                                                         *)
(* A row is identified by the path of its checkout.  Which remote the path *)
(* stands for is in the registry, where other processes change it too.  A  *)
(* Remote here is what the cache file is keyed by: the remote's identity   *)
(* and the rules for its releases and issues.  What a poll finds is left   *)
(* open, when polls run is in Poller.                                      *)
(***************************************************************************)
EXTENDS Observations

CONSTANTS Repo,         \* ids of checkouts, which are their paths
          Remote,       \* remote identities
          Absent,       \* not in the registry
          Field,        \* the fields of RemoteState that are looked at
          Item,         \* what a remote list may hold
          FailMarked,   \* the items that match CI_FAIL_MARKERS
          LocalStates,  \* what a snapshot of a checkout may find
          Checkout,     \* what a local poll reads, instead of a remote
          NoFile,       \* no cache file
          MaxPolls      \* bound on the polls of one row and kind under way

LocalState == [conflicts : BOOLEAN, upstream : BOOLEAN, ahead : BOOLEAN,
               behind : BOOLEAN, dirty : BOOLEAN]

\* A list and the remote it was read from.
Data == [of : Remote, items : SUBSET Item]

LocalObservation == ObservationOf(LocalStates)
RemoteState      == [Field -> ObservationOf(Data)]

ASSUME MonitorAssumption ==
  /\ LocalStates \subseteq LocalState
  /\ Nothing \notin LocalStates
  /\ Nothing \notin Data
  /\ NoFile \notin RemoteState
  /\ Absent \notin Remote /\ Checkout \notin Remote
  /\ FailMarked \subseteq Item
  /\ Field \subseteq {"ci", "proposals", "drafts", "issues", "prs", "default_branch"}
  /\ MaxPolls \in Nat \ {0}

Source == {"local"} \cup Field
Kind   == {"local", "remote"}
Poll   == [id : Repo, of : Remote \cup {Checkout}]
Row    == [identity : Remote, local : LocalObservation, remote : RemoteState,
           busy : SUBSET Kind]

VARIABLES
  registry,  \* the remote each path is registered with
  rows,      \* App.rows: a RowState for each shown path
  polls,     \* polls started whose message is not handled yet
  cache,     \* the cache file of each remote
  told,      \* for each shown row in a notice tier, the reason last notified
  heard,     \* history: the sources whose last answer to this row succeeded
  swapped    \* history: some row took on another remote with a poll or data
             \* of the former one about

vars == <<registry, rows, polls, cache, told, heard, swapped>>

Shown == DOMAIN rows
Registered == {r \in Repo : registry[r] # Absent}

-----------------------------------------------------------------------------
(* Attention. *)

\* What attention() sees of the checkout when there is no confirmed read.
Nondescript == [conflicts |-> FALSE, upstream |-> FALSE, ahead |-> FALSE,
                behind |-> FALSE, dirty |-> FALSE]

\* Mutant: a stale read of the checkout counts as well.
KnownOrStaleLocal(row) == IF row.local.data # Nothing THEN row.local.data ELSE Nondescript

KnownLocal(row) == IF Confirmed(row.local) THEN row.local.data ELSE Nondescript

\* ci_failed_confirmed, and known_count of the two release lists
CiFailedConfirmed(row) ==
  "ci" \in Field /\ Confirmed(row.remote["ci"])
                 /\ row.remote["ci"].data.items \cap FailMarked # {}

ReleasePending(row) ==
  \E f \in {"proposals", "drafts"} \cap Field :
    Confirmed(row.remote[f]) /\ row.remote[f].data.items # {}

\* Reasons in the order in which attention() looks for them.
Attention(row) ==
  LET s == KnownLocal(row)
  IN IF s.conflicts                             THEN "Conflicts"
     ELSE IF s.upstream /\ s.ahead /\ s.behind  THEN "Diverged"
     ELSE IF CiFailedConfirmed(row)             THEN "CI failed"
     ELSE IF s.upstream /\ s.ahead              THEN "unpushed"
     ELSE IF s.upstream /\ s.behind             THEN "incoming"
     ELSE IF ReleasePending(row)                THEN "Release pending"
     ELSE IF s.dirty                            THEN "Local changes"
     ELSE ""

Problems == {"Conflicts", "Diverged", "CI failed"}
Pending  == {"unpushed", "incoming", "Release pending"}
Notable  == Problems \cup Pending

\* The sources an attention reason rests on.
Grounds(reason) ==
  CASE reason \in {"Conflicts", "Diverged", "unpushed", "incoming", "Local changes"} -> {"local"}
    [] reason = "CI failed" -> {"ci"}
    [] reason = "Release pending" -> {"proposals", "drafts"}
    [] OTHER -> Source

\* entered_notice_tier
EnteredNoticeTier(before, after) == before \notin Notable /\ after \in Notable

\* notify_on_attention_entry, as the reason last told: a row that is calm
\* again has been told nothing.
TellingAfter(r, before, after) ==
  IF EnteredNoticeTier(before, after) THEN after
  ELSE IF after \in Notable THEN told[r] ELSE "nothing"

-----------------------------------------------------------------------------
(* The cache and a new session. *)

\* Mutant: what is read from the cache is not marked as waiting.
CachedAsFresh(i) == IF cache[i] = NoFile THEN [f \in Field |-> Default] ELSE cache[i]

\* cached(): every field fails with the placeholder and keeps the file's data
Cached(i) ==
  [f \in Field |-> IF cache[i] = NoFile THEN Default
                   ELSE RetainPrevious(Failure(Waiting), cache[i][f])]

\* App::with_registry
FreshRow(i) == [identity |-> i, local |-> Default, remote |-> Cached(i), busy |-> {}]

NoPolls == [p \in Poll |-> 0]
Untold  == [r \in Repo |-> "nothing"]

\* The program is first started with some registry and no cache.
Init ==
  /\ registry \in [Repo -> Remote \cup {Absent}]
  /\ cache = [i \in Remote |-> NoFile]
  /\ rows = [r \in Registered |-> FreshRow(registry[r])]
  /\ polls = NoPolls
  /\ told = Untold
  /\ heard = [r \in Repo |-> {}]
  /\ swapped = FALSE

\* The program ends, in whatever way, and is started again.
Restart ==
  /\ rows' = [r \in Registered |-> FreshRow(registry[r])]
  /\ polls' = NoPolls
  /\ told' = Untold
  /\ heard' = [r \in Repo |-> {}]
  /\ UNCHANGED <<registry, cache, swapped>>

-----------------------------------------------------------------------------
(* Polls and their messages. *)

KindOf(p) == IF p.of = Checkout THEN "local" ELSE "remote"

StartPoll(r, k) ==
  LET p == [id |-> r, of |-> IF k = "local" THEN Checkout ELSE rows[r].identity]
  IN  /\ r \in Shown /\ k \notin rows[r].busy
      /\ polls[p] < MaxPolls
      /\ polls' = [polls EXCEPT ![p] = @ + 1]
      /\ rows' = [rows EXCEPT ![r].busy = @ \cup {k}]
      /\ UNCHANGED <<registry, cache, told, heard, swapped>>

\* What git::snapshot answers, and what an adapter may answer about remote i.
LocalAnswers == {Success(s) : s \in LocalStates} \cup {Failure(Failed)}

FieldAnswers(i) ==
  {Success([of |-> i, items |-> s]) : s \in SUBSET Item} \cup {Failure(Failed), Unsupported}

HeardAfter(r, k, answer) ==
  IF k = "local"
  THEN IF answer.error = NoError THEN heard[r] \cup {"local"} ELSE heard[r] \ {"local"}
  ELSE (heard[r] \cap {"local"}) \cup {f \in Field : answer[f].error = NoError}

\* The row changes, and the change of its attention may raise a notification;
\* a message about a row that is gone changes nothing.
TakeOver(p, row, answer) ==
  /\ rows' = [q \in Shown |-> IF q = p.id THEN [row EXCEPT !.busy = @ \ {KindOf(p)}] ELSE rows[q]]
  /\ told' = [told EXCEPT ![p.id] = IF p.id \in Shown
                THEN TellingAfter(p.id, Attention(rows[p.id]), Attention(row)) ELSE @]
  /\ heard' = [heard EXCEPT ![p.id] =
                IF p.id \in Shown THEN HeardAfter(p.id, KindOf(p), answer) ELSE @]

Handled(p) == polls[p] > 0 /\ polls' = [polls EXCEPT ![p] = @ - 1]

LocalTaken(row, o) == [row EXCEPT !.local = RetainPrevious(o, @)]

\* Mutant: a failed field makes the row keep nothing.
RemoteTakenAsIs(row, state) == [row EXCEPT !.remote = state]

RemoteTaken(row, state) ==
  [row EXCEPT !.remote = [f \in Field |-> RetainPrevious(state[f], @[f])]]

\* Message::Local
LocalMessage(p, o) ==
  /\ p.of = Checkout /\ Handled(p)
  /\ TakeOver(p, LocalTaken(rows[p.id], o), o)
  /\ UNCHANGED <<registry, cache, swapped>>

\* Mutant: the cache key does not tell remotes apart.
OneFile(p) == CHOOSE i \in Remote : TRUE

\* save_cache: under the identity the row has now
FileOf(p) == rows[p.id].identity

\* Message::Remote, with a write of the cache whose failure nobody sees.
RemoteMessage(p, state) ==
  /\ p.of # Checkout /\ Handled(p)
  /\ LET row == RemoteTaken(rows[p.id], state)
     IN  /\ TakeOver(p, row, state)
         /\ \/ UNCHANGED cache
            \/ p.id \in Shown /\ cache' = [cache EXCEPT ![FileOf(p)] = row.remote]
  /\ UNCHANGED <<registry, swapped>>

-----------------------------------------------------------------------------
(* The registry changes under the dashboard. *)

\* Another process, or the user through the dashboard's own prompts.
EditRegistry(r, i) ==
  /\ registry[r] # i
  /\ registry' = [registry EXCEPT ![r] = i]
  /\ UNCHANGED <<rows, polls, cache, told, heard, swapped>>

\* Rows that take on another remote than the one they or a poll know of.
Swapped ==
  {r \in Registered :
     \/ r \in Shown /\ rows[r].identity # registry[r]
     \/ \E p \in Poll : polls[p] > 0 /\ p.id = r /\ p.of \notin {Checkout, registry[r]}}

Kept(r) == [rows[r] EXCEPT !.identity = registry[r]]

\* reload_registry: a row that stays keeps all but its entry
Reload ==
  /\ rows' = [r \in Registered |-> IF r \in Shown THEN Kept(r) ELSE FreshRow(registry[r])]
  /\ told' = [r \in Repo |-> IF r \in Registered \cap Shown THEN told[r] ELSE "nothing"]
  /\ heard' = [r \in Repo |-> IF r \in Registered \cap Shown THEN heard[r] ELSE {}]
  /\ swapped' = (swapped \/ Swapped # {})
  /\ UNCHANGED <<registry, polls, cache>>

\* A removal the user confirmed.
Remove(r) ==
  /\ r \in Shown
  /\ registry' = [registry EXCEPT ![r] = Absent]
  /\ rows' = [q \in Shown \ {r} |-> rows[q]]
  /\ told' = [told EXCEPT ![r] = "nothing"]
  /\ heard' = [heard EXCEPT ![r] = {}]
  /\ UNCHANGED <<polls, cache, swapped>>

Next ==
  \/ Restart
  \/ Reload
  \/ \E r \in Repo : Remove(r)
  \/ \E r \in Repo, i \in Remote \cup {Absent} : EditRegistry(r, i)
  \/ \E r \in Repo, k \in Kind : StartPoll(r, k)
  \/ \E p \in Poll : \E o \in LocalAnswers : LocalMessage(p, o)
  \/ \E p \in Poll : \E state \in [Field -> FieldAnswers(p.of)] : RemoteMessage(p, state)

Spec == Init /\ [][Next]_vars

-----------------------------------------------------------------------------
(* Properties. *)

\* Every variable keeps its kind.
TypeOK ==
  /\ registry \in [Repo -> Remote \cup {Absent}]
  /\ Shown \subseteq Repo /\ rows \in [Shown -> Row]
  /\ polls \in [Poll -> Nat]
  /\ cache \in [Remote -> RemoteState \cup {NoFile}]
  /\ told \in [Repo -> Notable \cup {"nothing"}]
  /\ heard \in [Repo -> SUBSET Source]
  /\ swapped \in BOOLEAN

\* "Stale or unavailable observations do not count as confirmed attention
\* signals" (README.md): a row asks for attention only on the ground of sources
\* whose last answer in this session was a success, whatever the cache held
\* when the session began and however often polls have failed since.
ConfirmedAttention ==
  \A r \in Shown : LET reason == Attention(rows[r])
                   IN  reason # "" => Grounds(reason) \cap heard[r] # {}

\* "Cached data remains visible with its stale state" (README.md): data whose
\* source did not give the last answer is labelled as stale, also after a
\* restart and after any number of failures.
StaleIsMarked ==
  \A r \in Shown, f \in Field :
    rows[r].remote[f].data # Nothing /\ f \notin heard[r] => Label(rows[r].remote[f]) = "stale"

\* A row comes into a notice tier through a message only, which notifies: not
\* by a reload, a restart from the cache, or a row added again.
NoticeWasGiven ==
  \A r \in Shown : (Attention(rows[r]) \in Notable) <=> (told[r] # "nothing")

\* Rows and cache files hold what was read from their own remote, through polls
\* that overlap a removal, reloads and restarts, unless a path was registered
\* again with another remote while data or a poll of the former was about.
OwnRemote ==
  swapped \/ /\ \A r \in Shown, f \in Field :
                  LET d == rows[r].remote[f].data IN d # Nothing => d.of = rows[r].identity
             /\ \A i \in Remote, f \in Field :
                  cache[i] # NoFile =>
                    LET d == cache[i][f].data IN d # Nothing => d.of = i

\* "A failed remote query never turns into an empty list" (README.md): what a
\* row shows for a field changes by a successful answer only, and goes only
\* when the forge says that it has no such thing.
SuccessReplaces ==
  [][Restart \/ \A r \in Shown \cap DOMAIN rows', f \in Field :
       LET before == rows[r].remote[f]
           after  == rows'[r].remote[f]
       IN  /\ after.error # NoError => after.data = before.data
           /\ after.supported /\ before.data # Nothing => after.data # Nothing]_vars
=============================================================================
