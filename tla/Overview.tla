------------------------------ MODULE Overview -------------------------------
(***************************************************************************)
(* The overview of the dashboard: which rows are visible, in what order,   *)
(* and which one is highlighted (visible, current and update_rows of       *)
(* src/src/tui/app.rs), while the event loop (src/src/tui/event_loop.rs)   *)
(* takes over results, reloads the registry and handles keys.              *)
(*                                                                         *)
(* The highlight is an index into the visible rows, and the rows are       *)
(* sorted by attention first: a result can move any row, so the index has  *)
(* to be set again whenever rows change.  What moves a row from one tier   *)
(* to another is in Monitor, here it is any message.  The previews and     *)
(* confirmations a key may lead to are in Dashboard.                       *)
(***************************************************************************)
EXTENDS Integers, FiniteSets

CONSTANTS Repo,          \* checkouts
          Place,         \* Place[r]: where r comes by name and id
          Tier,          \* attention priorities, the most urgent first
          Quiet,         \* the tier of a row nothing is known of
          Space,         \* workspaces
          Filters,       \* sets of checkouts a typed filter can match
          None,          \* no workspace, no row
          MaxElsewhere,  \* bound on the commands of other processes
          MaxOthers      \* bound on the other actions under way

ASSUME OverviewAssumption ==
  /\ IsFiniteSet(Repo) /\ Repo # {}
  /\ Place \in [Repo -> Nat]
  /\ \A r, s \in Repo : Place[r] = Place[s] => r = s
  /\ Tier \subseteq Nat /\ Quiet \in Tier
  /\ None \notin Repo \cup Space
  /\ Filters \subseteq SUBSET Repo
  /\ MaxElsewhere \in Nat /\ MaxOthers \in Nat

Prompt == {"checkout", "remove", "join", "leave"}
Mode   == [kind : {"normal", "filter", "add", "create", "pick", "accounts"}]
            \cup [kind : Prompt, opened : Repo \cup {None}, settled : BOOLEAN]
Row    == [tier : Tier, spaces : SUBSET Space]
Partial(S, T) == UNION {[D -> T] : D \in SUBSET S}
File   == [spaces : Partial(Repo, SUBSET Space), known : SUBSET Space,
           active : Space \cup {None}]
Adding == [kind : {"none", "added", "refused"}]
            \cup [kind : {"running"}, into : Space \cup {None}]

VARIABLES
  file,      \* the registry on disk: memberships, workspaces, active one
  rows,      \* App.rows
  options,   \* App.workspaces
  active,    \* App.active_workspace
  matched,   \* the rows the filter text matches
  selected,  \* App.selected
  mode,      \* App.mode; of a prompt, the row that was highlighted when it
             \* opened and (history) whether no reload has come since
  adding,    \* the task that adds a checkout; one at a time here
  others,    \* other tasks whose message will clear App.action_busy
  busy,      \* App.action_busy
  at,        \* where the loop is: handling messages, then a key, or ended
  elsewhere  \* commands other processes may still run

vars == <<file, rows, options, active, matched, selected, mode, adding, others, busy,
          at, elsewhere>>

Normal  == [kind |-> "normal"]
NoAdd   == [kind |-> "none"]

-----------------------------------------------------------------------------
(* The visible rows and their order. *)

VisibleIn(rs, m, a) ==
  {r \in DOMAIN rs : r \in m /\ (a = None \/ a \in rs[r].spaces)}

Before(rs, r, s) ==
  \/ rs[r].tier < rs[s].tier
  \/ rs[r].tier = rs[s].tier /\ Place[r] < Place[s]

Ahead(rs, V, r) == {s \in V : Before(rs, s, r)}
Rank(rs, V, r)  == Cardinality(Ahead(rs, V, r))

\* visible().get(i)
Nth(rs, V, i) ==
  IF \E r \in V : Rank(rs, V, r) = i THEN CHOOSE r \in V : Rank(rs, V, r) = i ELSE None

LastOf(V)    == IF V = {} THEN 0 ELSE Cardinality(V) - 1
AtMost(i, n) == IF i <= n THEN i ELSE n

Visible == VisibleIn(rows, matched, active)

\* current()
Highlighted == Nth(rows, Visible, selected)

\* Mutant: the index stays where it was.
IndexStays(rs, a) == AtMost(selected, LastOf(VisibleIn(rs, matched, a)))

\* update_rows: the index of the row that is current when the update begins,
\* or the old index when that row is out of view.  The active workspace is
\* set by then (reload_registry), the rows are still the former ones.
IndexAfter(rs, a) ==
  LET current == Nth(rows, VisibleIn(rows, matched, a), selected)
      V       == VisibleIn(rs, matched, a)
  IN  IF current \in V THEN Rank(rs, V, current) ELSE AtMost(selected, LastOf(V))

-----------------------------------------------------------------------------
(* The registry, as far as the overview depends on it. *)

Added(f, r, w) ==
  IF r \in DOMAIN f.spaces \/ w \notin f.known \cup {None} THEN {}
  ELSE {[f EXCEPT !.spaces = [s \in DOMAIN @ \cup {r} |->
           IF s # r THEN @[s] ELSE IF w = None THEN {} ELSE {w}]]}

Removed(f, r) ==
  IF r \notin DOMAIN f.spaces THEN {}
  ELSE {[f EXCEPT !.spaces = [s \in DOMAIN @ \ {r} |-> @[s]]]}

Created(f, w) == IF w \in f.known THEN {} ELSE {[f EXCEPT !.known = @ \cup {w}]}

Deleted(f, w) ==
  IF w \notin f.known THEN {}
  ELSE {[known  |-> f.known \ {w},
         spaces |-> [s \in DOMAIN f.spaces |-> f.spaces[s] \ {w}],
         active |-> IF f.active = w THEN None ELSE f.active]}

Joined(f, w, r) ==
  IF w \notin f.known \/ r \notin DOMAIN f.spaces THEN {}
  ELSE {[f EXCEPT !.spaces[r] = @ \cup {w}]}

Left(f, w, r) ==
  IF w \notin f.known \/ r \notin DOMAIN f.spaces THEN {}
  ELSE {[f EXCEPT !.spaces[r] = @ \ {w}]}

Activated(f, w) ==
  IF w \notin f.known \cup {None} THEN {} ELSE {[f EXCEPT !.active = w]}

\* with_registry: rows nothing is known of yet; the saved workspace only
\* when it is listed.
FreshRow(f, r)  == [tier |-> Quiet, spaces |-> f.spaces[r]]
ActiveIn(f)     == IF f.active \in f.known THEN f.active ELSE None

\* reload_registry: a row that is shown already keeps what it knows.
Reloaded(f) ==
  [r \in DOMAIN f.spaces |->
     IF r \in DOMAIN rows THEN [rows[r] EXCEPT !.spaces = f.spaces[r]] ELSE FreshRow(f, r)]

\* Mutant: the index is not set again.
ReloadInPlace(f) ==
  /\ options' = f.known
  /\ active' = ActiveIn(f)
  /\ rows' = Reloaded(f)
  /\ selected' = IndexStays(Reloaded(f), ActiveIn(f))
  /\ UNCHANGED matched

Reload(f) ==
  /\ options' = f.known
  /\ active' = ActiveIn(f)
  /\ rows' = Reloaded(f)
  /\ selected' = IndexAfter(Reloaded(f), ActiveIn(f))
  /\ UNCHANGED matched

Overviewed == <<rows, options, active, matched, selected>>

Unsettled(m) == IF m.kind \in Prompt THEN [m EXCEPT !.settled = FALSE] ELSE m

-----------------------------------------------------------------------------
(* Messages, drained before each frame. *)

\* Mutant: the row is changed in place, without update_rows.
PollAnsweredInPlace(r) ==
  /\ at = "messages" /\ r \in DOMAIN rows
  /\ \E tier \in Tier : rows' = [rows EXCEPT ![r].tier = tier]
  /\ UNCHANGED <<file, options, active, matched, selected, mode, adding, others, busy, at, elsewhere>>

\* Message::Local and Message::Remote: the answer of a poll of r, which may
\* not be shown any more, puts it in any tier.
PollAnswered(r) ==
  /\ at = "messages"
  /\ \E tier \in Tier :
       LET rs == IF r \in DOMAIN rows THEN [rows EXCEPT ![r].tier = tier] ELSE rows
       IN  /\ rows' = rs
           /\ selected' = IndexAfter(rs, active)
  /\ UNCHANGED <<file, options, active, matched, mode, adding, others, busy, at, elsewhere>>

\* Message::Added: the registry is read again after a success.
AddAnswered ==
  /\ at = "messages"
  /\ \/ /\ adding.kind = "added"
        /\ Reload(file)
        /\ mode' = Unsettled(mode)
     \/ /\ adding.kind = "refused"
        /\ UNCHANGED <<Overviewed, mode>>
  /\ adding' = NoAdd
  /\ busy' = FALSE
  /\ UNCHANGED <<file, others, at, elsewhere>>

\* Message::Action, Fetched, Preview and CheckoutPreview
OtherAnswered ==
  /\ at = "messages" /\ others > 0
  /\ others' = others - 1
  /\ busy' = FALSE
  /\ UNCHANGED <<file, Overviewed, mode, adding, at, elsewhere>>

\* Mutant: the frame is drawn with the index as it is.
DrawUnclamped ==
  /\ at = "messages"
  /\ at' = "key"
  /\ UNCHANGED <<file, Overviewed, mode, adding, others, busy, elsewhere>>

\* No message is left: the index is brought into the rows and the frame drawn.
Draw ==
  /\ at = "messages"
  /\ selected' = AtMost(selected, LastOf(Visible))
  /\ at' = "key"
  /\ UNCHANGED <<file, rows, options, active, matched, mode, adding, others, busy, elsewhere>>

-----------------------------------------------------------------------------
(* Keys, at most one for each frame.  PastKey is what they all do. *)

PastKey == at = "key" /\ at' = "messages" /\ UNCHANGED elsewhere

NoKey ==
  /\ PastKey
  /\ UNCHANGED <<file, Overviewed, mode, adding, others, busy>>

Down ==
  /\ PastKey /\ mode.kind = "normal"
  /\ selected' = AtMost(selected + 1, LastOf(Visible))
  /\ UNCHANGED <<file, rows, options, active, matched, mode, adding, others, busy>>

Up ==
  /\ PastKey /\ mode.kind = "normal"
  /\ selected' = IF selected = 0 THEN 0 ELSE selected - 1
  /\ UNCHANGED <<file, rows, options, active, matched, mode, adding, others, busy>>

\* /, w; and a, n, s when no action is under way
Open(kind) ==
  /\ PastKey /\ mode.kind = "normal"
  /\ kind \in {"filter", "pick"} \/ (kind \in {"add", "create", "accounts"} /\ ~busy)
  /\ mode' = [kind |-> kind]
  /\ UNCHANGED <<file, Overviewed, adding, others, busy>>

\* c, d: with a row; m, u: also without one
OpenPrompt(kind) ==
  /\ PastKey /\ mode.kind = "normal" /\ ~busy
  /\ kind \in {"checkout", "remove"} => Highlighted # None
  /\ mode' = [kind |-> kind, opened |-> Highlighted, settled |-> TRUE]
  /\ UNCHANGED <<file, Overviewed, adding, others, busy>>

\* Esc, and n in a confirmation; Esc clears the text of the filter.
Cancel ==
  /\ PastKey /\ mode.kind # "normal"
  /\ mode' = Normal
  /\ matched' = IF mode.kind = "filter" THEN Repo ELSE matched
  /\ UNCHANGED <<file, rows, options, active, selected, adding, others, busy>>

\* A character more or less in the filter; Enter keeps it.
TypeFilter(m) ==
  /\ PastKey /\ mode.kind = "filter"
  /\ matched' = m
  /\ selected' = 0
  /\ UNCHANGED <<file, rows, options, active, mode, adding, others, busy>>

KeepFilter ==
  /\ PastKey /\ mode.kind = "filter"
  /\ mode' = Normal
  /\ UNCHANGED <<file, Overviewed, adding, others, busy>>

\* Enter in the workspace picker, which lists what was loaded last
PickWorkspace(w) ==
  /\ PastKey /\ mode.kind = "pick" /\ w \in options \cup {None}
  /\ \/ /\ file' \in Activated(file, w)
        /\ active' = w
        /\ selected' = 0
     \/ /\ Activated(file, w) = {}
        /\ UNCHANGED <<file, active, selected>>
  /\ mode' = Normal
  /\ UNCHANGED <<rows, options, matched, adding, others, busy>>

\* Enter in the prompt for a new workspace: two updates of the registry and
\* a load, of which the second may fail with the first one done.
CreateWorkspace(w) ==
  /\ PastKey /\ mode.kind = "create"
  /\ \/ \E f \in Created(file, w) :
          \/ /\ file' \in Activated(f, w)
             /\ Reload(file')
          \/ file' = f /\ UNCHANGED Overviewed
     \/ /\ Created(file, w) = {}
        /\ UNCHANGED <<file, Overviewed>>
  /\ mode' = Normal
  /\ UNCHANGED <<adding, others, busy>>

\* Enter in the accounts form, after a credential and its account are saved
SaveAccount ==
  /\ PastKey /\ mode.kind = "accounts"
  /\ Reload(file)
  /\ mode' = Normal
  /\ UNCHANGED <<file, adding, others, busy>>

\* Enter in the prompts of m and u: the row that is highlighted now, and the
\* workspace typed or, without one, the active one.  Neither: the loop ends.
JoinOrLeave(w) ==
  /\ PastKey /\ mode.kind \in {"join", "leave"}
  /\ w # None /\ Highlighted # None
  /\ LET after == IF mode.kind = "join" THEN Joined(file, w, Highlighted)
                                        ELSE Left(file, w, Highlighted)
     IN  \/ file' \in after /\ Reload(file')
         \/ after = {} /\ UNCHANGED <<file, Overviewed>>
  /\ mode' = Normal
  /\ UNCHANGED <<adding, others, busy>>

Membership == \E w \in Space \cup {active} : JoinOrLeave(w)

NothingToJoin ==
  /\ at = "key" /\ at' = "ended"
  /\ mode.kind \in {"join", "leave"} /\ (active = None \/ Highlighted = None)
  /\ UNCHANGED <<file, Overviewed, mode, adding, others, busy, elsewhere>>

\* y in the confirmation of d: the row goes when the registry lets it, and
\* the index is left alone.
Remove ==
  /\ PastKey /\ mode.kind = "remove"
  /\ \/ /\ file' \in Removed(file, mode.opened)
        /\ rows' = [r \in DOMAIN rows \ {mode.opened} |-> rows[r]]
     \/ /\ Removed(file, mode.opened) = {}
        /\ UNCHANGED <<file, rows>>
  /\ mode' = Normal
  /\ UNCHANGED <<options, active, matched, selected, adding, others, busy>>

\* Enter in the prompts of a and c
StartAdd ==
  /\ PastKey /\ mode.kind = "add" /\ adding.kind = "none"
  /\ mode' = Normal
  /\ adding' = [kind |-> "running", into |-> active]
  /\ busy' = TRUE
  /\ UNCHANGED <<file, Overviewed, others>>

StartCheckout ==
  /\ PastKey /\ mode.kind = "checkout" /\ others < MaxOthers
  /\ mode' = Normal
  /\ IF Highlighted # None THEN others' = others + 1 /\ busy' = TRUE
                           ELSE UNCHANGED <<others, busy>>
  /\ UNCHANGED <<file, Overviewed, adding>>

\* o, which neither looks at action_busy nor sets it; p, r and t do both.
StartOther ==
  /\ PastKey /\ mode.kind = "normal" /\ Highlighted # None /\ others < MaxOthers
  /\ busy' \in {busy, TRUE}
  /\ others' = others + 1
  /\ UNCHANGED <<file, Overviewed, mode, adding>>

Quit ==
  /\ at = "key" /\ at' = "ended"
  /\ UNCHANGED <<file, Overviewed, mode, adding, others, busy, elsewhere>>

-----------------------------------------------------------------------------
(* The task that adds a checkout, and other processes. *)

AddRuns ==
  /\ at # "ended" /\ adding.kind = "running"
  /\ \/ /\ \E r \in Repo : file' \in Added(file, r, adding.into)
        /\ adding' = [kind |-> "added"]
     \/ /\ adding' = [kind |-> "refused"]
        /\ UNCHANGED file
  /\ UNCHANGED <<Overviewed, mode, others, busy, at, elsewhere>>

Elsewhere ==
  /\ at # "ended" /\ elsewhere > 0
  /\ elsewhere' = elsewhere - 1
  /\ \/ \E r \in Repo : file' \in Removed(file, r)
     \/ \E w \in Space : file' \in Created(file, w) \cup Deleted(file, w)
     \/ \E w \in Space \cup {None} :
          file' \in Activated(file, w) \cup UNION {Added(file, r, w) : r \in Repo}
     \/ \E w \in Space, r \in Repo : file' \in Joined(file, w, r) \cup Left(file, w, r)
  /\ UNCHANGED <<Overviewed, mode, adding, others, busy, at>>

-----------------------------------------------------------------------------

\* with_registry on what the registry holds at the start
Init ==
  /\ file \in File
  /\ \A r \in DOMAIN file.spaces : file.spaces[r] \subseteq file.known
  /\ file.active \in file.known \cup {None}
  /\ rows = [r \in DOMAIN file.spaces |-> FreshRow(file, r)]
  /\ options = file.known /\ active = ActiveIn(file)
  /\ matched = Repo /\ selected = 0
  /\ mode = Normal /\ adding = NoAdd /\ others = 0 /\ busy = FALSE
  /\ at = "messages" /\ elsewhere = MaxElsewhere

Message == AddAnswered \/ OtherAnswered \/ \E r \in Repo : PollAnswered(r)

Move == NoKey \/ Down \/ Up \/ Cancel \/ KeepFilter \/ \E m \in Filters : TypeFilter(m)

Enter ==
  \/ Membership \/ NothingToJoin \/ SaveAccount \/ Remove
  \/ StartAdd \/ StartCheckout \/ StartOther
  \/ \E w \in Space \cup {None} : PickWorkspace(w)
  \/ \E w \in Space : CreateWorkspace(w)

Next ==
  \/ Message \/ Draw \/ Move \/ Enter \/ Quit \/ AddRuns \/ Elsewhere
  \/ \E kind \in {"filter", "pick", "add", "create", "accounts"} : Open(kind)
  \/ \E kind \in Prompt : OpenPrompt(kind)

Spec == Init /\ [][Next]_vars

-----------------------------------------------------------------------------
(* Properties. *)

\* Types; the highlight is never further down than there are checkouts.
TypeOK ==
  /\ file \in File
  /\ rows \in Partial(Repo, Row)
  /\ options \subseteq Space
  /\ active \in Space \cup {None}
  /\ matched \subseteq Repo
  /\ selected \in 0..(Cardinality(Repo) - 1)
  /\ mode \in Mode
  /\ adding \in Adding
  /\ others \in 0..MaxOthers
  /\ busy \in BOOLEAN
  /\ at \in {"messages", "key", "ended"}
  /\ elsewhere \in 0..MaxElsewhere

\* Whenever a key is read, a row is highlighted if any is visible: rows that
\* were removed, filtered out or left the workspace never leave the highlight
\* past the end, where c, d, p and r would do nothing.
SomethingHighlighted ==
  at = "key" /\ Visible # {} => Highlighted # None

Following(stays) ==
  Highlighted \in VisibleIn(rows', matched', active') /\ stays
    => Nth(rows', VisibleIn(rows', matched', active'), selected') = Highlighted

\* Results keep the highlight on its row (update_rows), wherever they move
\* it, as long as it stays in view and no reload switches the workspace.
SelectionFollows == [][Message => Following(active' = active)]_vars

\* The row a prompt was opened on is still the highlighted one when Enter
\* looks it up (checkout, join, leave), or the one the confirmation names
\* (remove), whatever polls answered in between, unless a reload came.
PromptStays ==
  mode.kind \in Prompt /\ mode.settled => Highlighted = mode.opened

\* The key of an action acts on the row that is highlighted on the screen, which
\* is there, and Enter on the one its prompt was opened on (app.rs, current).
KeysActOnTheirRow == TypeOK /\ SomethingHighlighted /\ PromptStays
=============================================================================
