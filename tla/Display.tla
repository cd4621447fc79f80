------------------------------ MODULE Display --------------------------------
(***************************************************************************)
(* What the overview and its header say of the rows Monitor keeps          *)
(* (src/src/tui/draw.rs): the cells of the table, the glyph before the     *)
(* name, and the triage line with its totals and its advice.  Drawing      *)
(* changes nothing, so the module adds operators to Monitor, no variable   *)
(* and no action.  Colours, widths and wording are left out.               *)
(***************************************************************************)
EXTENDS Monitor, FiniteSetsExt

CONSTANTS RunMarked,   \* the items whose detail says that they are under way
          PassMarked   \* the items whose detail says that they passed

\* Rows and lists are finite, and LocalState::dirty counts conflicts.
ASSUME DisplayAssumption ==
  /\ RunMarked \cup PassMarked \subseteq Item
  /\ IsFiniteSet(Repo) /\ IsFiniteSet(Item)
  /\ \A s \in LocalStates : s.conflicts => s.dirty

-----------------------------------------------------------------------------
(* The cells of a row. *)

\* count: a number only when there is data
Count(o) ==
  CASE CellState(o) = "data"        -> Cardinality(o.data.items)
    [] CellState(o) = "loading"     -> "..."
    [] CellState(o) = "error"       -> "!"
    [] CellState(o) = "unsupported" -> "n/a"

\* Mutant: a run that is under way hides one that failed.
CiRunningFirst(o) ==
  IF CellState(o) # "data"                     THEN Count(o)
  ELSE IF o.data.items = {}                    THEN "absent"
  ELSE IF o.data.items \cap RunMarked # {}     THEN "running"
  ELSE IF o.data.items \cap FailMarked # {}    THEN "fail"
  ELSE IF o.data.items \subseteq PassMarked    THEN "pass"
  ELSE "other"

\* ci_label
CiLabel(o) ==
  IF CellState(o) # "data"                     THEN Count(o)
  ELSE IF o.data.items = {}                    THEN "absent"
  ELSE IF o.data.items \cap FailMarked # {}    THEN "fail"
  ELSE IF o.data.items \cap RunMarked # {}     THEN "running"
  ELSE IF o.data.items \subseteq PassMarked    THEN "pass"
  ELSE "other"

\* A field of RemoteState that this instance does not look at is loading.
Of(row, f) == IF f \in Field THEN row.remote[f] ELSE Default

\* health_glyph, by name; an idle row without a read is "unread"
HealthGlyph(row) ==
  IF "error" \in {CellState(row.local), CellState(Of(row, "default_branch")), CellState(Of(row, "ci"))}
                                                             THEN "!"
  ELSE IF row.local.data # Nothing /\ row.local.data.dirty   THEN "dirty"
  ELSE IF row.local.data # Nothing /\ row.local.data.behind  THEN "behind"
  ELSE IF row.local.data = Nothing /\ row.busy # {}          THEN "busy"
  ELSE IF row.local.data = Nothing                           THEN "unread"
  ELSE "good"

-----------------------------------------------------------------------------
(* The triage line. *)

\* Mutant: only drafts are counted.
KnownDrafts(row, f) ==
  IF f # "proposals" /\ Confirmed(Of(row, f)) THEN Cardinality(Of(row, f).data.items) ELSE 0

\* known_count: what is not confirmed counts as nothing
KnownCount(row, f) ==
  IF Confirmed(Of(row, f)) THEN Cardinality(Of(row, f).data.items) ELSE 0

RowsWith(P(_)) == Cardinality({r \in Shown : P(rows[r])})
Total(f) == MapThenSumSet(LAMBDA r : KnownCount(rows[r], f), Shown)

Dirty(row)  == row.local.data # Nothing /\ row.local.data.dirty
Behind(row) == row.local.data # Nothing /\ row.local.data.behind

\* triage: over all rows, and over the last known read of a checkout even
\* when a later one failed
Triage == [dirty    |-> RowsWith(Dirty),
           behind   |-> RowsWith(Behind),
           failures |-> RowsWith(CiFailedConfirmed),
           prs      |-> Total("prs"),
           releases |-> Total("proposals") + Total("drafts")]

\* action_message: the first total that is not zero
ActionMessage(t) ==
  IF t.failures > 0                      THEN "inspect failing checks"
  ELSE IF t.dirty > 0                    THEN "clean checkouts"
  ELSE IF t.behind > 0                   THEN "pull repositories"
  ELSE IF t.releases > 0 /\ t.prs > 0    THEN "review releases and pull requests"
  ELSE IF t.releases > 0                 THEN "review releases"
  ELSE IF t.prs > 0                      THEN "review pull requests"
  ELSE "all clear"

-----------------------------------------------------------------------------
(* Properties. *)

\* The header, the glyph before a name and the Attention column decide on their
\* own what matters (triage, health_glyph and attention).  The header never says
\* that all is clear, or leads with something less urgent than a failed check,
\* while a row asks for attention; unpushed commits are the one reason it does
\* not know.  No glyph calls a checkout good, or unread, that asks for it.
AdviceFollowsAttention ==
  LET reasons == {Attention(rows[r]) : r \in Shown} \ {"", "unpushed"}
  IN  /\ reasons # {} => ActionMessage(Triage) # "all clear"
      /\ "CI failed" \in reasons => ActionMessage(Triage) = "inspect failing checks"
      /\ \A r \in Shown :
           Attention(rows[r]) \in {"Conflicts", "Diverged", "incoming", "Local changes"}
             => HealthGlyph(rows[r]) \in {"!", "dirty", "behind"}

\* A failing check shows in the CI cell and is confirmed or marked as stale;
\* the attention reason is given exactly for the confirmed ones.
FailingCheckShows ==
  \A r \in Shown :
    LET ci == Of(rows[r], "ci")
    IN  /\ CiFailedConfirmed(rows[r]) <=> CiLabel(ci) = "fail" /\ "ci" \in heard[r]
        /\ CiLabel(ci) = "fail" /\ "ci" \notin heard[r] => Label(ci) = "stale"

\* Header, glyph, CI cell and Attention column tell one story of a row (draw.rs).
OverviewAgrees == AdviceFollowsAttention /\ FailingCheckShows
=============================================================================
