------------------------------- MODULE MCDisplay -------------------------------
(* Values for the constants of Display, and three worlds of rows, each small   *)
(* in another respect: any local state and failing checks and proposals of one *)
(* remote; checks of two remotes, between which the registry may change; and   *)
(* failing and running checks of one remote.                                   *)
EXTENDS Display

CONSTANT Home   \* the remote of the first and the third world

Calm     == [Nondescript EXCEPT !.upstream = TRUE]
Unpushed == [Calm EXCEPT !.ahead = TRUE]
Conflict == [Unpushed EXCEPT !.conflicts = TRUE, !.dirty = TRUE]
Diverged == [Unpushed EXCEPT !.behind = TRUE]
Changed  == [Calm EXCEPT !.dirty = TRUE]
Incoming == [Calm EXCEPT !.behind = TRUE]

AllLocalStates == {Calm, Changed, Unpushed, Incoming, Diverged, Conflict}

VARIABLE world

OneRemote ==
  /\ \A r \in Repo : registry[r] \in {Home, Absent}
  /\ \A r \in Shown : rows[r].identity = Home

\* The cache is written each time, or never.
Written ==
  \A r \in Shown : LET file == cache[rows[r].identity]
                   IN  file # NoFile => \A f \in Field : file[f].data = rows[r].remote[f].data

ItemsOf(o) == IF o.data = Nothing THEN {} ELSE o.data.items

FailuresOnly == \A r \in Shown, f \in Field : ItemsOf(rows[r].remote[f]) \subseteq FailMarked

ChecksOnly ==
  /\ \A p \in Poll : p.of = Checkout => polls[p] = 0
  /\ \A r \in Shown, f \in Field \ {"ci"} :
       rows[r].remote[f].data = Nothing /\ rows[r].remote[f].error # Failed

Inside ==
  CASE world = "states"  -> OneRemote /\ FailuresOnly /\ Written
    [] world = "remotes" -> ChecksOnly /\ FailuresOnly
    [] world = "checks"  -> ChecksOnly /\ OneRemote

MCInit == Init /\ world \in {"states", "remotes", "checks"} /\ Inside
MCSpec == MCInit /\ [][Next /\ UNCHANGED world /\ Inside']_<<vars, world>>
=============================================================================
