----------------------------- MODULE MCProviders -----------------------------
(* Values for the constants of Providers: a forge at two moments, between     *)
(* which somebody has pushed, merged, released and closed.                    *)
EXTENDS Providers

P(n, draft, mine, evidence) == [number |-> n, draft |-> draft, mine |-> mine, evidence |-> evidence]

MCPulls == {P(1, TRUE, FALSE, "release label"), P(2, FALSE, TRUE, "none")}
MCIssues == {[number |-> 3, pull |-> FALSE, labelled |-> TRUE],
             [number |-> 4, pull |-> FALSE, labelled |-> FALSE],
             [number |-> 2, pull |-> TRUE, labelled |-> TRUE]}
MCReleases == {[tag |-> "v1", draft |-> FALSE], [tag |-> "v2", draft |-> TRUE]}
MCWorkflows == <<"build.yml", "release.yml">>

Check(c, n) == [of |-> c, name |-> n]
Running     == [name |-> "r2", completed |-> FALSE]
Completed   == [name |-> "r1", completed |-> TRUE]

MCNames == {"main", "topic", "v1", "v2", "lint", "test", "r1", "r2"}

Busy ==
  [default |-> "main", head |-> "c1", branches |-> {"main", "topic"}, pulls |-> MCPulls,
   issues |-> MCIssues, releases |-> MCReleases,
   checks |-> {Check("c1", "test")}, statuses |-> {Check("c1", "lint")},
   pipelines |-> {Check("c1", "test"), Check("c3", "test")},
   runs |-> [w \in Workflow |-> <<Completed, Running>>]]

Pushed ==
  [Busy EXCEPT !.head = "c2", !.pulls = {P(2, FALSE, TRUE, "none")}, !.issues = {},
               !.releases = {[tag |-> "v1", draft |-> FALSE]},
               !.checks = {Check("c1", "test"), Check("c2", "test")},
               !.runs = [w \in Workflow |-> <<Running>>]]

Empty ==
  [Busy EXCEPT !.default = NoBranch, !.branches = {}, !.pulls = {}, !.issues = {},
               !.releases = {}, !.checks = {}, !.statuses = {}, !.pipelines = {},
               !.runs = [w \in Workflow |-> << >>]]

AnyForge == {Busy, Pushed, Empty}

\* A forge is empty from the first query to the last, or it is at one of the two
\* other moments, back and forth.
Inside == Empty \in during => during = {Empty}

MCSpec == Init /\ [][Next /\ Inside']_vars
=============================================================================
