----------------------------- MODULE MCOverview ------------------------------
(* Two situations for TLC: two checkouts, while other processes and actions   *)
(* change the registry under the dashboard; and three checkouts, which can     *)
(* change places around the highlighted one, without the others' commands.     *)
EXTENDS Overview, TLC

CONSTANTS a, b, c, w

MCRepo    == {a, b, c}
MCPlace   == (a :> 0) @@ (b :> 1) @@ (c :> 2)
MCTier    == {0, 3}
MCFilters == {{a}, {b}, {}, {a, c}}

VARIABLE situation

Inside ==
  CASE situation = "others" ->
         /\ c \notin DOMAIN file.spaces
         /\ matched \in {{a}, {b}, {}, Repo}
    [] situation = "three rows" ->
         /\ elsewhere = MaxElsewhere /\ others = 0
         /\ matched \in {{a, c}, Repo}

MCInit == Init /\ situation \in {"others", "three rows"} /\ Inside
MCSpec == MCInit /\ [][Next /\ UNCHANGED situation /\ Inside']_<<vars, situation>>
=============================================================================
