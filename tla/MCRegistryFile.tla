--------------------------- MODULE MCRegistryFile ---------------------------
(* Two checkouts with the same directory name, two spellings of one workspace *)
(* name and a reserved one.  A run of the model is one of two situations:     *)
(* either a single process makes requests of every kind, or two processes     *)
(* make requests that read what the other's change.                           *)
EXTENDS RegistryFile, TLC

CONSTANTS p1, p2, n, work, Work, ALL, key, all, github, gitlab, host

MCNameOf == p1 :> n @@ p2 :> n
MCFold   == work :> key @@ Work :> key @@ ALL :> all

EveryRequest ==
  {q \in Request : q.kind \in {"join", "leave"} =>
     q.keys \in {{p1}, {n}, {p1, p2}, {p2, n}}}

ConflictingRequests ==
  { [kind |-> "add", path |-> p1, into |-> None],
    [kind |-> "add", path |-> p1, into |-> work],
    [kind |-> "remove", key |-> n],
    [kind |-> "create", name |-> Work],
    [kind |-> "delete", name |-> work],
    [kind |-> "join", name |-> work, keys |-> {p1}],
    [kind |-> "activate", name |-> work] }

VARIABLE alone   \* the process that makes requests, or NoProcess for all of them

MCInit == Init /\ alone \in {CHOOSE p \in Process : TRUE, NoProcess}

MCNext ==
  /\ Next
  /\ UNCHANGED alone
  /\ \A p \in Process :
       IF alone = NoProcess
         THEN request'[p] \in ConflictingRequests \cup {NoRequest}
         ELSE p # alone => request'[p] = NoRequest

MCSpec == MCInit /\ [][MCNext]_<<vars, alone>> /\ \A p \in Process : WF_vars(Step(p))
=============================================================================
