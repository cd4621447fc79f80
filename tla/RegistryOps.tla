---------------------------- MODULE RegistryOps -----------------------------
(***************************************************************************)
(* The registry of checkouts, workspaces and accounts (the Registry struct *)
(* of src/src/registry.rs) and the changes the program makes to it, as     *)
(* operators on its value.  Results(q, r) is the set of registries request *)
(* q can turn r into: empty when the code bails out, else one registry.    *)
(* The order of the vectors is a matter of display and is left out; the    *)
(* `repos` of a registry is a set of entries, so one checkout registered   *)
(* twice with different memberships still shows.                           *)
(***************************************************************************)
EXTENDS FiniteSets

CONSTANTS Path,      \* canonical checkout paths, which are the entries' ids
          Name,      \* directory names
          NameOf,    \* NameOf[p]: the file_name of path p
          Spelling,  \* workspace names as typed and stored
          Fold,      \* Fold[s]: s in lower case
          All,       \* the lower case of "All", reserved for the implicit view
          Host,      \* forge hosts, lower case
          Provider,  \* kinds of forge
          None       \* no active workspace

ASSUME OpsAssumption ==
  /\ NameOf \in [Path -> Name]
  /\ Path \cap Name = {}          \* a path is absolute, a name has no slash
  /\ None \notin Spelling

Entry    == [path : Path, name : Name, workspaces : SUBSET Spelling]
Account  == [host : Host, provider : Provider]
Registry == [repos : SUBSET Entry, workspaces : SUBSET Spelling,
             active : Spelling \cup {None}, accounts : SUBSET Account]

Empty == [repos |-> {}, workspaces |-> {}, active |-> None, accounts |-> {}]

\* workspace_eq, valid_workspace_name
SameWorkspace(s, t) == Fold[s] = Fold[t]
ValidName(s) == Fold[s] # All

\* load(): an active workspace that is not listed is dropped, one that is
\* listed under another spelling takes the listed spelling.
Listed(r, s) == {w \in r.workspaces : SameWorkspace(w, s)}

Loaded(r) ==
  [r EXCEPT !.active =
     IF r.active # None /\ Listed(r, r.active) # {}
     THEN CHOOSE w \in Listed(r, r.active) : TRUE
     ELSE None]

\* Mutant: returns the name as typed instead of the stored spelling.
FindTypedName(r, s) == {t \in {s} : Listed(r, s) # {} /\ ValidName(s)}

\* find_workspace: the stored spellings that match, none for a reserved name.
FindWorkspace(r, s) == {w \in Listed(r, s) : ValidName(s)}

\* find_repo: an id match wins over a name match, and must be the only one.
Only(S) == {x \in S : \A y \in S : y = x}

FindRepo(r, key) ==
  LET ids   == {e \in r.repos : e.path = key}
      names == {e \in r.repos : e.name = key}
  IN  IF ids # {} THEN Only(ids) ELSE Only(names)

-----------------------------------------------------------------------------
(* The changes. *)

\* Mutants of Add: no look at the paths that are there; the path as name.
AddAgain(r, p, into) ==
  LET memberships == IF into = None THEN {{}} ELSE {{w} : w \in FindWorkspace(r, into)}
  IN  {[r EXCEPT !.repos = @ \cup {[path |-> p, name |-> NameOf[p], workspaces |-> ws]}] :
         ws \in memberships}

AddPathAsName(r, p, into) ==
  {[r EXCEPT !.repos = @ \cup {[path |-> p, name |-> p, workspaces |-> {}]}]}

\* add_with_workspace: the workspace is optional, and must exist when given
Add(r, p, into) ==
  LET memberships == IF into = None THEN {{}} ELSE {{w} : w \in FindWorkspace(r, into)}
      taken       == \E e \in r.repos : e.path = p
  IN  {[r EXCEPT !.repos = @ \cup {[path |-> p, name |-> NameOf[p], workspaces |-> ws]}] :
         ws \in IF taken THEN {} ELSE memberships}

\* remove: by id or name, which must match one entry
Remove(r, key) ==
  { [r EXCEPT !.repos = @ \ {e}] : e \in Only({x \in r.repos : x.path = key \/ x.name = key}) }

CreateWorkspace(r, s) ==
  IF ValidName(s) /\ Listed(r, s) = {} THEN {[r EXCEPT !.workspaces = @ \cup {s}]} ELSE {}

\* delete_workspace: its memberships and the active selection go with it
WithoutWorkspace(e, w) ==
  [e EXCEPT !.workspaces = {m \in @ : ~SameWorkspace(m, w)}]

DeleteWorkspace(r, s) ==
  { [r EXCEPT !.workspaces = @ \ {w},
              !.repos = {WithoutWorkspace(e, w) : e \in @},
              !.active = IF @ # None /\ SameWorkspace(@, w) THEN None ELSE @] :
      w \in FindWorkspace(r, s) }

\* add_many_to_workspace and remove_many_from_workspace: every selector is
\* looked up before the first entry changes.
Chosen(r, keys) == UNION {FindRepo(r, k) : k \in keys}

AllFound(r, keys) == \A k \in keys : FindRepo(r, k) # {}

\* One that is a member already, however it is spelled, stays as it is.
Joined(e, w) ==
  IF \E m \in e.workspaces : SameWorkspace(m, w) THEN e ELSE [e EXCEPT !.workspaces = @ \cup {w}]

\* Mutant: the selectors that are found are added, whatever the others are.
AddFound(r, s, keys) ==
  { [r EXCEPT !.repos = {IF e \in Chosen(r, keys) THEN Joined(e, w) ELSE e : e \in @}] :
      w \in FindWorkspace(r, s) }

AddMany(r, s, keys) ==
  { [r EXCEPT !.repos = {IF e \in Chosen(r, keys) THEN Joined(e, w) ELSE e : e \in @}] :
      w \in {v \in FindWorkspace(r, s) : AllFound(r, keys)} }

RemoveMany(r, s, keys) ==
  { [r EXCEPT !.repos = {IF e \in Chosen(r, keys) THEN WithoutWorkspace(e, w) ELSE e : e \in @}] :
      w \in {v \in FindWorkspace(r, s) : AllFound(r, keys)} }

\* set_active_workspace: "All" and no name both mean no workspace
SetActive(r, s) ==
  IF s = None \/ Fold[s] = All
  THEN {[r EXCEPT !.active = None]}
  ELSE {[r EXCEPT !.active = w] : w \in FindWorkspace(r, s)}

\* auth set: an account replaces every account of its host
SetAccount(r, h, p) ==
  {[r EXCEPT !.accounts = {a \in @ : a.host # h} \cup {[host |-> h, provider |-> p]}]}

RemoveAccount(r, h, p) ==
  {[r EXCEPT !.accounts = {a \in @ : ~(a.host = h /\ a.provider = p)}]}

-----------------------------------------------------------------------------
(* Requests: what a command line or a key press asks of registry::update. *)

Request ==
       [kind : {"add"}, path : Path, into : Spelling \cup {None}]
  \cup [kind : {"remove"}, key : Path \cup Name]
  \cup [kind : {"create", "delete"}, name : Spelling]
  \cup [kind : {"join", "leave"}, name : Spelling, keys : SUBSET (Path \cup Name) \ {{}}]
  \cup [kind : {"activate"}, name : Spelling \cup {None}]
  \cup [kind : {"set account", "remove account"}, host : Host, provider : Provider]

Results(q, r) ==
  CASE q.kind = "add"            -> Add(r, q.path, q.into)
    [] q.kind = "remove"         -> Remove(r, q.key)
    [] q.kind = "create"         -> CreateWorkspace(r, q.name)
    [] q.kind = "delete"         -> DeleteWorkspace(r, q.name)
    [] q.kind = "join"           -> AddMany(r, q.name, q.keys)
    [] q.kind = "leave"          -> RemoveMany(r, q.name, q.keys)
    [] q.kind = "activate"       -> SetActive(r, q.name)
    [] q.kind = "set account"    -> SetAccount(r, q.host, q.provider)
    [] q.kind = "remove account" -> RemoveAccount(r, q.host, q.provider)

-----------------------------------------------------------------------------
(* What a sound registry is. *)

UniqueEntries(r) ==
  /\ \A e, f \in r.repos : e.path = f.path => e = f
  /\ \A v, w \in r.workspaces : SameWorkspace(v, w) => v = w
  /\ \A a, b \in r.accounts : a.host = b.host => a = b

\* Names are compared case-blind but stored as spelled, so a membership must
\* carry the spelling the workspace is listed under.
NoDanglingName(r) ==
  /\ \A e \in r.repos : e.workspaces \subseteq r.workspaces
  /\ \A w \in r.workspaces : ValidName(w)
  /\ r.active # None => r.active \in r.workspaces
=============================================================================
