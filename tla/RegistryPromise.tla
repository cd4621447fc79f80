-------------------------- MODULE RegistryPromise ---------------------------
(***************************************************************************)
(* What each request promises, said without the operators that carry it    *)
(* out (those of RegistryOps): when it may succeed, and what it may have   *)
(* changed then.  A registry is seen through who is listed, and who is in   *)
(* which workspace however that is spelled; how the entries hold it is      *)
(* the business of src/src/registry.rs.  A request for several checkouts is *)
(* kept whole or not at all.                                               *)
(***************************************************************************)
EXTENDS RegistryOps

Roster(r) == {<<e.path, e.name>> : e \in r.repos}

Members(r, s) ==
  {e.path : e \in {x \in r.repos : \E m \in x.workspaces : SameWorkspace(m, s)}}

\* The checkouts a selector can mean; a request needs it to mean one.
Called(r, key) == {e.path : e \in {x \in r.repos : key \in {x.path, x.name}}}

Unambiguous(r, key) == \E path \in Path : Called(r, key) = {path}

Known(r, s) == ValidName(s) /\ \E w \in r.workspaces : SameWorkspace(w, s)

\* The members of workspace s, and of no other one, are those of set S now.
OnlyMembers(r, t, s, S) ==
  \A v \in Spelling : Members(t, v) = IF SameWorkspace(v, s) THEN S ELSE Members(r, v)

SameRest(r, t) == t.workspaces = r.workspaces /\ t.active = r.active /\ t.accounts = r.accounts

-----------------------------------------------------------------------------
(* One promise for each kind of request. *)

AddPromise(q, r, t) ==
  /\ \A e \in r.repos : e.path # q.path
  /\ Roster(t) = Roster(r) \cup {<<q.path, NameOf[q.path]>>}
  /\ IF q.into = None
       THEN \A v \in Spelling : Members(t, v) = Members(r, v)
       ELSE Known(r, q.into) /\ OnlyMembers(r, t, q.into, Members(r, q.into) \cup {q.path})
  /\ SameRest(r, t)

RemovePromise(q, r, t) ==
  /\ Unambiguous(r, q.key)
  /\ Roster(t) = {x \in Roster(r) : x[1] \notin Called(r, q.key)}
  /\ \A v \in Spelling : Members(t, v) = Members(r, v) \ Called(r, q.key)
  /\ SameRest(r, t)

CreatePromise(q, r, t) ==
  /\ ValidName(q.name) /\ ~Known(r, q.name)
  /\ t.workspaces = r.workspaces \cup {q.name}
  /\ t.repos = r.repos /\ t.active = r.active /\ t.accounts = r.accounts

DeletePromise(q, r, t) ==
  /\ Known(r, q.name)
  /\ t.workspaces = {w \in r.workspaces : ~SameWorkspace(w, q.name)}
  /\ Roster(t) = Roster(r) /\ OnlyMembers(r, t, q.name, {})
  /\ t.active = IF r.active # None /\ SameWorkspace(r.active, q.name) THEN None ELSE r.active
  /\ t.accounts = r.accounts

\* Of several checkouts, all that are named or none.
Selected(r, keys) == UNION {Called(r, k) : k \in keys}

JoinPromise(q, r, t) ==
  /\ Known(r, q.name) /\ \A k \in q.keys : Unambiguous(r, k)
  /\ Roster(t) = Roster(r)
  /\ OnlyMembers(r, t, q.name, Members(r, q.name) \cup Selected(r, q.keys))
  /\ SameRest(r, t)

LeavePromise(q, r, t) ==
  /\ Known(r, q.name) /\ \A k \in q.keys : Unambiguous(r, k)
  /\ Roster(t) = Roster(r)
  /\ OnlyMembers(r, t, q.name, Members(r, q.name) \ Selected(r, q.keys))
  /\ SameRest(r, t)

ActivatePromise(q, r, t) ==
  /\ IF q.name = None \/ ~ValidName(q.name)
       THEN t.active = None
       ELSE t.active \in r.workspaces /\ SameWorkspace(t.active, q.name)
  /\ t.repos = r.repos /\ t.workspaces = r.workspaces /\ t.accounts = r.accounts

Others(r, host) == {a \in r.accounts : a.host # host}

SetAccountPromise(q, r, t) ==
  /\ Others(t, q.host) = Others(r, q.host)
  /\ t.accounts \ Others(t, q.host) = {[host |-> q.host, provider |-> q.provider]}
  /\ t.repos = r.repos /\ t.workspaces = r.workspaces /\ t.active = r.active

RemoveAccountPromise(q, r, t) ==
  /\ t.accounts = r.accounts \ {[host |-> q.host, provider |-> q.provider]}
  /\ t.repos = r.repos /\ t.workspaces = r.workspaces /\ t.active = r.active

\* Request q may turn registry r into t.
Promise(q, r, t) ==
  \/ q.kind = "add" /\ AddPromise(q, r, t)
  \/ q.kind = "remove" /\ RemovePromise(q, r, t)
  \/ q.kind = "create" /\ CreatePromise(q, r, t)
  \/ q.kind = "delete" /\ DeletePromise(q, r, t)
  \/ q.kind = "join" /\ JoinPromise(q, r, t)
  \/ q.kind = "leave" /\ LeavePromise(q, r, t)
  \/ q.kind = "activate" /\ ActivatePromise(q, r, t)
  \/ q.kind = "set account" /\ SetAccountPromise(q, r, t)
  \/ q.kind = "remove account" /\ RemoveAccountPromise(q, r, t)
=============================================================================
