--------------------------- MODULE AtomicRegistry ---------------------------
(***************************************************************************)
(* What registry::update promises the processes that share repos.toml: one *)
(* registry, changed by one request at a time.  A request is applied whole *)
(* to the registry as it is at that moment, at most once, and says so; or  *)
(* it is refused, or its process dies, and it changes nothing.             *)
(***************************************************************************)
CONSTANTS Process, Asked, NoRequest,
          Empty,             \* the registry of a first start
          Promise(_, _, _),  \* Promise(q, r, t): request q may turn registry r into t
          Loaded(_),         \* a registry as a program reads it
          Edits(_)           \* what the user can turn it into by hand

VARIABLES reg,     \* the registry
          asked,   \* the request each process has pending
          answer   \* "none", then "done" or "refused"

vars == <<reg, asked, answer>>

Init ==
  /\ reg = Empty
  /\ asked = [p \in Process |-> NoRequest]
  /\ answer = [p \in Process |-> "none"]

Ask(p) ==
  /\ asked[p] = NoRequest
  /\ \E q \in Asked : asked' = [asked EXCEPT ![p] = q]
  /\ UNCHANGED <<reg, answer>>

Apply(p) ==
  /\ asked[p] # NoRequest /\ answer[p] = "none"
  /\ Promise(asked[p], Loaded(reg), reg')
  /\ answer' = [answer EXCEPT ![p] = "done"]
  /\ UNCHANGED asked

Refuse(p) ==
  /\ asked[p] # NoRequest /\ answer[p] = "none"
  /\ answer' = [answer EXCEPT ![p] = "refused"]
  /\ UNCHANGED <<reg, asked>>

\* The process goes on with its answer, or dies.
Return(p) ==
  /\ asked' = [asked EXCEPT ![p] = NoRequest]
  /\ answer' = [answer EXCEPT ![p] = "none"]
  /\ UNCHANGED reg

PowerLoss ==
  /\ asked' = [p \in Process |-> NoRequest]
  /\ answer' = [p \in Process |-> "none"]
  /\ UNCHANGED reg

\* The user edits the file while no request is pending.
Edit ==
  /\ \A p \in Process : asked[p] = NoRequest
  /\ reg' \in Edits(reg)
  /\ UNCHANGED <<asked, answer>>

Next ==
  \/ \E p \in Process : Ask(p) \/ Apply(p) \/ Refuse(p) \/ Return(p)
  \/ PowerLoss
  \/ Edit

Spec == Init /\ [][Next]_vars
=============================================================================
