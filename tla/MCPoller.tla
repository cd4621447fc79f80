------------------------------ MODULE MCPoller ------------------------------
(* Two small worlds in one run: a row alone, which may be removed, added back *)
(* and removed again while its polls are under way; and two rows, one without *)
(* a remote, that compete for the only permit.                                *)
EXTENDS Poller

CONSTANTS First, Second

MCRepo == {First, Second}
MCRegistries == {{}, {First}}

MCInit ==
  /\ Init
  /\ rows = [r \in {First} |-> Fresh]

PairInit ==
  /\ at = "turn"
  /\ rows = [r \in Repo |-> Fresh]
  /\ localDue = TRUE
  /\ permits = Permits
  /\ waiting = [w \in Poll |-> 0]
  /\ running = [w \in Poll |-> 0]
  /\ answered = [w \in Poll |-> 0]
  /\ returned = {}
  /\ changes = MaxChanges

MCSpec == (MCInit \/ PairInit) /\ [][Next]_vars /\ Fairness
=============================================================================
