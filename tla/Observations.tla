---------------------------- MODULE Observations ----------------------------
(***************************************************************************)
(* What the dashboard knows of one thing it reads: Observation<T> of       *)
(* src/src/model.rs, and how src/src/tui/draw.rs shows it.  The time of    *)
(* the last successful read is set and kept together with the data, so     *)
(* having data stands for both.                                            *)
(***************************************************************************)
EXTENDS Naturals, FiniteSets

CONSTANTS Nothing,   \* no data
          NoError,
          Waiting,   \* CACHE_PLACEHOLDER: "Cached; awaiting refresh"
          Failed     \* the text of any other error

ASSUME ObservationAssumption ==
  NoError # Waiting /\ NoError # Failed /\ Waiting # Failed

Error == {NoError, Waiting, Failed}

ObservationOf(T) == [data : T \cup {Nothing}, error : Error, supported : BOOLEAN]

Default     == [data |-> Nothing, error |-> NoError, supported |-> TRUE]
Success(d)  == [data |-> d, error |-> NoError, supported |-> TRUE]
Failure(e)  == [data |-> Nothing, error |-> e, supported |-> TRUE]
Unsupported == [data |-> Nothing, error |-> NoError, supported |-> FALSE]

\* Mutant: the answer that failed takes the error of the one before.
RetainAll(o, previous) == IF o.error # NoError /\ o.data = Nothing THEN previous ELSE o

\* retain_previous: a failure keeps the data there was, and its age
RetainPrevious(o, previous) ==
  IF o.error # NoError /\ o.data = Nothing THEN [o EXCEPT !.data = previous.data] ELSE o

\* The condition of known_count, ci_failed_confirmed and attention.
Confirmed(o) == o.supported /\ o.error = NoError /\ o.data # Nothing

\* label
Label(o) ==
  CASE ~o.supported -> "unsupported"
    [] o.supported /\ o.error # NoError /\ o.data # Nothing -> "stale"
    [] o.supported /\ o.error # NoError /\ o.data = Nothing -> "error"
    [] o.supported /\ o.error = NoError /\ o.data # Nothing -> "fresh"
    [] o.supported /\ o.error = NoError /\ o.data = Nothing -> "loading"

\* cell_state: data wins over an error, and the placeholder is no error
CellState(o) ==
  CASE ~o.supported -> "unsupported"
    [] o.supported /\ o.data # Nothing -> "data"
    [] o.supported /\ o.data = Nothing /\ o.error \in {NoError, Waiting} -> "loading"
    [] o.supported /\ o.data = Nothing /\ o.error = Failed -> "error"
=============================================================================
