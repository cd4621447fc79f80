---------------------------- MODULE ScreenProofs -----------------------------
(***************************************************************************)
(* Theorems about what keys do and what they do it to: about Overview, for *)
(* any checkouts, however they are sorted, filtered and grouped, and about *)
(* Keys, for a help of any length, any page and any bound on the           *)
(* background actions.                                                     *)
(***************************************************************************)
EXTENDS Overview, Keys, FiniteSetTheorems, TLAPS

-----------------------------------------------------------------------------
(* The order of the rows. *)

Rows == Partial(Repo, Row)

LEMMA PartialIs ==
  ASSUME NEW S, NEW T
  PROVE  /\ \A f \in Partial(S, T) :
              DOMAIN f \subseteq S /\ f = [x \in DOMAIN f |-> f[x]] /\ \A x \in DOMAIN f : f[x] \in T
         /\ \A D \in SUBSET S : \A f \in [D -> T] : f \in Partial(S, T) /\ DOMAIN f = D
<1>1. ASSUME NEW f \in Partial(S, T)
      PROVE  DOMAIN f \subseteq S /\ f = [x \in DOMAIN f |-> f[x]] /\ \A x \in DOMAIN f : f[x] \in T
  <2>1. PICK D \in SUBSET S : f \in [D -> T]
    BY <1>1 DEF Partial
  <2> QED
    BY <2>1
<1>2. \A D \in SUBSET S : \A f \in [D -> T] : f \in Partial(S, T) /\ DOMAIN f = D
  BY DEF Partial
<1> QED
  BY <1>1, <1>2

\* Rows that can be sorted: every one has a tier and a place.
Sortable(rs, V) ==
  /\ V \subseteq Repo /\ V \subseteq DOMAIN rs
  /\ \A r \in V : rs[r].tier \in Nat

LEMMA VisibleSortable ==
  ASSUME NEW rs \in Rows, NEW m, NEW a
  PROVE  Sortable(rs, VisibleIn(rs, m, a))
<1>1. DOMAIN rs \subseteq Repo /\ \A x \in DOMAIN rs : rs[x] \in Row
  BY PartialIs DEF Rows
<1> QED
  BY <1>1, OverviewAssumption DEF Sortable, VisibleIn, Row

LEMMA BeforeIsOrder ==
  ASSUME NEW rs, NEW V, Sortable(rs, V)
  PROVE  /\ \A r \in V : ~Before(rs, r, r)
         /\ \A r, s, t \in V : Before(rs, r, s) /\ Before(rs, s, t) => Before(rs, r, t)
         /\ \A r, s \in V : r # s => Before(rs, r, s) \/ Before(rs, s, r)
<1>1. \A r \in V : Place[r] \in Nat /\ rs[r].tier \in Nat
  BY OverviewAssumption DEF Sortable
<1>2. \A r, s \in V : Place[r] = Place[s] => r = s
  BY OverviewAssumption DEF Sortable
<1> QED
  BY <1>1, <1>2 DEF Before

LEMMA RankGrows ==
  ASSUME NEW rs, NEW V, Sortable(rs, V)
  PROVE  /\ IsFiniteSet(V) /\ Cardinality(V) \in Nat /\ Cardinality(V) <= Cardinality(Repo)
         /\ \A r \in V : Rank(rs, V, r) \in 0 .. Cardinality(V) - 1
         /\ \A r, s \in V : Before(rs, r, s) => Rank(rs, V, r) < Rank(rs, V, s)
<1>1. IsFiniteSet(V) /\ Cardinality(V) \in Nat /\ Cardinality(V) <= Cardinality(Repo)
  BY OverviewAssumption, FS_Subset, FS_CardinalityType DEF Sortable
<1>2. \A r \in V : r \notin Ahead(rs, V, r) /\ Ahead(rs, V, r) \subseteq V
  BY BeforeIsOrder DEF Ahead
<1>3. ASSUME NEW S \in SUBSET V
      PROVE  IsFiniteSet(S) /\ Cardinality(S) \in Nat /\ Cardinality(S) <= Cardinality(V)
  BY <1>1, FS_Subset, FS_CardinalityType
<1>4. ASSUME NEW r \in V
      PROVE  Rank(rs, V, r) \in 0 .. Cardinality(V) - 1
  <2>1. Ahead(rs, V, r) \in SUBSET (V \ {r})
    BY <1>2
  <2>2. IsFiniteSet(V \ {r}) /\ Cardinality(V \ {r}) = Cardinality(V) - 1
    BY <1>1, FS_RemoveElement
  <2>3. Cardinality(Ahead(rs, V, r)) <= Cardinality(V) - 1
    BY <2>1, <2>2, FS_Subset
  <2>4. Cardinality(Ahead(rs, V, r)) \in Nat
    BY <1>2, <1>3
  <2> QED
    BY <1>1, <2>3, <2>4 DEF Rank
<1>5. ASSUME NEW r \in V, NEW s \in V, Before(rs, r, s)
      PROVE  Rank(rs, V, r) < Rank(rs, V, s)
  <2>1. Ahead(rs, V, r) \cup {r} \subseteq Ahead(rs, V, s)
    BY <1>5, BeforeIsOrder DEF Ahead
  <2>2. IsFiniteSet(Ahead(rs, V, s)) /\ IsFiniteSet(Ahead(rs, V, r))
        /\ Cardinality(Ahead(rs, V, s)) \in Nat /\ Cardinality(Ahead(rs, V, r)) \in Nat
    BY <1>2, <1>3
  <2>3. Cardinality(Ahead(rs, V, r) \cup {r}) = Cardinality(Ahead(rs, V, r)) + 1
    BY <1>2, <2>2, FS_AddElement
  <2>4. Cardinality(Ahead(rs, V, r) \cup {r}) <= Cardinality(Ahead(rs, V, s))
    BY <2>1, <2>2, FS_Subset
  <2> QED
    BY <2>2, <2>3, <2>4 DEF Rank
<1> QED
  BY <1>1, <1>4, <1>5

\* The visible rows are numbered: no two have one index, and no index up to the
\* last is free.
LEMMA RowsAreNumbered ==
  ASSUME NEW rs, NEW V, Sortable(rs, V)
  PROVE  /\ \A r, s \in V : Rank(rs, V, r) = Rank(rs, V, s) => r = s
         /\ \A i \in 0 .. Cardinality(V) - 1 : \E r \in V : Rank(rs, V, r) = i
<1> DEFINE n == Cardinality(V)
           f == [r \in V |-> Rank(rs, V, r)]
<1>1. IsFiniteSet(V) /\ n \in Nat /\ \A r \in V : Rank(rs, V, r) \in 0 .. n - 1
  BY RankGrows
<1>2. \A r, s \in V : Rank(rs, V, r) = Rank(rs, V, s) => r = s
  <2>1. SUFFICES ASSUME NEW r \in V, NEW s \in V, r # s
                 PROVE  Rank(rs, V, r) # Rank(rs, V, s)
    OBVIOUS
  <2>2. Before(rs, r, s) \/ Before(rs, s, r)
    BY <2>1, BeforeIsOrder
  <2>3. Rank(rs, V, r) < Rank(rs, V, s) \/ Rank(rs, V, s) < Rank(rs, V, r)
    BY <2>2, RankGrows
  <2> QED
    BY <1>1, <2>3
<1>3. IsFiniteSet(0 .. n - 1) /\ Cardinality(0 .. n - 1) = n
  <2>1. Cardinality(0 .. n - 1) = IF 0 > n - 1 THEN 0 ELSE n - 1 - 0 + 1
    BY <1>1, FS_Interval
  <2> QED
    BY <1>1, <2>1, FS_Interval
<1>4. f \in Injection(V, 0 .. n - 1)
  <2>1. f \in [V -> 0 .. n - 1]
    BY <1>1
  <2>2. IsInjective(f)
    BY <1>2 DEF IsInjective
  <2> QED
    BY <2>1, <2>2 DEF Injection
<1> HIDE DEF f
<1>5. f \in Surjection(V, 0 .. n - 1)
  BY <1>3, <1>4, FS_Injection
<1>6. \A i \in 0 .. n - 1 : \E r \in V : f[r] = i
  BY <1>5 DEF Surjection
<1> QED
  BY <1>2, <1>6 DEF f

LEMMA NoneIsNoRow == None \notin Repo
BY OverviewAssumption

LEMMA NthIs ==
  ASSUME NEW rs, NEW V, Sortable(rs, V)
  PROVE  /\ \A r \in V : Nth(rs, V, Rank(rs, V, r)) = r
         /\ \A i : Nth(rs, V, i) # None => Nth(rs, V, i) \in V /\ Rank(rs, V, Nth(rs, V, i)) = i
         /\ \A i : Nth(rs, V, i) \in V \cup {None}
<1>1. ASSUME NEW i, \E r \in V : Rank(rs, V, r) = i
      PROVE  Nth(rs, V, i) \in V /\ Rank(rs, V, Nth(rs, V, i)) = i
  BY <1>1 DEF Nth
<1>2. ASSUME NEW i, ~\E r \in V : Rank(rs, V, r) = i
      PROVE  Nth(rs, V, i) = None
  BY <1>2 DEF Nth
<1>3. ASSUME NEW r \in V
      PROVE  Nth(rs, V, Rank(rs, V, r)) = r
  <2> DEFINE s == Nth(rs, V, Rank(rs, V, r))
  <2>1. s \in V /\ Rank(rs, V, s) = Rank(rs, V, r)
    BY <1>1
  <2> QED
    BY <2>1, RowsAreNumbered
<1> QED
  BY <1>1, <1>2, <1>3

LEMMA LastIs ==
  ASSUME NEW rs, NEW V, Sortable(rs, V)
  PROVE  /\ LastOf(V) \in Nat /\ LastOf(V) <= Cardinality(Repo) - 1
         /\ Cardinality(Repo) \in Nat \ {0}
         /\ \A r \in V : Rank(rs, V, r) <= LastOf(V) /\ Rank(rs, V, r) \in Nat
         /\ \A i \in Nat : V # {} /\ i <= LastOf(V) => Nth(rs, V, i) \in V /\ Nth(rs, V, i) # None
         /\ V = {} => \A i : Nth(rs, V, i) = None
<1>1. Cardinality(Repo) \in Nat \ {0}
  BY OverviewAssumption, FS_EmptySet, FS_CardinalityType
<1>2. /\ IsFiniteSet(V) /\ Cardinality(V) \in Nat /\ Cardinality(V) <= Cardinality(Repo)
      /\ \A r \in V : Rank(rs, V, r) \in 0 .. Cardinality(V) - 1
  BY RankGrows
<1>3. V # {} => Cardinality(V) # 0
  BY <1>2, FS_EmptySet
<1>4. LastOf(V) \in Nat /\ LastOf(V) <= Cardinality(Repo) - 1
  BY <1>1, <1>2, <1>3 DEF LastOf
<1>5. \A r \in V : Rank(rs, V, r) <= LastOf(V) /\ Rank(rs, V, r) \in Nat
  BY <1>2 DEF LastOf
<1>6. ASSUME NEW i \in Nat, V # {}, i <= LastOf(V)
      PROVE  Nth(rs, V, i) \in V /\ Nth(rs, V, i) # None
  <2>1. i \in 0 .. Cardinality(V) - 1
    BY <1>2, <1>3, <1>6 DEF LastOf
  <2>2. PICK r \in V : Rank(rs, V, r) = i
    BY <2>1, RowsAreNumbered
  <2>3. Nth(rs, V, i) = r
    BY <2>2, NthIs
  <2> QED
    BY <2>3, NoneIsNoRow DEF Sortable
<1>7. V = {} => \A i : Nth(rs, V, i) = None
  BY DEF Nth
<1> QED
  BY <1>1, <1>4, <1>5, <1>6, <1>7

\* update_rows: the index stays in view, and on the row if that is in view.
LEMMA IndexKeeps ==
  ASSUME NEW rs \in Rows, NEW a, selected \in Nat, rows \in Rows
  PROVE  LET current == Nth(rows, VisibleIn(rows, matched, a), selected)
             V       == VisibleIn(rs, matched, a)
         IN  /\ IndexAfter(rs, a) \in 0 .. Cardinality(Repo) - 1
             /\ IndexAfter(rs, a) <= LastOf(V)
             /\ current \in V => Nth(rs, V, IndexAfter(rs, a)) = current
<1> DEFINE current == Nth(rows, VisibleIn(rows, matched, a), selected)
           V       == VisibleIn(rs, matched, a)
<1>1. Sortable(rs, V)
  BY VisibleSortable
<1>2. IndexAfter(rs, a) = IF current \in V THEN Rank(rs, V, current)
                          ELSE AtMost(selected, LastOf(V))
  BY DEF IndexAfter
<1> HIDE DEF current, V
<1> DEFINE n == Cardinality(Repo)
<1>0. /\ LastOf(V) \in Nat /\ LastOf(V) <= n - 1 /\ n \in Nat \ {0}
      /\ \A r \in V : Rank(rs, V, r) <= LastOf(V) /\ Rank(rs, V, r) \in Nat
  BY <1>1, LastIs
<1> HIDE DEF n
<1> SUFFICES /\ IndexAfter(rs, a) \in 0 .. n - 1
             /\ IndexAfter(rs, a) <= LastOf(V)
             /\ current \in V => Nth(rs, V, IndexAfter(rs, a)) = current
  BY DEF current, V, n
<1>3. CASE current \in V
  <2>1. Nth(rs, V, Rank(rs, V, current)) = current
    BY <1>1, <1>3, NthIs
  <2> QED
    BY <1>0, <1>2, <1>3, <2>1
<1>4. CASE current \notin V
  <2>1. AtMost(selected, LastOf(V)) \in Nat /\ AtMost(selected, LastOf(V)) <= LastOf(V)
    BY <1>0 DEF AtMost
  <2> QED
    BY <1>0, <1>2, <1>4, <2>1
<1> QED
  BY <1>3, <1>4

-----------------------------------------------------------------------------
(* Kinds and bounds. *)

LEMMA FileIs ==
  ASSUME NEW f \in File
  PROVE  /\ f.spaces \in Partial(Repo, SUBSET Space) /\ f.known \subseteq Space
         /\ f.active \in Space \cup {None}
         /\ DOMAIN f.spaces \subseteq Repo
         /\ \A r \in DOMAIN f.spaces : f.spaces[r] \subseteq Space
<1>1. f.spaces \in Partial(Repo, SUBSET Space) /\ f.known \in SUBSET Space
      /\ f.active \in Space \cup {None}
  BY DEF File
<1> QED
  BY <1>1, PartialIs

\* A file with other memberships is a file.
LEMMA FileWith ==
  ASSUME NEW f \in File, NEW D \in SUBSET Repo, NEW g \in [D -> SUBSET Space]
  PROVE  [f EXCEPT !.spaces = g] \in File
<1>1. g \in Partial(Repo, SUBSET Space)
  BY PartialIs
<1> QED
  BY <1>1 DEF File

LEMMA AddedIsFile ==
  ASSUME NEW f \in File, NEW r \in Repo, NEW w \in Space \cup {None}
  PROVE  Added(f, r, w) \subseteq File
<1> DEFINE D == DOMAIN f.spaces \cup {r}
           g == [s \in D |-> IF s # r THEN f.spaces[s] ELSE IF w = None THEN {} ELSE {w}]
<1>1. D \in SUBSET Repo
  BY FileIs
<1>2. g \in [D -> SUBSET Space]
  BY FileIs
<1>3. Added(f, r, w) \subseteq {[f EXCEPT !.spaces = g]}
  BY DEF Added
<1> HIDE DEF D, g
<1>4. [f EXCEPT !.spaces = g] \in File
  BY <1>1, <1>2, FileWith
<1> QED
  BY <1>3, <1>4

LEMMA RemovedIsFile ==
  ASSUME NEW f \in File, NEW r
  PROVE  Removed(f, r) \subseteq File
<1> DEFINE D == DOMAIN f.spaces \ {r}
           g == [s \in D |-> f.spaces[s]]
<1>1. D \in SUBSET Repo /\ g \in [D -> SUBSET Space]
  BY FileIs
<1>2. Removed(f, r) \subseteq {[f EXCEPT !.spaces = g]}
  BY DEF Removed
<1> HIDE DEF D, g
<1>3. [f EXCEPT !.spaces = g] \in File
  BY <1>1, FileWith
<1> QED
  BY <1>2, <1>3

LEMMA DeletedIsFile ==
  ASSUME NEW f \in File, NEW w \in Space
  PROVE  Deleted(f, w) \subseteq File
<1> DEFINE D == DOMAIN f.spaces
           g == [s \in D |-> f.spaces[s] \ {w}]
           d == [known  |-> f.known \ {w}, spaces |-> g,
                 active |-> IF f.active = w THEN None ELSE f.active]
<1>1. D \in SUBSET Repo /\ g \in [D -> SUBSET Space]
  BY FileIs
<1>2. Deleted(f, w) \subseteq {d}
  BY DEF Deleted
<1>3. g \in Partial(Repo, SUBSET Space)
  BY <1>1, PartialIs
<1> HIDE DEF D, g
<1>4. d \in File
  BY <1>3, FileIs DEF File
<1> QED
  BY <1>2, <1>4

\* Joining and leaving change what one row belongs to.
LEMMA JoinedIsFile ==
  ASSUME NEW f \in File, NEW w \in Space, NEW r
  PROVE  Joined(f, w, r) \subseteq File /\ Left(f, w, r) \subseteq File
<1> DEFINE D == DOMAIN f.spaces
           j == [f.spaces EXCEPT ![r] = f.spaces[r] \cup {w}]
           l == [f.spaces EXCEPT ![r] = f.spaces[r] \ {w}]
<1>1. D \in SUBSET Repo /\ f.spaces \in [D -> SUBSET Space]
  <2>1. f.spaces = [x \in DOMAIN f.spaces |-> f.spaces[x]]
    BY FileIs, PartialIs
  <2> QED
    BY <2>1, FileIs
<1>2. r \in D => j \in [D -> SUBSET Space] /\ l \in [D -> SUBSET Space]
  BY <1>1
<1>3. /\ Joined(f, w, r) \subseteq {[f EXCEPT !.spaces = j]} /\ (Joined(f, w, r) # {} => r \in D)
      /\ Left(f, w, r) \subseteq {[f EXCEPT !.spaces = l]} /\ (Left(f, w, r) # {} => r \in D)
  BY DEF Joined, Left
<1> HIDE DEF D, j, l
<1>4. r \in D => [f EXCEPT !.spaces = j] \in File /\ [f EXCEPT !.spaces = l] \in File
  BY <1>1, <1>2, FileWith
<1> QED
  BY <1>3, <1>4

LEMMA OthersAreFiles ==
  ASSUME NEW f \in File, NEW w \in Space \cup {None}
  PROVE  Activated(f, w) \subseteq File /\ (w \in Space => Created(f, w) \subseteq File)
<1>1. w \in Space => [f EXCEPT !.known = f.known \cup {w}] \in File
  BY FileIs DEF File
<1>2. [f EXCEPT !.active = w] \in File
  BY DEF File
<1>3. Activated(f, w) \subseteq {[f EXCEPT !.active = w]}
  BY DEF Activated
<1>4. Created(f, w) \subseteq {[f EXCEPT !.known = f.known \cup {w}]}
  BY DEF Created
<1> QED
  BY <1>1, <1>2, <1>3, <1>4

LEMMA ReloadedAreRows ==
  ASSUME NEW f \in File, rows \in Rows
  PROVE  Reloaded(f) \in Rows /\ ActiveIn(f) \in Space \cup {None} /\ f.known \subseteq Space
<1> DEFINE D == DOMAIN f.spaces
<1>1. D \in SUBSET Repo /\ f.known \subseteq Space /\ \A r \in D : f.spaces[r] \subseteq Space
  BY FileIs
<1>2. \A r \in DOMAIN rows : rows[r] \in Row
  BY PartialIs DEF Rows
<1>3. ASSUME NEW r \in D
      PROVE  (IF r \in DOMAIN rows THEN [rows[r] EXCEPT !.spaces = f.spaces[r]] ELSE FreshRow(f, r))
               \in Row
  BY <1>1, <1>2, OverviewAssumption DEF Row, FreshRow
<1>4. Reloaded(f) \in [D -> Row]
  BY <1>3 DEF Reloaded
<1>5. Reloaded(f) \in Rows
  BY <1>1, <1>4, PartialIs DEF Rows
<1>6. ActiveIn(f) \in Space \cup {None}
  BY <1>1 DEF ActiveIn
<1> QED
  BY <1>1, <1>5, <1>6

-----------------------------------------------------------------------------
(* Every step keeps kinds and bounds. *)

Index == 0 .. Cardinality(Repo) - 1

\* What update_rows and the handlers around it set.
Shown ==
  /\ rows \in Rows /\ options \subseteq Space /\ active \in Space \cup {None}
  /\ matched \subseteq Repo /\ selected \in Index

\* What is under way.
UnderWay ==
  /\ adding \in Adding /\ others \in 0 .. MaxOthers /\ busy \in BOOLEAN
  /\ at \in {"messages", "key", "ended"} /\ elsewhere \in 0 .. MaxElsewhere

LEMMA TypeOKIs == TypeOK <=> file \in File /\ Shown /\ mode \in Mode /\ UnderWay
BY DEF TypeOK, Shown, UnderWay, Rows, Index

LEMMA Indices ==
  ASSUME Shown
  PROVE  /\ 0 \in Index /\ selected \in Nat /\ Index \subseteq Nat
         /\ LastOf(Visible) \in Index
         /\ \A i \in Nat : AtMost(i, LastOf(Visible)) \in Index
                           /\ AtMost(i, LastOf(Visible)) <= LastOf(Visible)
         /\ \A i \in Index : i - 1 \in Index \/ i = 0
<1>1. Sortable(rows, Visible)
  BY VisibleSortable DEF Shown, Visible
<1>2. /\ LastOf(Visible) \in Nat /\ LastOf(Visible) <= Cardinality(Repo) - 1
      /\ Cardinality(Repo) \in Nat \ {0}
  BY <1>1, LastIs
<1>3. \A i \in Nat : AtMost(i, LastOf(Visible)) \in Index
                     /\ AtMost(i, LastOf(Visible)) <= LastOf(Visible)
  BY <1>2 DEF Index, AtMost
<1> QED
  BY <1>2, <1>3 DEF Index, Shown

LEMMA ReloadShown ==
  ASSUME Shown, NEW f \in File, Reload(f)
  PROVE  Shown'
<1>1. Reloaded(f) \in Rows /\ ActiveIn(f) \in Space \cup {None} /\ f.known \subseteq Space
  BY ReloadedAreRows DEF Shown
<1>2. IndexAfter(Reloaded(f), ActiveIn(f)) \in Index
  BY <1>1, Indices, IndexKeeps DEF Shown, Index
<1> QED
  BY <1>1, <1>2 DEF Reload, Shown, Index

LEMMA SameShown == Shown /\ UNCHANGED Overviewed => Shown'
BY DEF Shown, Overviewed, Index

LEMMA ModesAre ==
  /\ \A k \in {"normal", "filter", "add", "create", "pick", "accounts"} :
       [kind |-> k] \in Mode /\ k \notin Prompt
  /\ \A k \in Prompt, o \in Repo \cup {None} :
       [kind |-> k, opened |-> o, settled |-> TRUE] \in Mode
  /\ \A m \in Mode : /\ Unsettled(m) \in Mode
                     /\ ~(Unsettled(m).kind \in Prompt /\ Unsettled(m).settled)
  /\ Normal \in Mode /\ Normal.kind = "normal" /\ Normal.kind \notin Prompt
<1>1. ASSUME NEW m \in Mode
      PROVE  Unsettled(m) \in Mode /\ ~(Unsettled(m).kind \in Prompt /\ Unsettled(m).settled)
  <2>1. CASE m \in [kind : {"normal", "filter", "add", "create", "pick", "accounts"}]
    BY <2>1 DEF Unsettled, Prompt
  <2>2. CASE m \in [kind : Prompt, opened : Repo \cup {None}, settled : BOOLEAN]
    <3>1. [m EXCEPT !.settled = FALSE] \in Mode
      BY <2>2 DEF Mode
    <3> QED
      BY <2>2, <3>1 DEF Unsettled
  <2> QED
    BY <1>1, <2>1, <2>2 DEF Mode
<1>2. \A k \in {"normal", "filter", "add", "create", "pick", "accounts"} :
        [kind |-> k] \in Mode /\ k \notin Prompt
  BY DEF Mode, Prompt
<1>3. \A k \in Prompt, o \in Repo \cup {None} :
        [kind |-> k, opened |-> o, settled |-> TRUE] \in Mode
  BY DEF Mode
<1> QED
  BY <1>1, <1>2, <1>3 DEF Normal

LEMMA HighlightedIs ==
  ASSUME Shown
  PROVE  Highlighted \in Repo \cup {None} /\ (Highlighted # None => Highlighted \in Visible)
<1>1. Sortable(rows, Visible)
  BY VisibleSortable DEF Shown, Visible
<1> QED
  BY <1>1, NthIs DEF Highlighted, Sortable

LEMMA PollTypes ==
  ASSUME Shown, NEW r \in Repo, PollAnswered(r)
  PROVE  /\ Shown'
         /\ \E rs \in Rows :
              /\ rows' = rs /\ selected' = IndexAfter(rs, active)
              /\ \A m, a : VisibleIn(rs, m, a) = VisibleIn(rows, m, a)
<1>1. PICK tier \in Tier :
        LET rs == IF r \in DOMAIN rows THEN [rows EXCEPT ![r].tier = tier] ELSE rows
        IN  rows' = rs /\ selected' = IndexAfter(rs, active)
  BY DEF PollAnswered
<1> DEFINE rs == IF r \in DOMAIN rows THEN [rows EXCEPT ![r].tier = tier] ELSE rows
           D == DOMAIN rows
<1>2. D \in SUBSET Repo /\ rows \in [D -> Row]
  <2>1. rows = [x \in D |-> rows[x]] /\ D \subseteq Repo /\ \A x \in D : rows[x] \in Row
    BY PartialIs DEF Shown, Rows
  <2> QED
    BY <2>1
<1>3. rs \in [D -> Row] /\ \A x \in D : rs[x].spaces = rows[x].spaces
  <2>1. CASE r \in D
    <3>1. rs = [rows EXCEPT ![r] = [rows[r] EXCEPT !.tier = tier]]
      BY <2>1
    <3>2. rows[r] \in Row
      BY <1>2, <2>1
    <3>3. [rows[r] EXCEPT !.tier = tier] \in Row
          /\ [rows[r] EXCEPT !.tier = tier].spaces = rows[r].spaces
      BY <3>2 DEF Row
    <3> QED
      BY <1>2, <2>1, <3>1, <3>3
  <2>2. CASE r \notin D
    BY <1>2, <2>2
  <2> QED
    BY <2>1, <2>2
<1> HIDE DEF rs
<1>4. rs \in Rows
  BY <1>2, <1>3, PartialIs DEF Rows
<1>5. rows' = rs /\ selected' = IndexAfter(rs, active)
  BY <1>1 DEF rs
<1>6. \A m, a : VisibleIn(rs, m, a) = VisibleIn(rows, m, a)
  <2>1. DOMAIN rs = D
    BY <1>3
  <2> QED
    BY <1>2, <1>3, <2>1 DEF VisibleIn
<1>7. IndexAfter(rs, active) \in Index
  BY <1>4, Indices, IndexKeeps DEF Shown, Index
<1>8. Shown'
  BY <1>4, <1>5, <1>7 DEF PollAnswered, Shown, Index
<1> QED
  BY <1>4, <1>5, <1>6, <1>8

LEMMA MessageTypes ==
  ASSUME TypeOK, Message
  PROVE  TypeOK'
<1>0. file \in File /\ Shown /\ mode \in Mode /\ UnderWay
  BY TypeOKIs
<1>1. ASSUME NEW r \in Repo, PollAnswered(r)
      PROVE  TypeOK'
  <2>1. Shown'
    BY <1>0, <1>1, PollTypes
  <2>2. UNCHANGED <<file, mode, adding, others, busy, at, elsewhere>>
    BY <1>1 DEF PollAnswered
  <2> QED
    BY <1>0, <2>1, <2>2, TypeOKIs DEF UnderWay, TypeOK, Shown, Rows, Index
<1>2. ASSUME AddAnswered
      PROVE  TypeOK'
  <2>1. Shown' /\ mode' \in Mode
    BY <1>0, <1>2, ReloadShown, SameShown, ModesAre DEF AddAnswered
  <2>2. UNCHANGED <<file, others, at, elsewhere>> /\ busy' = FALSE /\ adding' \in Adding
    BY <1>2 DEF AddAnswered, Adding, NoAdd
  <2> QED
    BY <1>0, <2>1, <2>2 DEF UnderWay, TypeOK, Shown, Rows, Index
<1>3. ASSUME OtherAnswered
      PROVE  TypeOK'
  <2>1. Shown'
    BY <1>0, <1>3, SameShown DEF OtherAnswered
  <2>2. UNCHANGED <<file, mode, adding, at, elsewhere>> /\ busy' = FALSE
        /\ others' \in 0 .. MaxOthers
    BY <1>0, <1>3, OverviewAssumption DEF OtherAnswered, UnderWay
  <2> QED
    BY <1>0, <2>1, <2>2 DEF UnderWay, TypeOK, Shown, Rows, Index
<1> QED
  BY <1>1, <1>2, <1>3 DEF Message

LEMMA KeyTypes ==
  ASSUME TypeOK,
         \/ Draw \/ Move \/ Quit
         \/ \E kind \in {"filter", "pick", "add", "create", "accounts"} : Open(kind)
         \/ \E kind \in Prompt : OpenPrompt(kind)
  PROVE  TypeOK'
<1>0. file \in File /\ Shown /\ mode \in Mode /\ UnderWay
  BY TypeOKIs
<1>1. ASSUME file' \in File, Shown', mode' \in Mode, UnderWay'
      PROVE  TypeOK'
  BY <1>1 DEF TypeOK, Shown, UnderWay, Rows, Index
<1>2. ASSUME UNCHANGED <<adding, others, busy, elsewhere>>, at' \in {"messages", "key", "ended"}
      PROVE  UnderWay'
  BY <1>0, <1>2 DEF UnderWay
<1>3. ASSUME UNCHANGED <<rows, options, active, matched>>, selected' \in Index
      PROVE  Shown'
  BY <1>0, <1>3 DEF Shown, Index
<1>4. CASE Draw
  <2>1. selected' \in Index
    BY <1>0, <1>4, Indices DEF Draw
  <2> QED
    BY <1>0, <1>1, <1>2, <1>3, <1>4, <2>1 DEF Draw
<1>5. CASE NoKey \/ KeepFilter \/ Quit
  BY <1>0, <1>1, <1>2, <1>5, SameShown, ModesAre DEF NoKey, KeepFilter, Quit, PastKey
<1>6. CASE Down \/ Up
  <2>0. selected \in Nat /\ selected + 1 \in Nat /\ 0 \in Index /\ selected \in Index
    BY <1>0, Indices DEF Shown
  <2>1. selected' \in Index
    <3>1. AtMost(selected + 1, LastOf(Visible)) \in Index
      BY <1>0, <2>0, Indices
    <3>2. selected - 1 \in Index \/ selected = 0
      BY <1>0, <2>0, Indices
    <3> QED
      BY <1>6, <2>0, <3>1, <3>2 DEF Down, Up
  <2> QED
    BY <1>0, <1>1, <1>2, <1>3, <1>6, <2>1 DEF Down, Up, PastKey
<1>7. CASE Cancel
  <2>1. matched' \subseteq Repo /\ UNCHANGED <<rows, options, active, selected>>
    BY <1>0, <1>7 DEF Cancel, Shown
  <2>2. Shown'
    BY <1>0, <2>1 DEF Shown, Index
  <2> QED
    BY <1>0, <1>1, <1>2, <1>7, <2>2, ModesAre DEF Cancel, PastKey
<1>8. ASSUME NEW m \in Filters, TypeFilter(m)
      PROVE  TypeOK'
  <2>1. matched' \subseteq Repo /\ selected' \in Index /\ UNCHANGED <<rows, options, active>>
    BY <1>0, <1>8, Indices, OverviewAssumption DEF TypeFilter
  <2>2. Shown'
    BY <1>0, <2>1 DEF Shown, Index
  <2> QED
    BY <1>0, <1>1, <1>2, <1>8, <2>2 DEF TypeFilter, PastKey
<1>9. ASSUME NEW kind \in {"filter", "pick", "add", "create", "accounts"}, Open(kind)
      PROVE  TypeOK'
  BY <1>0, <1>1, <1>2, <1>9, SameShown, ModesAre DEF Open, PastKey
<1>10. ASSUME NEW kind \in Prompt, OpenPrompt(kind)
       PROVE  TypeOK'
  BY <1>0, <1>1, <1>2, <1>10, SameShown, ModesAre, HighlightedIs DEF OpenPrompt, PastKey
<1> QED
  BY <1>4, <1>5, <1>6, <1>7, <1>8, <1>9, <1>10 DEF Move

LEMMA EnterTypes ==
  ASSUME TypeOK, Enter \/ AddRuns \/ Elsewhere
  PROVE  TypeOK'
<1>0. file \in File /\ Shown /\ mode \in Mode /\ UnderWay
  BY TypeOKIs
<1>1. ASSUME file' \in File, Shown', mode' \in Mode, UnderWay'
      PROVE  TypeOK'
  BY <1>1 DEF TypeOK, Shown, UnderWay, Rows, Index
<1>2. ASSUME UNCHANGED <<adding, others, busy, elsewhere>>, at' \in {"messages", "key", "ended"}
      PROVE  UnderWay'
  BY <1>0, <1>2 DEF UnderWay
<1>3. ASSUME NEW w \in Space \cup {active}, JoinOrLeave(w)
      PROVE  TypeOK'
  <2>1. w \in Space
    BY <1>0, <1>3 DEF JoinOrLeave, Shown
  <2> DEFINE after == IF mode.kind = "join" THEN Joined(file, w, Highlighted)
                                            ELSE Left(file, w, Highlighted)
  <2>2. after \subseteq File
    BY <1>0, <2>1, JoinedIsFile
  <2>3. (file' \in after /\ Reload(file')) \/ UNCHANGED <<file, Overviewed>>
    BY <1>3 DEF JoinOrLeave
  <2> HIDE DEF after
  <2>4. file' \in File /\ Shown'
    BY <1>0, <2>2, <2>3, ReloadShown, SameShown
  <2> QED
    BY <1>1, <1>2, <1>3, <2>4, ModesAre DEF JoinOrLeave, PastKey
<1>4. CASE NothingToJoin
  BY <1>0, <1>1, <1>2, <1>4, SameShown DEF NothingToJoin
<1>5. CASE SaveAccount
  BY <1>0, <1>1, <1>2, <1>5, ReloadShown, ModesAre DEF SaveAccount, PastKey
<1>6. CASE Remove
  <2>1. file' \in File
    BY <1>0, <1>6, RemovedIsFile DEF Remove
  <2>2. rows' \in Rows
    <3>1. CASE rows' = [r \in DOMAIN rows \ {mode.opened} |-> rows[r]]
      <4> DEFINE D == DOMAIN rows \ {mode.opened}
      <4>1. D \in SUBSET Repo /\ [r \in D |-> rows[r]] \in [D -> Row]
        BY <1>0, PartialIs DEF Shown, Rows
      <4> HIDE DEF D
      <4>2. [r \in D |-> rows[r]] \in Rows
        BY <4>1, PartialIs DEF Rows
      <4> QED
        BY <3>1, <4>2 DEF D
    <3> QED
      BY <1>0, <1>6, <3>1 DEF Remove, Shown
  <2>3. Shown'
    BY <1>0, <1>6, <2>2 DEF Remove, Shown, Index
  <2> QED
    BY <1>1, <1>2, <1>6, <2>1, <2>3, ModesAre DEF Remove, PastKey
<1>7. CASE StartAdd
  <2>1. adding' \in Adding /\ busy' = TRUE /\ at' = "messages" /\ UNCHANGED <<others, elsewhere>>
    BY <1>0, <1>7 DEF StartAdd, Adding, Shown, PastKey
  <2>2. UnderWay'
    BY <1>0, <2>1 DEF UnderWay
  <2> QED
    BY <1>0, <1>1, <1>7, <2>2, SameShown, ModesAre DEF StartAdd
<1>8. CASE StartCheckout \/ StartOther
  <2>1. others' \in 0 .. MaxOthers /\ busy' \in BOOLEAN /\ at' = "messages"
        /\ UNCHANGED <<adding, elsewhere>>
    <3>1. (others' = others + 1 /\ others < MaxOthers) \/ others' = others
      BY <1>8 DEF StartCheckout, StartOther
    <3>2. busy' \in {busy, TRUE}
      BY <1>8 DEF StartCheckout, StartOther
    <3>3. others' \in 0 .. MaxOthers
      BY <1>0, <3>1, OverviewAssumption DEF UnderWay
    <3>4. busy' \in BOOLEAN
      BY <1>0, <3>2, Zenon DEF UnderWay
    <3> QED
      BY <1>8, <3>3, <3>4 DEF StartCheckout, StartOther, PastKey
  <2>2. UnderWay'
    BY <1>0, <2>1 DEF UnderWay
  <2> QED
    BY <1>0, <1>1, <1>8, <2>2, SameShown, ModesAre DEF StartCheckout, StartOther
<1>9. ASSUME NEW w \in Space \cup {None}, PickWorkspace(w)
      PROVE  TypeOK'
  <2>1. file' \in File
    BY <1>0, <1>9, OthersAreFiles DEF PickWorkspace
  <2>2. active' \in Space \cup {None} /\ selected' \in Index /\ UNCHANGED <<rows, options, matched>>
    BY <1>0, <1>9, Indices DEF PickWorkspace, Shown
  <2>3. Shown'
    BY <1>0, <2>2 DEF Shown, Index
  <2> QED
    BY <1>1, <1>2, <1>9, <2>1, <2>3, ModesAre DEF PickWorkspace, PastKey
<1>10. ASSUME NEW w \in Space, CreateWorkspace(w)
       PROVE  TypeOK'
  <2>1. \/ \E f \in Created(file, w) : file' \in Activated(f, w) /\ Reload(file')
        \/ file' \in Created(file, w) /\ UNCHANGED Overviewed
        \/ UNCHANGED <<file, Overviewed>>
    BY <1>10 DEF CreateWorkspace
  <2>2. file' \in File /\ Shown'
    BY <1>0, <2>1, OthersAreFiles, ReloadShown, SameShown
  <2> QED
    BY <1>1, <1>2, <1>10, <2>2, ModesAre DEF CreateWorkspace, PastKey
<1>11. CASE AddRuns
  <2>1. adding.kind = "running" => adding.into \in Space \cup {None}
    BY <1>0 DEF UnderWay, Adding
  <2>2. file' \in File
    BY <1>0, <1>11, <2>1, AddedIsFile DEF AddRuns
  <2>3. adding' \in Adding /\ UNCHANGED <<others, busy, at, elsewhere>>
    BY <1>11 DEF AddRuns, Adding
  <2>4. UnderWay'
    BY <1>0, <2>3 DEF UnderWay
  <2> QED
    BY <1>0, <1>1, <1>11, <2>2, <2>4, SameShown DEF AddRuns
<1>12. CASE Elsewhere
  <2>1. file' \in File
    BY <1>0, <1>12, AddedIsFile, RemovedIsFile, DeletedIsFile, JoinedIsFile, OthersAreFiles
    DEF Elsewhere
  <2>2. elsewhere' \in 0 .. MaxElsewhere /\ UNCHANGED <<adding, others, busy, at>>
    BY <1>0, <1>12, OverviewAssumption DEF Elsewhere, UnderWay
  <2>3. UnderWay'
    BY <1>0, <2>2 DEF UnderWay
  <2> QED
    BY <1>0, <1>1, <1>12, <2>1, <2>3, SameShown DEF Elsewhere
<1> QED
  BY <1>3, <1>4, <1>5, <1>6, <1>7, <1>8, <1>9, <1>10, <1>11, <1>12 DEF Enter, Membership

-----------------------------------------------------------------------------
(* The highlight. *)

Settled == mode.kind \in Prompt /\ mode.settled

\* When a key is read, and as long as a prompt has the row it was opened on,
\* the index is one of a visible row, or there is none.
InView == at = "key" \/ Settled => selected <= LastOf(Visible)

OverviewInvariant == TypeOK /\ InView /\ PromptStays

\* No prompt has its row any more, or none is open.
LEMMA PromptGone ==
  ASSUME at' # "key", mode'.kind \notin Prompt \/ ~mode'.settled
  PROVE  InView' /\ PromptStays'
BY DEF InView, PromptStays, Settled

LEMMA SameHighlight ==
  ASSUME InView, PromptStays, UNCHANGED <<Overviewed, mode>>, at' = at \/ at' # "key"
  PROVE  InView' /\ PromptStays'
<1>1. UNCHANGED <<Visible, Highlighted>> /\ UNCHANGED <<mode, selected>>
  BY DEF Overviewed, Visible, Highlighted
<1> QED
  BY <1>1 DEF InView, PromptStays, Settled

LEMMA PollKeepsHighlight ==
  ASSUME TypeOK, InView, PromptStays, NEW r \in Repo, PollAnswered(r)
  PROVE  InView' /\ PromptStays'
<1>0. Shown
  BY TypeOKIs
<1>1. PICK rs \in Rows : /\ rows' = rs /\ selected' = IndexAfter(rs, active)
                         /\ \A m, a : VisibleIn(rs, m, a) = VisibleIn(rows, m, a)
  BY <1>0, PollTypes
<1>2. at = "messages" /\ UNCHANGED <<matched, active, mode, at>>
  BY DEF PollAnswered
<1>3. Visible' = Visible /\ Visible = VisibleIn(rs, matched, active)
  BY <1>1, <1>2 DEF Visible
<1>4. Highlighted = Nth(rows, Visible, selected) /\ Highlighted' = Nth(rs, Visible, selected')
  BY <1>1, <1>2, <1>3 DEF Highlighted
<1>5. /\ selected' <= LastOf(Visible)
      /\ Highlighted \in Visible => Nth(rs, Visible, selected') = Highlighted
  BY <1>0, <1>1, <1>3, <1>4, IndexKeeps, Indices DEF Shown, Visible
<1>6. InView'
  BY <1>2, <1>3, <1>5 DEF InView, Settled
<1>7. Settled => Highlighted' = Highlighted
  <2>1. CASE Visible = {}
    BY <1>4, <2>1 DEF Nth
  <2>2. CASE Visible # {} /\ Settled
    <3>1. Sortable(rows, Visible) /\ selected \in Nat
      BY <1>0, VisibleSortable, Indices DEF Shown, Visible
    <3>2. Highlighted \in Visible
      BY <2>2, <3>1, <1>4, LastIs DEF InView
    <3> QED
      BY <3>2, <1>4, <1>5
  <2> QED
    BY <2>1, <2>2
<1> QED
  BY <1>2, <1>6, <1>7 DEF PromptStays, Settled

LEMMA DrawKeepsHighlight ==
  ASSUME TypeOK, InView, PromptStays, Draw
  PROVE  InView' /\ PromptStays'
<1>0. Shown
  BY TypeOKIs
<1>1. UNCHANGED <<rows, matched, active, mode>> /\ selected' = AtMost(selected, LastOf(Visible))
  BY DEF Draw
<1>2. Visible' = Visible
  BY <1>1 DEF Visible
<1>3. selected' <= LastOf(Visible)
  BY <1>0, <1>1, Indices
<1>4. Settled => selected' = selected
  BY <1>1 DEF AtMost, InView
<1> QED
  BY <1>1, <1>2, <1>3, <1>4 DEF InView, PromptStays, Settled, Highlighted

LEMMA OverviewStep ==
  ASSUME OverviewInvariant, [Next]_vars
  PROVE  OverviewInvariant'
<1>0. TypeOK /\ InView /\ PromptStays /\ file \in File /\ Shown /\ mode \in Mode /\ UnderWay
  BY TypeOKIs DEF OverviewInvariant
<1>1. CASE Message
  <2>1. TypeOK'
    BY <1>0, <1>1, MessageTypes
  <2>2. ASSUME NEW r \in Repo, PollAnswered(r)
        PROVE  InView' /\ PromptStays'
    BY <1>0, <2>2, PollKeepsHighlight
  <2>3. ASSUME AddAnswered
        PROVE  InView' /\ PromptStays'
    <3>1. at' # "key"
      BY <2>3 DEF AddAnswered
    <3>2. CASE mode' = Unsettled(mode)
      BY <1>0, <3>1, <3>2, ModesAre, PromptGone
    <3>3. CASE UNCHANGED <<Overviewed, mode>>
      BY <1>0, <3>1, <3>3, SameHighlight
    <3> QED
      BY <2>3, <3>2, <3>3 DEF AddAnswered
  <2>4. ASSUME OtherAnswered
        PROVE  InView' /\ PromptStays'
    BY <1>0, <2>4, SameHighlight DEF OtherAnswered
  <2> QED
    BY <1>1, <2>1, <2>2, <2>3, <2>4 DEF Message, OverviewInvariant
<1>2. CASE \/ Draw \/ Move \/ Quit
           \/ \E kind \in {"filter", "pick", "add", "create", "accounts"} : Open(kind)
           \/ \E kind \in Prompt : OpenPrompt(kind)
  <2>1. TypeOK'
    BY <1>0, <1>2, KeyTypes
  <2>2. ASSUME Draw
        PROVE  InView' /\ PromptStays'
    BY <1>0, <2>2, DrawKeepsHighlight
  <2>3. ASSUME NoKey \/ Quit
        PROVE  InView' /\ PromptStays'
    BY <1>0, <2>3, SameHighlight DEF NoKey, Quit, PastKey
  <2>4. ASSUME Down \/ Up
        PROVE  InView' /\ PromptStays'
    <3>1. at' # "key" /\ mode'.kind \notin Prompt
      BY <2>4, ModesAre DEF Down, Up, PastKey
    <3> QED
      BY <3>1, PromptGone
  <2>5. ASSUME Cancel \/ KeepFilter
        PROVE  InView' /\ PromptStays'
    BY <2>5, ModesAre, PromptGone DEF Cancel, KeepFilter, PastKey
  <2>6. ASSUME NEW m \in Filters, TypeFilter(m)
        PROVE  InView' /\ PromptStays'
    BY <2>6, ModesAre, PromptGone DEF TypeFilter, PastKey
  <2>7. ASSUME NEW kind \in {"filter", "pick", "add", "create", "accounts"}, Open(kind)
        PROVE  InView' /\ PromptStays'
    <3>1. at' # "key" /\ mode'.kind \notin Prompt
      BY <2>7, ModesAre DEF Open, PastKey
    <3> QED
      BY <3>1, PromptGone
  <2>8. ASSUME NEW kind \in Prompt, OpenPrompt(kind)
        PROVE  InView' /\ PromptStays'
    <3>1. /\ at = "key" /\ at' # "key" /\ UNCHANGED Overviewed
          /\ mode' = [kind |-> kind, opened |-> Highlighted, settled |-> TRUE]
      BY <2>8 DEF OpenPrompt, PastKey
    <3>2. UNCHANGED <<Visible, Highlighted>> /\ UNCHANGED selected
      BY <3>1 DEF Overviewed, Visible, Highlighted
    <3> QED
      BY <1>0, <3>1, <3>2 DEF InView, PromptStays
  <2> QED
    BY <1>2, <2>1, <2>2, <2>3, <2>4, <2>5, <2>6, <2>7, <2>8 DEF Move, OverviewInvariant
<1>3. CASE Enter \/ AddRuns \/ Elsewhere
  <2>1. TypeOK'
    BY <1>0, <1>3, EnterTypes
  <2>2. ASSUME NothingToJoin \/ AddRuns \/ Elsewhere
        PROVE  InView' /\ PromptStays'
    BY <1>0, <2>2, SameHighlight DEF NothingToJoin, AddRuns, Elsewhere
  <2>3. ASSUME \/ Membership \/ SaveAccount \/ Remove \/ StartAdd \/ StartCheckout
               \/ \E w \in Space \cup {None} : PickWorkspace(w)
               \/ \E w \in Space : CreateWorkspace(w)
        PROVE  InView' /\ PromptStays'
    <3>1. at' # "key" /\ mode' = Normal
      BY <2>3 DEF Membership, JoinOrLeave, SaveAccount, Remove, StartAdd, StartCheckout,
                  PickWorkspace, CreateWorkspace, PastKey
    <3> QED
      BY <3>1, ModesAre, PromptGone
  <2>4. ASSUME StartOther
        PROVE  InView' /\ PromptStays'
    BY <1>0, <2>4, SameHighlight DEF StartOther, PastKey
  <2> QED
    BY <1>3, <2>1, <2>2, <2>3, <2>4 DEF Enter, OverviewInvariant
<1>4. CASE UNCHANGED vars
  <2>1. InView' /\ PromptStays'
    BY <1>0, <1>4, SameHighlight DEF vars, Overviewed
  <2>2. TypeOK'
    BY <1>0, <1>4 DEF vars, TypeOK
  <2> QED
    BY <2>1, <2>2 DEF OverviewInvariant
<1> QED
  BY <1>1, <1>2, <1>3, <1>4 DEF Next

LEMMA InitOverview ==
  ASSUME Init
  PROVE  OverviewInvariant
<1>1. file \in File /\ mode \in Mode /\ Normal.kind \notin Prompt
  BY ModesAre DEF Init
<1>2. rows \in Rows
  <2> DEFINE D == DOMAIN file.spaces
  <2>1. D \in SUBSET Repo /\ \A r \in D : file.spaces[r] \subseteq Space
    BY <1>1, FileIs
  <2>2. \A r \in D : FreshRow(file, r) \in Row
    BY <2>1, OverviewAssumption DEF FreshRow, Row
  <2>3. rows = [r \in D |-> FreshRow(file, r)]
    BY DEF Init
  <2> HIDE DEF D
  <2>4. rows \in [D -> Row]
    BY <2>2, <2>3
  <2> QED
    BY <2>1, <2>4, PartialIs DEF Rows
<1>3. 0 \in Index
  <2>1. Cardinality(Repo) \in Nat \ {0}
    BY OverviewAssumption, FS_EmptySet, FS_CardinalityType
  <2> QED
    BY <2>1 DEF Index
<1>4. Shown
  BY <1>1, <1>2, <1>3, FileIs DEF Init, Shown, ActiveIn
<1>5. UnderWay
  <2>1. others \in 0 .. MaxOthers /\ elsewhere \in 0 .. MaxElsewhere
    BY OverviewAssumption DEF Init
  <2>2. adding \in Adding
    BY DEF Init, Adding, NoAdd
  <2>3. busy \in BOOLEAN /\ at \in {"messages", "key", "ended"}
    BY Zenon DEF Init
  <2> QED
    BY <2>1, <2>2, <2>3 DEF UnderWay
<1>6. TypeOK
  BY <1>1, <1>4, <1>5, TypeOKIs
<1> QED
  BY <1>1, <1>6 DEF Init, OverviewInvariant, InView, PromptStays, Settled

\* Whatever polls, reloads, keys and other processes do, the index of the
\* highlight is that of a visible row when a key is read, and a prompt's row
\* stays the highlighted one (visible, current and update_rows of app.rs).
THEOREM OverviewSound == Spec => []OverviewInvariant
BY InitOverview, OverviewStep, PTL DEF Spec

\* For any checkouts, workspaces and filters, a key acts on the row that is
\* highlighted, which is there if any is visible, and a prompt on the row it was
\* opened on, unless the registry was read again (current of app.rs).
THEOREM KeysActRight == Spec => []KeysActOnTheirRow
<1>1. OverviewInvariant => KeysActOnTheirRow
  <2> SUFFICES ASSUME OverviewInvariant PROVE KeysActOnTheirRow
    OBVIOUS
  <2>0. TypeOK /\ InView /\ PromptStays /\ Shown
    BY TypeOKIs DEF OverviewInvariant
  <2>1. Sortable(rows, Visible) /\ selected \in Nat
    BY <2>0, VisibleSortable, Indices DEF Shown, Visible
  <2>2. SomethingHighlighted
    BY <2>0, <2>1, LastIs DEF SomethingHighlighted, InView, Highlighted
  <2> QED
    BY <2>0, <2>2 DEF KeysActOnTheirRow
<1> QED
  BY <1>1, OverviewSound, PTL

\* Whatever result comes, and wherever it moves the highlighted row, the
\* highlight stays on it while it is in view (update_rows of app.rs).
THEOREM HighlightFollows == Spec => SelectionFollows
<1>1. OverviewInvariant /\ [Next]_vars => [Message => Following(active' = active)]_vars
  <2> SUFFICES ASSUME TypeOK, Message, active' = active,
                      Highlighted \in VisibleIn(rows', matched', active')
               PROVE  Nth(rows', VisibleIn(rows', matched', active'), selected') = Highlighted
    BY DEF OverviewInvariant, Following
  <2>0. Shown /\ file \in File
    BY TypeOKIs
  <2>1. ASSUME NEW r \in Repo, PollAnswered(r)
        PROVE  Nth(rows', VisibleIn(rows', matched', active'), selected') = Highlighted
    <3>1. PICK rs \in Rows : rows' = rs /\ selected' = IndexAfter(rs, active)
      BY <2>0, <2>1, PollTypes
    <3>2. UNCHANGED matched
      BY <2>1 DEF PollAnswered
    <3> QED
      BY <2>0, <3>1, <3>2, IndexKeeps, Indices DEF Shown, Highlighted, Visible
  <2>2. ASSUME Reload(file)
        PROVE  Nth(rows', VisibleIn(rows', matched', active'), selected') = Highlighted
    <3>1. Reloaded(file) \in Rows
      BY <2>0, ReloadedAreRows DEF Shown
    <3>2. /\ rows' = Reloaded(file) /\ selected' = IndexAfter(Reloaded(file), active)
          /\ UNCHANGED <<matched, active>>
      BY <2>2 DEF Reload
    <3> QED
      BY <2>0, <3>1, <3>2, IndexKeeps, Indices DEF Shown, Highlighted, Visible
  <2>3. ASSUME UNCHANGED Overviewed
        PROVE  Nth(rows', VisibleIn(rows', matched', active'), selected') = Highlighted
    BY <2>3 DEF Overviewed, Highlighted, Visible
  <2> QED
    BY <2>1, <2>2, <2>3 DEF Message, AddAnswered, OtherAnswered
<1> QED
  BY <1>1, OverviewSound, PTL DEF Spec, SelectionFollows

-----------------------------------------------------------------------------
(* Keys: the parts of the view. *)

\* The parts of the view, each with its kind.
Viewed ==
  /\ modeKind \in ModeKind /\ help \in BOOLEAN /\ pending \in BOOLEAN
  /\ scroll \in 0 .. Limit
  /\ tab \in 0 .. 5 /\ down \in 0 .. Limit
  /\ action_busy \in BOOLEAN /\ tasks \in 0 .. MaxTasks

LEMMA ScrollingSaturates ==
  ASSUME KeysAssumption, NEW x \in 0 .. Limit, NEW n \in {1, Page}
  PROVE  SatAdd(x, n) \in 0 .. Limit /\ SatSub(x, n) \in 0 .. Limit
BY DEF KeysAssumption, SatAdd, SatSub

LEMMA TabsGoRound == ASSUME tab \in 0 .. 5, NEW n \in {1, 5} PROVE NextTab(n) \in 0 .. 5
BY DEF NextTab

LEMMA PromptsAreModes == \A k \in DOMAIN Opens : Opens[k] \in ModeKind
BY DEF Opens, ModeKind, Fields, Confirms

-----------------------------------------------------------------------------
(* The bounds of help and of the tabs. *)

LEMMA HelpKeyViewed ==
  ASSUME KeysAssumption, Viewed, NEW k \in Key, HelpKey(k) PROVE Viewed'
<1>1. scroll' \in 0 .. Limit
  BY ScrollingSaturates DEF HelpKey, KeysAssumption, Viewed
<1>2. modeKind' \in ModeKind /\ help' \in BOOLEAN /\ pending' \in BOOLEAN
  BY DEF HelpKey, Viewed, ModeKind, Confirms
<1>3. UNCHANGED <<tab, down, action_busy, tasks>>
  BY DEF HelpKey
<1> QED
  BY <1>1, <1>2, <1>3 DEF Viewed

LEMMA EntersViewed == ASSUME Viewed, NEW m \in ModeKind, Enters(m) PROVE Viewed'
BY DEF Enters, Viewed

\* A prompt that ends may leave an action under way.
LEMMA AfterPrompt ==
  ASSUME KeysAssumption, Viewed, modeKind' = "normal", UNCHANGED <<action_busy, tasks>> \/ Spawns,
         UNCHANGED <<help, pending, scroll, tab, down>>
  PROVE  Viewed'
<1>1. tasks' \in 0 .. MaxTasks
  BY SMT DEF Spawns, Viewed, KeysAssumption
<1>2. action_busy' \in BOOLEAN
  BY Zenon DEF Spawns, Viewed
<1>3. modeKind' \in ModeKind
  BY DEF ModeKind
<1>4. help' \in BOOLEAN /\ pending' \in BOOLEAN /\ scroll' \in 0 .. Limit
      /\ tab' \in 0 .. 5 /\ down' \in 0 .. Limit
  BY DEF Viewed
<1> QED
  BY <1>1, <1>2, <1>3, <1>4 DEF Viewed

LEMMA BeginsViewed ==
  ASSUME KeysAssumption, Viewed, NEW flag \in BOOLEAN, Begins(flag) PROVE Viewed'
BY DEF Begins, Viewed, KeysAssumption

LEMMA TurnsViewed ==
  ASSUME KeysAssumption, Viewed, NEW t \in 0 .. 5, Turns(t) PROVE Viewed'
BY DEF Turns, Viewed, KeysAssumption

LEMMA NormalKeyViewed ==
  ASSUME KeysAssumption, Viewed, NEW k \in Key, NormalKey(k) PROVE Viewed'
<1>1. CASE MayOpen(k) /\ Enters(Opens[k])
  BY <1>1, PromptsAreModes, EntersViewed DEF MayOpen
<1>2. CASE MayStart(k) /\ Begins(TRUE)
  BY <1>2, BeginsViewed
<1>3. CASE k = "o" /\ hasRow /\ web /\ Begins(action_busy)
  BY <1>3, BeginsViewed DEF Viewed
<1>4. CASE \/ k \in {"h", "BackTab"} /\ Turns(NextTab(5))
           \/ k \in {"l", "Tab", "Enter"} /\ Turns(NextTab(1))
  BY <1>4, TabsGoRound, TurnsViewed DEF Viewed
<1>5. CASE \/ k \in {"1", "Esc"} /\ Turns(0)
           \/ k = "6" /\ Turns(5)
           \/ k \in {"j", "k"} /\ Turns(tab)
  BY <1>5, TurnsViewed DEF Viewed
<1>6. CASE /\ k \in {"PageDown", "PageUp"}
           /\ down' = IF k = "PageDown" THEN SatAdd(down, Page) ELSE SatSub(down, Page)
           /\ UNCHANGED <<modeKind, help, pending, scroll, tab, action_busy, tasks>>
  BY <1>6, ScrollingSaturates DEF Viewed
<1>7. CASE ~Effective(k) /\ UNCHANGED view
  BY <1>7 DEF Viewed, view
<1> QED
  BY <1>1, <1>2, <1>3, <1>4, <1>5, <1>6, <1>7 DEF NormalKey

LEMMA ModeKeyViewed ==
  ASSUME KeysAssumption, Viewed, NEW k \in Key, ModeKey(k) PROVE Viewed'
<1>1. CASE NormalKey(k)
  BY <1>1, NormalKeyViewed
<1>2. ASSUME UNCHANGED view PROVE Viewed'
  BY <1>2 DEF view, Viewed
<1>3. ASSUME Enters("normal") PROVE Viewed'
  BY <1>3, EntersViewed DEF ModeKind
<1>4. CASE PickerKey(k)
  BY <1>2, <1>3, <1>4 DEF PickerKey
<1>5. CASE ConfirmKey(k)
  <2>1. CASE /\ k \in {"y", "Enter"} /\ modeKind' = "normal"
             /\ IF modeKind = "confirm" THEN Spawns
                ELSE UNCHANGED <<action_busy, tasks>>
             /\ UNCHANGED <<help, pending, scroll, tab, down>>
    <3>1. UNCHANGED <<action_busy, tasks>> \/ Spawns
      BY <2>1 DEF Spawns
    <3> QED
      BY <2>1, <3>1, AfterPrompt
  <2> QED
    BY <1>2, <1>3, <1>5, <2>1 DEF ConfirmKey
<1>6. CASE TextKey(k)
  <2>1. ASSUME Submits PROVE Viewed'
    <3>1. UNCHANGED <<action_busy, tasks>> \/ Spawns
      BY <2>1 DEF Submits, Spawns
    <3> QED
      BY <2>1, <3>1, AfterPrompt DEF Submits
  <2> QED
    BY <1>2, <1>3, <1>6, <2>1 DEF TextKey
<1> QED
  BY <1>1, <1>4, <1>5, <1>6 DEF ModeKey

LEMMA PressStep ==
  ASSUME KeysAssumption, KeysTypeOK, NEW k \in Key, Press(k)
  PROVE  Viewed' /\ phase' = "messages" /\ UNCHANGED <<beyond, hasRow, web>>
<1>1. Viewed
  BY DEF KeysTypeOK, Viewed
<1>2. CASE OpensHelp(k)
  <2>1. /\ help' = TRUE /\ scroll' = 0 /\ pending' = FALSE
        /\ UNCHANGED <<modeKind, tab, down, action_busy, tasks>>
        /\ phase' = "messages" /\ UNCHANGED <<beyond, hasRow, web>>
    BY <1>2 DEF Press, OpenHelp
  <2>2. scroll' \in 0 .. Limit
    BY <2>1, SMT DEF KeysAssumption
  <2> QED
    BY <1>1, <2>1, <2>2, Zenon DEF Viewed
<1>3. CASE ~OpensHelp(k) /\ help
  BY <1>1, <1>3, HelpKeyViewed DEF Press
<1>4. CASE ~OpensHelp(k) /\ ~help
  BY <1>1, <1>4, ModeKeyViewed DEF Press
<1> QED
  BY <1>2, <1>3, <1>4 DEF Press, Viewed

\* After any keys, resizes and results, help is never scrolled beyond what the
\* frame on the screen could show, and every number keeps its bounds.
THEOREM HelpKeepsUp == KeysSpec => []HelpIsInBounds
<1>1. KeysInit => HelpIsInBounds
  <2> SUFFICES ASSUME KeysInit PROVE HelpIsInBounds
    OBVIOUS
  <2>1. Viewed /\ beyond \in 0 .. Longest
    <3>1. /\ scroll \in 0 .. Limit /\ tab \in 0 .. 5 /\ down \in 0 .. Limit
          /\ tasks \in 0 .. MaxTasks /\ beyond \in 0 .. Longest
      BY KeysAssumption, SMT DEF KeysInit, KeysAssumption
    <3>2. modeKind \in ModeKind
      BY DEF KeysInit, ModeKind
    <3>3. help \in BOOLEAN /\ pending \in BOOLEAN /\ action_busy \in BOOLEAN
      BY Zenon DEF KeysInit
    <3> QED
      BY <3>1, <3>2, <3>3 DEF Viewed
  <2>2. hasRow \in BOOLEAN /\ web \in BOOLEAN /\ phase = "messages"
    BY Zenon DEF KeysInit
  <2>3. ~help
    BY Zenon DEF KeysInit
  <2> QED
    BY <2>1, <2>2, <2>3 DEF HelpIsInBounds, HelpScrollsBack, KeysTypeOK, Viewed
<1>2. HelpIsInBounds /\ [KeysNext]_keysVars => HelpIsInBounds'
  <2> SUFFICES ASSUME HelpIsInBounds, [KeysNext]_keysVars PROVE HelpIsInBounds'
    OBVIOUS
  <2>0. KeysTypeOK
    BY DEF HelpIsInBounds
  <2>1. ASSUME NEW k \in Key, Press(k) PROVE HelpIsInBounds'
    BY <2>0, <2>1, PressStep, KeysAssumption
       DEF HelpIsInBounds, HelpScrollsBack, KeysTypeOK, Viewed
  <2>2. CASE QuitKey
    BY <2>2 DEF HelpIsInBounds, HelpScrollsBack, KeysTypeOK, QuitKey, view
  <2>3. CASE Report
    <3>1. tasks' \in 0 .. MaxTasks
      BY <2>0, <2>3, KeysAssumption, SMT DEF Report, KeysTypeOK, KeysAssumption
    <3>3. action_busy' \in BOOLEAN
      BY <2>3, Zenon DEF Report
    <3>2. modeKind' \in ModeKind /\ pending' \in BOOLEAN
      BY <2>0, <2>3 DEF Report, KeysTypeOK, ModeKind, Confirms
    <3> QED
      BY <2>0, <2>3, <3>1, <3>2, <3>3 DEF Report, HelpIsInBounds, HelpScrollsBack, KeysTypeOK
  <2>4. CASE RowsChange
    BY <2>4 DEF HelpIsInBounds, HelpScrollsBack, KeysTypeOK, RowsChange, view
  <2>5. CASE DrawHelp
    <3>1. beyond' \in 0 .. Longest /\ scroll' = Bounded(beyond')
      BY <2>5, KeysAssumption DEF DrawHelp, KeysAssumption
    <3>2. scroll' \in 0 .. Limit /\ scroll' <= beyond'
      BY <2>0, <3>1, KeysAssumption DEF Bounded, KeysTypeOK, KeysAssumption
    <3> QED
      BY <2>0, <2>5, <3>1, <3>2 DEF DrawHelp, HelpIsInBounds, HelpScrollsBack, KeysTypeOK
  <2>6. CASE UNCHANGED keysVars
    BY <2>6 DEF HelpIsInBounds, HelpScrollsBack, KeysTypeOK, keysVars, view
  <2> QED
    BY <2>1, <2>2, <2>3, <2>4, <2>5, <2>6 DEF KeysNext
<1> QED
  BY <1>1, <1>2, PTL DEF KeysSpec

-----------------------------------------------------------------------------
(* The catalogue. *)

\* A key that is available opens its prompt or starts its action.
LEMMA AvailableActs ==
  ASSUME KeysTypeOK, NEW k \in Conditional, NormalKey(k), modeKind = "normal", IsAvailable(k),
         k \in {"m", "u"} => hasRow,
         k = "o" /\ hasRow => web
  PROVE  view' # view
<1>1. Effective(k)
  BY DEF Conditional, Idle, IdleSelection, Selection, IsAvailable, Effective, MayStart, MayOpen,
         Starts, Opens
<1>2. \/ MayOpen(k) /\ Enters(Opens[k])
      \/ MayStart(k) /\ Begins(TRUE)
      \/ k = "o" /\ hasRow /\ web /\ Begins(action_busy)
  BY <1>1 DEF NormalKey, Conditional, Idle, IdleSelection, Selection
<1>3. ASSUME MayOpen(k), Enters(Opens[k]) PROVE modeKind' # modeKind
  BY <1>3 DEF MayOpen, Enters, Opens
<1>4. ASSUME NEW flag, Begins(flag) PROVE tasks' # tasks
  BY <1>4 DEF Begins, KeysTypeOK
<1> QED
  BY <1>2, <1>3, <1>4 DEF view

\* A key that is unavailable has no effect to choose but nothing.
LEMMA UnavailableDoesNothing ==
  ASSUME NEW k \in Conditional, NormalKey(k), ~IsAvailable(k),
         k \in {"m", "u"} => hasRow,
         k = "o" /\ hasRow => web
  PROVE  UNCHANGED view
<1>1. ~MayOpen(k) /\ ~MayStart(k) /\ ~(k = "o" /\ hasRow)
  BY DEF Conditional, Idle, IdleSelection, Selection, IsAvailable, MayStart, MayOpen, Starts, Opens
<1>2. k \notin {"h", "BackTab", "l", "Tab", "Enter", "1", "Esc", "6", "j", "k", "PageDown", "PageUp"}
  BY DEF Conditional, Idle, IdleSelection, Selection
<1> QED
  BY <1>1, <1>2 DEF NormalKey

\* The catalogue that help shows and the handlers agree on every key that either
\* of them makes conditional, but for the exceptions KeysMatchCatalogue names.
THEOREM CatalogueIsTrue == KeysSpec => KeysMatchCatalogue
<1> DEFINE Matches ==
      \A k \in Conditional :
        /\ Press(k) /\ Context = "dashboard"
        /\ k \in {"m", "u"} => hasRow
        /\ k = "o" /\ hasRow => web
        => (IsAvailable(k) <=> view' # view)
<1>1. KeysTypeOK /\ [KeysNext]_keysVars => [Matches]_keysVars
  <2> SUFFICES ASSUME KeysTypeOK, NEW k \in Conditional, Press(k), Context = "dashboard",
                      k \in {"m", "u"} => hasRow,
                      k = "o" /\ hasRow => web
               PROVE  IsAvailable(k) <=> view' # view
    OBVIOUS
  <2>1. ~help /\ modeKind = "normal"
    BY DEF Context, KeysTypeOK
  <2>2. ~OpensHelp(k)
    BY DEF OpensHelp, Conditional, Idle, IdleSelection, Selection
  <2>3. NormalKey(k)
    BY <2>1, <2>2 DEF Press, ModeKey, Confirms, Fields
  <2> QED
    BY <2>1, <2>3, AvailableActs, UnavailableDoesNothing
<1>2. HelpIsInBounds => KeysTypeOK
  BY DEF HelpIsInBounds
<1> QED
  BY <1>1, <1>2, HelpKeepsUp, PTL DEF KeysSpec, KeysMatchCatalogue
=============================================================================
