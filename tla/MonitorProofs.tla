---------------------------- MODULE MonitorProofs ----------------------------
(* For any repositories, remotes, fields and lists, and any number of polls:  *)
(* attention rests on answers of this session, what is stale says so, no      *)
(* notice is missed or repeated, what a row and a cache file hold comes from  *)
(* their own remote unless a path changed its remote under way, and the cells *)
(* and the counts of the header agree with each other.                        *)
EXTENDS Display, FiniteSetTheorems, TLAPS

-----------------------------------------------------------------------------
(* Observations. *)

LEMMA ObservationTypes ==
  ASSUME NEW T, Nothing \notin T
  PROVE  /\ Default \in ObservationOf(T) /\ Unsupported \in ObservationOf(T)
         /\ \A d \in T : Success(d) \in ObservationOf(T)
         /\ \A e \in Error : Failure(e) \in ObservationOf(T)
         /\ \A o, q \in ObservationOf(T) : RetainPrevious(o, q) \in ObservationOf(T)
BY DEF Default, Unsupported, Success, Failure, RetainPrevious, ObservationOf, Error

\* An answer that keeps the former data is a failure, with its error.
LEMMA RetainFacts ==
  ASSUME NEW T, NEW o \in ObservationOf(T), NEW q \in ObservationOf(T)
  PROVE  /\ RetainPrevious(o, q).error = o.error
         /\ RetainPrevious(o, q).supported = o.supported
         /\ RetainPrevious(o, q).data # o.data =>
              /\ RetainPrevious(o, q).data = q.data
              /\ o.error # NoError /\ o.data = Nothing
BY DEF RetainPrevious, ObservationOf

\* Nothing a new session starts with is confirmed.
LEMMA FreshFacts ==
  ASSUME NEW i \in Remote, cache \in [Remote -> RemoteState \cup {NoFile}]
  PROVE  /\ FreshRow(i) \in Row
         /\ FreshRow(i).identity = i
         /\ ~Confirmed(FreshRow(i).local)
         /\ \A f \in Field :
              /\ ~Confirmed(FreshRow(i).remote[f])
              /\ FreshRow(i).remote[f].data # Nothing =>
                   /\ FreshRow(i).remote[f].supported
                   /\ FreshRow(i).remote[f].error # NoError
                   /\ cache[i] # NoFile
                   /\ FreshRow(i).remote[f].data = cache[i][f].data
<1>1. Nothing \notin Data /\ Nothing \notin LocalStates
  BY MonitorAssumption
<1>2. Default \in LocalObservation
  BY <1>1, ObservationTypes DEF LocalObservation
<1>3. ASSUME NEW f \in Field
      PROVE  /\ Cached(i)[f] \in ObservationOf(Data)
             /\ Cached(i)[f].data # Nothing =>
                  /\ Cached(i)[f].supported /\ Cached(i)[f].error # NoError
                  /\ cache[i] # NoFile /\ Cached(i)[f].data = cache[i][f].data
  <2>1. CASE cache[i] = NoFile
    <3>1. Cached(i)[f] = Default
      BY <2>1 DEF Cached
    <3>2. Default \in ObservationOf(Data)
      BY <1>1, ObservationTypes
    <3>3. Default.data = Nothing
      BY DEF Default
    <3> QED
      BY <3>1, <3>2, <3>3
  <2>2. CASE cache[i] # NoFile
    <3>1. cache[i][f] \in ObservationOf(Data)
      BY <2>2 DEF RemoteState
    <3>2. Cached(i)[f] = RetainPrevious(Failure(Waiting), cache[i][f])
      BY <2>2 DEF Cached
    <3>3. Failure(Waiting) \in ObservationOf(Data)
      BY <1>1, ObservationTypes DEF Error
    <3>4. Cached(i)[f] \in ObservationOf(Data)
      BY <3>1, <3>2, <3>3, <1>1, ObservationTypes
    <3>5. Failure(Waiting).error = Waiting /\ Failure(Waiting).data = Nothing
          /\ Failure(Waiting).supported
      BY DEF Failure
    <3> QED
      BY <2>2, <3>1, <3>2, <3>3, <3>4, <3>5, RetainFacts, ObservationAssumption
  <2> QED
    BY <2>1, <2>2
<1>4. Cached(i) \in RemoteState
  <2>1. Cached(i) = [f \in Field |-> Cached(i)[f]]
    BY DEF Cached
  <2> QED
    BY <1>3, <2>1 DEF RemoteState
<1>5. FreshRow(i) \in Row
  BY <1>2, <1>4 DEF FreshRow, Row
<1> QED
  BY <1>3, <1>5 DEF FreshRow, Default, Confirmed

\* Attention looks at the two kinds of observations and nothing else.
LEMMA AttentionOfParts ==
  ASSUME NEW a, NEW b, a.local = b.local, a.remote = b.remote
  PROVE  Attention(a) = Attention(b)
BY Zenon DEF Attention, KnownLocal, CiFailedConfirmed, ReleasePending

\* A row of which nothing is confirmed asks for nothing.
LEMMA UnconfirmedIsCalm ==
  ASSUME NEW row, ~Confirmed(row.local), \A f \in Field : ~Confirmed(row.remote[f])
  PROVE  Attention(row) = ""
<1>1. KnownLocal(row) = Nondescript
  BY DEF KnownLocal
<1>2. ~CiFailedConfirmed(row) /\ ~ReleasePending(row)
  BY DEF CiFailedConfirmed, ReleasePending
<1> QED
  BY <1>1, <1>2 DEF Attention, Nondescript

\* What attention can say, and what has to be confirmed for it.
LEMMA AttentionGrounds ==
  ASSUME NEW row
  PROVE  /\ Attention(row) \in Notable \cup {"", "Local changes"}
         /\ Attention(row) # "" =>
              \/ Confirmed(row.local) /\ "local" \in Grounds(Attention(row))
              \/ \E f \in Field : Confirmed(row.remote[f]) /\ f \in Grounds(Attention(row))
<1> DEFINE s == KnownLocal(row)
<1>1. ~Confirmed(row.local) => s = Nondescript
  BY DEF KnownLocal
<1>2. ~Confirmed(row.local) => ~s.conflicts /\ ~s.upstream /\ ~s.dirty
  BY <1>1 DEF Nondescript
<1>3. CiFailedConfirmed(row) => "ci" \in Field /\ Confirmed(row.remote["ci"])
  BY DEF CiFailedConfirmed
<1>4. ReleasePending(row) =>
        \E f \in Field : f \in {"proposals", "drafts"} /\ Confirmed(row.remote[f])
  BY DEF ReleasePending
<1> HIDE DEF s
<1>5. Attention(row) =
        IF s.conflicts                             THEN "Conflicts"
        ELSE IF s.upstream /\ s.ahead /\ s.behind  THEN "Diverged"
        ELSE IF CiFailedConfirmed(row)             THEN "CI failed"
        ELSE IF s.upstream /\ s.ahead              THEN "unpushed"
        ELSE IF s.upstream /\ s.behind             THEN "incoming"
        ELSE IF ReleasePending(row)                THEN "Release pending"
        ELSE IF s.dirty                            THEN "Local changes"
        ELSE ""
  BY DEF Attention, s
<1> QED
  BY <1>2, <1>3, <1>4, <1>5 DEF Grounds, Notable, Problems, Pending

-----------------------------------------------------------------------------
(* The steps.  Most change neither what is polled nor the remotes. *)

\* Polls under way ask the remote their row has.
PollsAreOwn ==
  \A p \in Poll : p.id \in Shown /\ p.of # Checkout /\ polls[p] > 0
                    => p.of = rows[p.id].identity

\* What every step keeps of a row: what is shown without an error was heard,
\* a notable row has been told, the data is of the row's own remote.
RowOK(r) ==
  /\ Confirmed(rows[r].local) => "local" \in heard[r]
  /\ \A f \in Field :
       rows[r].remote[f].data # Nothing =>
         /\ rows[r].remote[f].supported
         /\ rows[r].remote[f].error = NoError => f \in heard[r]
  /\ (Attention(rows[r]) \in Notable) <=> (told[r] # "nothing")
  /\ swapped \/ \A f \in Field :
       LET d == rows[r].remote[f].data IN d # Nothing => d.of = rows[r].identity

FilesOwn ==
  \A i \in Remote, f \in Field :
    cache[i] # NoFile => LET d == cache[i][f].data IN d # Nothing => d.of = i

Inv == /\ TypeOK
       /\ \A r \in Shown : RowOK(r)
       /\ swapped \/ (FilesOwn /\ PollsAreOwn)

LEMMA FreshRowOK ==
  ASSUME TypeOK, NEW i \in Remote, swapped \/ FilesOwn
  PROVE  /\ FreshRow(i) \in Row
         /\ FreshRow(i).identity = i
         /\ ~Confirmed(FreshRow(i).local)
         /\ \A f \in Field : FreshRow(i).remote[f].data # Nothing =>
              /\ FreshRow(i).remote[f].supported
              /\ FreshRow(i).remote[f].error # NoError
         /\ Attention(FreshRow(i)) \notin Notable
         /\ swapped \/ \A f \in Field : FreshRow(i).remote[f].data # Nothing =>
                                          FreshRow(i).remote[f].data.of = i
<1>1. cache \in [Remote -> RemoteState \cup {NoFile}]
  BY DEF TypeOK
<1>2. Attention(FreshRow(i)) = ""
  BY <1>1, FreshFacts, UnconfirmedIsCalm
<1>3. "" \notin Notable
  BY DEF Notable, Problems, Pending
<1>4. swapped \/ \A f \in Field : FreshRow(i).remote[f].data # Nothing =>
                                   FreshRow(i).remote[f].data.of = i
  <2> SUFFICES ASSUME FilesOwn, NEW f \in Field, FreshRow(i).remote[f].data # Nothing
               PROVE  FreshRow(i).remote[f].data.of = i
    OBVIOUS
  <2>1. cache[i] # NoFile /\ FreshRow(i).remote[f].data = cache[i][f].data
    BY <1>1, FreshFacts
  <2> QED
    BY <2>1 DEF FilesOwn
<1> HIDE DEF FilesOwn
<1> QED
  BY <1>1, <1>2, <1>3, <1>4, FreshFacts

\* A row that is the same in what attention and the remotes see.
LEMMA SameRowOK ==
  ASSUME NEW r \in Shown, RowOK(r), r \in Shown',
         rows'[r].local = rows[r].local, rows'[r].remote = rows[r].remote,
         rows'[r].identity = rows[r].identity \/ swapped',
         heard'[r] = heard[r], told'[r] = told[r], swapped => swapped'
  PROVE  RowOK(r)'
<1>1. Attention(rows[r])' = Attention(rows[r])
  BY AttentionOfParts
<1>2. (Attention(rows[r]) \in Notable)' <=> Attention(rows[r]) \in Notable
  BY <1>1 DEF Notable, Problems, Pending
<1> QED
  BY <1>2 DEF RowOK, Confirmed

LEMMA InitInv == Init => Inv
<1> SUFFICES ASSUME Init PROVE Inv
  OBVIOUS
<1>1. TypeOK /\ FilesOwn
  <2>1. cache \in [Remote -> RemoteState \cup {NoFile}] /\ FilesOwn
    BY DEF Init, FilesOwn
  <2>2. \A r \in Registered : registry[r] \in Remote /\ FreshRow(registry[r]) \in Row
    BY <2>1, FreshFacts DEF Init, Registered
  <2>3. Shown = Registered /\ Registered \subseteq Repo
    BY DEF Init, Shown, Registered
  <2>4. rows \in [Shown -> Row]
    BY <2>2, <2>3 DEF Init
  <2> QED
    BY <2>1, <2>3, <2>4 DEF Init, TypeOK, NoPolls, Untold
<1>2. ASSUME NEW r \in Shown PROVE RowOK(r)
  <2>1. r \in Repo /\ registry[r] \in Remote /\ rows[r] = FreshRow(registry[r])
        /\ told[r] = "nothing" /\ heard[r] = {}
    BY DEF Init, Registered, Shown, Untold
  <2>2. /\ ~Confirmed(rows[r].local)
        /\ \A f \in Field : rows[r].remote[f].data # Nothing =>
             rows[r].remote[f].supported /\ rows[r].remote[f].error # NoError
        /\ Attention(rows[r]) \notin Notable
        /\ rows[r].identity = registry[r]
        /\ swapped \/ \A f \in Field : rows[r].remote[f].data # Nothing =>
                                         rows[r].remote[f].data.of = registry[r]
    BY <1>1, <2>1, FreshRowOK
  <2> QED
    BY <2>1, <2>2 DEF RowOK
<1>3. PollsAreOwn
  BY DEF Init, PollsAreOwn, NoPolls
<1> QED
  BY <1>1, <1>2, <1>3 DEF Inv

\* A new session.
LEMMA RestartInv == Inv /\ Restart => Inv'
<1> SUFFICES ASSUME Inv, Restart PROVE Inv'
  OBVIOUS
<1>1. TypeOK /\ (swapped \/ FilesOwn)
  BY DEF Inv
<1>2. \A r \in Registered : r \in Repo /\ registry[r] \in Remote
  BY <1>1 DEF TypeOK, Registered
<1>3. Shown' = Registered /\ Registered' = Registered
  BY DEF Restart, Shown, Registered
<1>4. TypeOK'
  <2>1. \A r \in Registered : FreshRow(registry[r]) \in Row
    BY <1>1, <1>2, FreshRowOK
  <2>2. rows' \in [Shown' -> Row]
    BY <2>1, <1>3 DEF Restart
  <2> QED
    BY <1>1, <1>2, <1>3, <2>2 DEF Restart, TypeOK, NoPolls, Untold
<1>5. ASSUME NEW r \in Shown' PROVE RowOK(r)'
  <2>1. r \in Repo /\ registry[r] \in Remote /\ rows'[r] = FreshRow(registry[r])
        /\ told'[r] = "nothing" /\ heard'[r] = {} /\ swapped' = swapped
    BY <1>2, <1>3, <1>5 DEF Restart, Untold
  <2>2. /\ ~Confirmed(rows'[r].local)
        /\ \A f \in Field : rows'[r].remote[f].data # Nothing =>
             rows'[r].remote[f].supported /\ rows'[r].remote[f].error # NoError
        /\ Attention(rows'[r]) \notin Notable
        /\ rows'[r].identity = registry[r]
        /\ swapped \/ \A f \in Field : rows'[r].remote[f].data # Nothing =>
                                         rows'[r].remote[f].data.of = registry[r]
    BY <1>1, <2>1, FreshRowOK
  <2> QED
    BY <2>1, <2>2 DEF RowOK, Confirmed, Notable, Problems, Pending
<1>6. FilesOwn => FilesOwn'
  BY DEF FilesOwn, Restart
<1>7. PollsAreOwn'
  BY DEF Restart, PollsAreOwn, NoPolls
<1> QED
  BY <1>1, <1>4, <1>5, <1>6, <1>7 DEF Inv, Restart

LEMMA StartPollInv ==
  ASSUME NEW r \in Repo, NEW k \in Kind
  PROVE  Inv /\ StartPoll(r, k) => Inv'
<1> SUFFICES ASSUME Inv, StartPoll(r, k) PROVE Inv'
  OBVIOUS
<1> DEFINE p == [id |-> r, of |-> IF k = "local" THEN Checkout ELSE rows[r].identity]
<1>1. /\ r \in Shown /\ polls' = [polls EXCEPT ![p] = @ + 1]
      /\ rows' = [rows EXCEPT ![r].busy = @ \cup {k}]
      /\ UNCHANGED <<registry, cache, told, heard, swapped>>
  BY DEF StartPoll
<1>2. TypeOK /\ rows \in [Shown -> Row]
  BY DEF Inv, TypeOK
<1>3. p \in Poll
  BY <1>1, <1>2 DEF Poll, Row
<1>4. Shown' = Shown
  BY <1>1 DEF Shown
<1>5. /\ rows' \in [Shown -> Row]
      /\ \A q \in Shown : rows'[q].local = rows[q].local /\ rows'[q].remote = rows[q].remote
                          /\ rows'[q].identity = rows[q].identity
  BY <1>1, <1>2 DEF Row
<1> HIDE DEF p
<1>6. TypeOK'
  BY <1>1, <1>2, <1>3, <1>4, <1>5 DEF TypeOK
<1>7. ASSUME NEW q \in Shown' PROVE RowOK(q)'
  BY <1>1, <1>4, <1>5, <1>7, SameRowOK DEF Inv
<1>8. FilesOwn => FilesOwn'
  BY <1>1 DEF FilesOwn
<1>9. PollsAreOwn => PollsAreOwn'
  <2> SUFFICES ASSUME PollsAreOwn, NEW q \in Poll, q.id \in Shown, q.of # Checkout, polls'[q] > 0
               PROVE  q.of = rows'[q.id].identity
    BY <1>4 DEF PollsAreOwn
  <2>1. CASE q = p
    BY <2>1, <1>1, <1>5 DEF p
  <2>2. CASE q # p
    BY <2>2, <1>1, <1>2, <1>5 DEF PollsAreOwn, TypeOK
  <2> QED
    BY <2>1, <2>2
<1> QED
  BY <1>1, <1>6, <1>7, <1>8, <1>9 DEF Inv

\* A message about a row that is gone.
LEMMA NobodyListens ==
  ASSUME Inv, NEW p \in Poll, Handled(p), p.id \notin Shown,
         NEW row, NEW answer, TakeOver(p, row, answer),
         UNCHANGED <<registry, cache, swapped>>
  PROVE  Inv'
<1>1. TypeOK /\ rows \in [Shown -> Row]
  BY DEF Inv, TypeOK
<1>2. rows' = rows /\ Shown' = Shown
  BY <1>1 DEF TakeOver, Shown
<1>3. told' = told /\ heard' = heard
  BY <1>1 DEF TakeOver, TypeOK
<1>4. polls' \in [Poll -> Nat] /\ \A q \in Poll : polls'[q] > 0 => polls[q] > 0
  BY <1>1 DEF Handled, TypeOK
<1>5. TypeOK'
  BY <1>1, <1>2, <1>3, <1>4 DEF TypeOK
<1>6. ASSUME NEW r \in Shown' PROVE RowOK(r)'
  BY <1>2, <1>3, SameRowOK DEF Inv
<1>7. (FilesOwn => FilesOwn') /\ (PollsAreOwn => PollsAreOwn')
  BY <1>2, <1>4 DEF FilesOwn, PollsAreOwn
<1> QED
  BY <1>5, <1>6, <1>7 DEF Inv

\* A message about a row that is shown: what is left to show is that the row
\* has its types, that what it shows was heard, and where its data is from.
LEMMA OneListens ==
  ASSUME Inv, NEW p \in Poll, Handled(p), p.id \in Shown,
         NEW row \in Row, NEW answer, TakeOver(p, row, answer),
         row.identity = rows[p.id].identity,
         UNCHANGED <<registry, swapped>>,
         HeardAfter(p.id, KindOf(p), answer) \in SUBSET Source,
         Confirmed(row.local) => "local" \in HeardAfter(p.id, KindOf(p), answer),
         \A f \in Field : row.remote[f].data # Nothing =>
           /\ row.remote[f].supported
           /\ row.remote[f].error = NoError => f \in HeardAfter(p.id, KindOf(p), answer),
         swapped \/ \A f \in Field :
           row.remote[f].data # Nothing => row.remote[f].data.of = row.identity,
         cache' \in [Remote -> RemoteState \cup {NoFile}],
         swapped \/ FilesOwn'
  PROVE  Inv'
<1>1. TypeOK /\ rows \in [Shown -> Row]
  BY DEF Inv, TypeOK
<1>2. /\ rows' = [q \in Shown |-> IF q = p.id THEN [row EXCEPT !.busy = @ \ {KindOf(p)}]
                                  ELSE rows[q]]
      /\ told' = [told EXCEPT ![p.id] =
                    TellingAfter(p.id, Attention(rows[p.id]), Attention(row))]
      /\ heard' = [heard EXCEPT ![p.id] = HeardAfter(p.id, KindOf(p), answer)]
  BY DEF TakeOver
<1>3. Shown' = Shown /\ p.id \in Repo
  BY <1>1, <1>2 DEF Shown, TypeOK
<1>4. polls' \in [Poll -> Nat] /\ \A q \in Poll : polls'[q] > 0 => polls[q] > 0
  BY <1>1 DEF Handled, TypeOK
<1>5. /\ rows' \in [Shown -> Row]
      /\ rows'[p.id].local = row.local /\ rows'[p.id].remote = row.remote
      /\ rows'[p.id].identity = row.identity
      /\ \A q \in Shown : q # p.id => rows'[q] = rows[q]
  BY <1>1, <1>2 DEF Row
<1> DEFINE after == TellingAfter(p.id, Attention(rows[p.id]), Attention(row))
           news  == HeardAfter(p.id, KindOf(p), answer)
<1>6. told'[p.id] = after /\ heard'[p.id] = news
  BY <1>1, <1>2, <1>3 DEF TypeOK
<1>7. \A q \in Shown : q # p.id => told'[q] = told[q] /\ heard'[q] = heard[q]
  BY <1>1, <1>2 DEF TypeOK
<1>8. (Attention(rows[p.id]) \in Notable) <=> (told[p.id] # "nothing")
  BY DEF Inv, RowOK
<1>9. told[p.id] \in Notable \cup {"nothing"} /\ "nothing" \notin Notable
  BY <1>1, <1>3 DEF TypeOK, Notable, Problems, Pending
<1>10. after \in Notable \cup {"nothing"} /\ (Attention(row) \in Notable <=> after # "nothing")
  BY <1>8, <1>9 DEF TellingAfter, EnteredNoticeTier
<1> HIDE DEF after, news
<1>11. news \in SUBSET Source
  BY DEF news
<1>12. told' \in [Repo -> Notable \cup {"nothing"}] /\ heard' \in [Repo -> SUBSET Source]
  BY <1>1, <1>2, <1>10, <1>11 DEF TypeOK, after, news
<1>13. TypeOK'
  <2>1. Notable' = Notable
    BY DEF Notable, Problems, Pending
  <2> QED
    BY <1>1, <1>3, <1>4, <1>5, <1>12, <2>1 DEF TypeOK
<1>14. ASSUME NEW q \in Shown' PROVE RowOK(q)'
  <2>1. CASE q = p.id
    <3>1. Attention(rows[p.id])' = Attention(row)
      BY <1>5, AttentionOfParts
    <3>2. (Attention(rows[p.id]) \in Notable)' <=> told'[p.id] # "nothing"
      BY <3>1, <1>6, <1>10 DEF Notable, Problems, Pending
    <3>3. /\ Confirmed(rows'[p.id].local) => "local" \in heard'[p.id]
          /\ \A f \in Field : rows'[p.id].remote[f].data # Nothing =>
               /\ rows'[p.id].remote[f].supported
               /\ rows'[p.id].remote[f].error = NoError => f \in heard'[p.id]
      BY <1>5, <1>6 DEF news
    <3>4. swapped' \/ \A f \in Field :
            rows'[p.id].remote[f].data # Nothing =>
              rows'[p.id].remote[f].data.of = rows'[p.id].identity
      BY <1>5
    <3> QED
      BY <2>1, <3>2, <3>3, <3>4 DEF RowOK, Confirmed
  <2>2. CASE q # p.id
    BY <2>2, <1>3, <1>5, <1>7, SameRowOK DEF Inv
  <2> QED
    BY <2>1, <2>2
<1>15. PollsAreOwn => PollsAreOwn'
  <2> SUFFICES ASSUME PollsAreOwn, NEW q \in Poll, q.id \in Shown, q.of # Checkout, polls'[q] > 0
               PROVE  q.of = rows'[q.id].identity
    BY <1>3 DEF PollsAreOwn
  <2>1. q.of = rows[q.id].identity
    BY <1>4 DEF PollsAreOwn
  <2> QED
    BY <2>1, <1>5
<1> QED
  BY <1>13, <1>14, <1>15 DEF Inv

LEMMA LocalMessageInv ==
  ASSUME NEW p \in Poll, NEW o \in LocalAnswers
  PROVE  Inv /\ LocalMessage(p, o) => Inv'
<1> SUFFICES ASSUME Inv, LocalMessage(p, o) PROVE Inv'
  OBVIOUS
<1> DEFINE row == LocalTaken(rows[p.id], o)
<1>1. /\ p.of = Checkout /\ Handled(p) /\ TakeOver(p, row, o)
      /\ UNCHANGED <<registry, cache, swapped>>
  BY DEF LocalMessage
<1>2. CASE p.id \notin Shown
  <2> HIDE DEF row
  <2> QED BY <1>1, <1>2, NobodyListens
<1>3. CASE p.id \in Shown
  <2>1. TypeOK /\ rows[p.id] \in Row /\ p.id \in Repo
    BY <1>3 DEF Inv, TypeOK
  <2>2. Nothing \notin LocalStates
    BY MonitorAssumption
  <2>3. o \in LocalObservation
    BY <2>2, ObservationTypes DEF LocalAnswers, LocalObservation, Error
  <2>4. rows[p.id].local \in LocalObservation
    BY <2>1 DEF Row
  <2> DEFINE l == RetainPrevious(o, rows[p.id].local)
  <2>5. l \in LocalObservation /\ l.error = o.error
    BY <2>2, <2>3, <2>4, ObservationTypes, RetainFacts DEF LocalObservation
  <2>6. row = [rows[p.id] EXCEPT !.local = l]
    BY DEF LocalTaken
  <2> HIDE DEF l, row
  <2>7. /\ row \in Row /\ row.local = l /\ row.remote = rows[p.id].remote
        /\ row.identity = rows[p.id].identity
    BY <2>1, <2>5, <2>6 DEF Row
  <2> DEFINE news == HeardAfter(p.id, KindOf(p), o)
  <2>8. news = IF o.error = NoError THEN heard[p.id] \cup {"local"} ELSE heard[p.id] \ {"local"}
    BY <1>1 DEF HeardAfter, KindOf
  <2>9. heard[p.id] \in SUBSET Source /\ "local" \in Source /\ "local" \notin Field
    BY <2>1, MonitorAssumption DEF TypeOK, Source
  <2>10. news \in SUBSET Source /\ (Confirmed(row.local) => "local" \in news)
    BY <2>5, <2>7, <2>8, <2>9 DEF Confirmed
  <2>11. RowOK(p.id)
    BY <1>3 DEF Inv
  <2>12. \A f \in Field : row.remote[f].data # Nothing =>
           /\ row.remote[f].supported
           /\ row.remote[f].error = NoError => f \in news
    BY <2>7, <2>8, <2>9, <2>11 DEF RowOK
  <2>13. swapped \/ \A f \in Field :
           row.remote[f].data # Nothing => row.remote[f].data.of = row.identity
    BY <2>7, <2>11 DEF RowOK
  <2>14. cache' \in [Remote -> RemoteState \cup {NoFile}]
    BY <1>1, <2>1 DEF TypeOK
  <2>15. swapped \/ FilesOwn'
    BY <1>1 DEF Inv, FilesOwn
  <2> QED
    BY <1>1, <1>3, <2>7, <2>10, <2>12, <2>13, <2>14, <2>15, OneListens
<1> QED
  BY <1>2, <1>3

LEMMA RemoteMessageInv ==
  ASSUME NEW p \in Poll, NEW state \in [Field -> FieldAnswers(p.of)]
  PROVE  Inv /\ RemoteMessage(p, state) => Inv'
<1> SUFFICES ASSUME Inv, RemoteMessage(p, state) PROVE Inv'
  OBVIOUS
<1> DEFINE row == RemoteTaken(rows[p.id], state)
<1>1. /\ p.of # Checkout /\ Handled(p) /\ TakeOver(p, row, state)
      /\ \/ UNCHANGED cache
         \/ p.id \in Shown /\ cache' = [cache EXCEPT ![rows[p.id].identity] = row.remote]
      /\ UNCHANGED <<registry, swapped>>
  BY DEF RemoteMessage, FileOf
<1>2. CASE p.id \notin Shown
  <2> HIDE DEF row
  <2> QED BY <1>1, <1>2, NobodyListens
<1>3. CASE p.id \in Shown
  <2>1. TypeOK /\ rows[p.id] \in Row /\ p.id \in Repo /\ p.of \in Remote
    BY <1>1, <1>3 DEF Inv, TypeOK, Poll
  <2>2. Nothing \notin Data
    BY MonitorAssumption
  <2> DEFINE old == rows[p.id].remote
  <2>3. old \in RemoteState
    BY <2>1 DEF Row
  <2>4. ASSUME NEW f \in Field
        PROVE  /\ state[f] \in ObservationOf(Data)
               /\ state[f].data # Nothing => state[f].data.of = p.of
               /\ ~state[f].supported => state[f].data = Nothing /\ state[f].error = NoError
    <3>1. state[f] \in FieldAnswers(p.of)
      OBVIOUS
    <3>2. \A s \in SUBSET Item : [of |-> p.of, items |-> s] \in Data
      BY <2>1 DEF Data
    <3>3. state[f] \in ObservationOf(Data)
      BY <2>2, <3>1, <3>2, ObservationTypes DEF FieldAnswers, Error
    <3> QED
      BY <3>1, <3>3 DEF FieldAnswers, Success, Failure, Unsupported
  <2>5. row = [rows[p.id] EXCEPT !.remote = [f \in Field |-> RetainPrevious(state[f], old[f])]]
    BY DEF RemoteTaken
  <2> HIDE DEF row
  <2>6. ASSUME NEW f \in Field
        PROVE  /\ RetainPrevious(state[f], old[f]) \in ObservationOf(Data)
               /\ RetainPrevious(state[f], old[f]).error = state[f].error
               /\ RetainPrevious(state[f], old[f]).supported = state[f].supported
               /\ RetainPrevious(state[f], old[f]).data # state[f].data =>
                    /\ RetainPrevious(state[f], old[f]).data = old[f].data
                    /\ state[f].error # NoError
    <3>1. old[f] \in ObservationOf(Data)
      BY <2>3 DEF RemoteState
    <3>2. state[f] \in ObservationOf(Data)
      BY <2>4
    <3> HIDE DEF old
    <3>3. RetainPrevious(state[f], old[f]) \in ObservationOf(Data)
      BY <3>1, <3>2, <2>2, ObservationTypes
    <3>4. /\ RetainPrevious(state[f], old[f]).error = state[f].error
          /\ RetainPrevious(state[f], old[f]).supported = state[f].supported
          /\ RetainPrevious(state[f], old[f]).data # state[f].data =>
               RetainPrevious(state[f], old[f]).data = old[f].data /\ state[f].error # NoError
      BY <3>1, <3>2, RetainFacts
    <3> QED
      BY <3>3, <3>4
  <2> DEFINE now == [f \in Field |-> RetainPrevious(state[f], old[f])]
  <2>7. now \in RemoteState
    BY <2>6 DEF RemoteState
  <2>8. \A f \in Field : now[f] = RetainPrevious(state[f], old[f])
    OBVIOUS
  <2> HIDE DEF now
  <2>9. /\ row \in Row /\ row.local = rows[p.id].local /\ row.remote = now
        /\ row.identity = rows[p.id].identity
    <3>1. row = [rows[p.id] EXCEPT !.remote = now]
      BY <2>5 DEF now
    <3> HIDE DEF old
    <3> QED
      BY <3>1, <2>1, <2>7 DEF Row
  <2> DEFINE news == HeardAfter(p.id, KindOf(p), state)
  <2>10. news = (heard[p.id] \cap {"local"}) \cup {f \in Field : state[f].error = NoError}
    BY <1>1 DEF HeardAfter, KindOf
  <2>11. heard[p.id] \in SUBSET Source
    BY <2>1 DEF TypeOK
  <2>12. RowOK(p.id)
    BY <1>3 DEF Inv
  <2>13. news \in SUBSET Source /\ (Confirmed(row.local) => "local" \in news)
    BY <2>9, <2>10, <2>11, <2>12 DEF RowOK, Source
  <2>14. \A f \in Field : row.remote[f].data # Nothing =>
           /\ row.remote[f].supported
           /\ row.remote[f].error = NoError => f \in news
    BY <2>4, <2>6, <2>8, <2>9, <2>10
  <2>15. swapped \/ \A f \in Field :
           row.remote[f].data # Nothing => row.remote[f].data.of = row.identity
    <3> SUFFICES ASSUME ~swapped, NEW f \in Field, now[f].data # Nothing
                 PROVE  now[f].data.of = rows[p.id].identity
      BY <2>9
    <3>1. p.of = rows[p.id].identity
      BY <1>1, <1>3 DEF Inv, PollsAreOwn, Handled
    <3>2. old[f].data # Nothing => old[f].data.of = rows[p.id].identity
      BY <2>12 DEF RowOK
    <3> HIDE DEF old
    <3> QED
      BY <3>1, <3>2, <2>4, <2>6, <2>8
  <2>16. cache' \in [Remote -> RemoteState \cup {NoFile}]
    BY <1>1, <2>1, <2>7, <2>9 DEF TypeOK, Row
  <2>17. swapped \/ FilesOwn'
    <3> SUFFICES ASSUME ~swapped, NEW i \in Remote, NEW f \in Field,
                        cache'[i] # NoFile, cache'[i][f].data # Nothing
                 PROVE  cache'[i][f].data.of = i
      BY DEF FilesOwn
    <3>1. cache[i] # NoFile /\ cache[i][f].data # Nothing => cache[i][f].data.of = i
      BY DEF Inv, FilesOwn
    <3>2. cache \in [Remote -> RemoteState \cup {NoFile}]
      BY <2>1 DEF TypeOK
    <3>3. cache'[i] = cache[i] \/ (i = rows[p.id].identity /\ cache'[i] = row.remote)
      BY <1>1, <3>2
    <3> QED
      BY <3>1, <3>3, <2>9, <2>15
  <2> HIDE DEF news
  <2> QED
    BY <1>1, <1>3, <2>9, <2>13, <2>14, <2>15, <2>16, <2>17, OneListens DEF news
<1> QED
  BY <1>2, <1>3

LEMMA EditRegistryInv ==
  ASSUME NEW r \in Repo, NEW i \in Remote \cup {Absent}
  PROVE  Inv /\ EditRegistry(r, i) => Inv'
<1> SUFFICES ASSUME Inv, EditRegistry(r, i) PROVE Inv'
  OBVIOUS
<1>1. /\ registry' = [registry EXCEPT ![r] = i]
      /\ UNCHANGED <<rows, polls, cache, told, heard, swapped>>
  BY DEF EditRegistry
<1>2. Shown' = Shown
  BY <1>1 DEF Shown
<1>3. TypeOK'
  BY <1>1, <1>2 DEF Inv, TypeOK
<1>4. ASSUME NEW q \in Shown' PROVE RowOK(q)'
  BY <1>1, <1>2, SameRowOK DEF Inv
<1>5. (FilesOwn => FilesOwn') /\ (PollsAreOwn => PollsAreOwn')
  BY <1>1, <1>2 DEF FilesOwn, PollsAreOwn
<1> QED
  BY <1>1, <1>3, <1>4, <1>5 DEF Inv

LEMMA RemoveInv ==
  ASSUME NEW r \in Repo
  PROVE  Inv /\ Remove(r) => Inv'
<1> SUFFICES ASSUME Inv, Remove(r) PROVE Inv'
  OBVIOUS
<1>1. /\ registry' = [registry EXCEPT ![r] = Absent]
      /\ rows' = [q \in Shown \ {r} |-> rows[q]]
      /\ told' = [told EXCEPT ![r] = "nothing"]
      /\ heard' = [heard EXCEPT ![r] = {}]
      /\ UNCHANGED <<polls, cache, swapped>>
  BY DEF Remove
<1>2. TypeOK
  BY DEF Inv
<1>3. Shown' = Shown \ {r}
  BY <1>1 DEF Shown
<1>4. TypeOK'
  BY <1>1, <1>2, <1>3 DEF TypeOK
<1>5. ASSUME NEW q \in Shown' PROVE RowOK(q)'
  <2>1. q \in Shown /\ q # r /\ rows'[q] = rows[q]
    BY <1>1, <1>3
  <2>2. told'[q] = told[q] /\ heard'[q] = heard[q]
    BY <2>1, <1>1, <1>2 DEF TypeOK
  <2> QED
    BY <1>1, <2>1, <2>2, SameRowOK DEF Inv
<1>6. (FilesOwn => FilesOwn') /\ (PollsAreOwn => PollsAreOwn')
  BY <1>1, <1>3 DEF FilesOwn, PollsAreOwn
<1> QED
  BY <1>1, <1>4, <1>5, <1>6 DEF Inv

\* A reload that leaves every row and every poll with its remote.
LEMMA ReloadInv == Inv /\ Reload => Inv'
<1> SUFFICES ASSUME Inv, Reload PROVE Inv'
  OBVIOUS
<1>1. /\ rows' = [r \in Registered |-> IF r \in Shown THEN Kept(r) ELSE FreshRow(registry[r])]
      /\ told' = [r \in Repo |-> IF r \in Registered \cap Shown THEN told[r] ELSE "nothing"]
      /\ heard' = [r \in Repo |-> IF r \in Registered \cap Shown THEN heard[r] ELSE {}]
      /\ swapped' = (swapped \/ Swapped # {})
      /\ UNCHANGED <<registry, polls, cache>>
  BY DEF Reload
<1>2. TypeOK /\ (swapped \/ FilesOwn)
  BY DEF Inv
<1>3. Shown' = Registered
  BY <1>1 DEF Shown
<1>4. \A r \in Registered : r \in Repo /\ registry[r] \in Remote
  BY <1>2 DEF TypeOK, Registered
<1>5. ASSUME NEW r \in Registered, r \in Shown
      PROVE  /\ rows'[r] \in Row /\ rows'[r].identity = registry[r]
             /\ rows'[r].local = rows[r].local /\ rows'[r].remote = rows[r].remote
  <2>1. rows'[r] = [rows[r] EXCEPT !.identity = registry[r]]
    BY <1>1, <1>5 DEF Kept
  <2>2. rows[r] \in Row /\ registry[r] \in Remote
    BY <1>2, <1>4, <1>5 DEF TypeOK
  <2> QED
    BY <2>1, <2>2 DEF Row
<1>6. ASSUME NEW r \in Registered, r \notin Shown
      PROVE  rows'[r] = FreshRow(registry[r]) /\ rows'[r] \in Row /\ rows'[r].identity = registry[r]
  BY <1>1, <1>2, <1>4, <1>6, FreshRowOK
<1>7. rows' \in [Shown' -> Row] /\ \A r \in Shown' : rows'[r].identity = registry[r]
  <2>1. rows' = [r \in Registered |-> rows'[r]]
    BY <1>1
  <2> QED
    BY <1>3, <1>5, <1>6, <2>1
<1>8. TypeOK'
  <2>1. told' \in [Repo -> Notable \cup {"nothing"}] /\ heard' \in [Repo -> SUBSET Source]
    BY <1>1, <1>2 DEF TypeOK
  <2>2. Shown' \subseteq Repo /\ swapped' \in BOOLEAN
    BY <1>1, <1>2, <1>3, <1>4 DEF TypeOK
  <2>3. Notable' = Notable
    BY DEF Notable, Problems, Pending
  <2> QED
    BY <1>1, <1>2, <1>7, <2>1, <2>2, <2>3 DEF TypeOK
<1>9. ASSUME NEW r \in Shown' PROVE RowOK(r)'
  <2>1. CASE r \in Shown
    <3>1. told'[r] = told[r] /\ heard'[r] = heard[r]
      BY <1>1, <1>3, <1>4, <1>9, <2>1
    <3>2. rows'[r].identity = rows[r].identity \/ swapped'
      BY <1>1, <1>3, <1>5, <1>9, <2>1 DEF Swapped
    <3> QED
      BY <1>1, <1>3, <1>5, <1>9, <2>1, <3>1, <3>2, SameRowOK DEF Inv
  <2>2. CASE r \notin Shown
    <3>1. told'[r] = "nothing" /\ heard'[r] = {} /\ registry[r] \in Remote
      BY <1>1, <1>3, <1>4, <2>2
    <3>2. rows'[r] = FreshRow(registry[r])
      BY <1>3, <1>6, <2>2
    <3>3. /\ ~Confirmed(FreshRow(registry[r]).local)
          /\ \A f \in Field : FreshRow(registry[r]).remote[f].data # Nothing =>
               /\ FreshRow(registry[r]).remote[f].supported
               /\ FreshRow(registry[r]).remote[f].error # NoError
          /\ Attention(FreshRow(registry[r])) \notin Notable
          /\ FreshRow(registry[r]).identity = registry[r]
          /\ swapped \/ \A f \in Field : FreshRow(registry[r]).remote[f].data # Nothing =>
                                           FreshRow(registry[r]).remote[f].data.of = registry[r]
      BY <1>2, <3>1, FreshRowOK
    <3>4. /\ ~Confirmed(rows'[r].local)
          /\ \A f \in Field : rows'[r].remote[f].data # Nothing =>
               rows'[r].remote[f].supported /\ rows'[r].remote[f].error # NoError
          /\ Attention(rows'[r]) \notin Notable
          /\ swapped' \/ \A f \in Field : rows'[r].remote[f].data # Nothing =>
                                            rows'[r].remote[f].data.of = rows'[r].identity
      BY <1>1, <3>2, <3>3
    <3> QED
      BY <3>1, <3>4 DEF RowOK, Confirmed, Notable, Problems, Pending
  <2> QED
    BY <2>1, <2>2
<1>10. FilesOwn => FilesOwn'
  BY <1>1 DEF FilesOwn
<1>11. swapped' \/ PollsAreOwn'
  <2> SUFFICES ASSUME Swapped = {}, NEW p \in Poll, p.id \in Registered,
                      p.of # Checkout, polls[p] > 0
               PROVE  p.of = rows'[p.id].identity
    BY <1>1, <1>3 DEF PollsAreOwn
  <2>1. p.of \in {Checkout, registry[p.id]}
    BY DEF Swapped
  <2> QED
    BY <2>1, <1>3, <1>7
<1> QED
  BY <1>1, <1>2, <1>8, <1>9, <1>10, <1>11 DEF Inv

LEMMA StutterInv == Inv /\ UNCHANGED vars => Inv'
<1> SUFFICES ASSUME Inv, UNCHANGED vars PROVE Inv'
  OBVIOUS
<1>1. UNCHANGED <<registry, rows, polls, cache, told, heard, swapped>> /\ Shown' = Shown
  BY DEF vars, Shown
<1>2. TypeOK'
  BY <1>1 DEF Inv, TypeOK
<1>3. ASSUME NEW q \in Shown' PROVE RowOK(q)'
  BY <1>1, SameRowOK DEF Inv
<1>4. (FilesOwn => FilesOwn') /\ (PollsAreOwn => PollsAreOwn')
  BY <1>1 DEF FilesOwn, PollsAreOwn
<1> QED
  BY <1>1, <1>2, <1>3, <1>4 DEF Inv

\* The invariant holds in every session, however rows come, go and are polled.
THEOREM MonitorInvariant == Spec => []Inv
<1>1. Init => Inv
  BY InitInv
<1>2. Inv /\ [Next]_vars => Inv'
  BY RestartInv, ReloadInv, RemoveInv, EditRegistryInv, StartPollInv,
     LocalMessageInv, RemoteMessageInv, StutterInv DEF Next
<1> QED
  BY <1>1, <1>2, PTL DEF Spec

\* The rows of the dashboard and its cache files keep their types.
THEOREM MonitorTypes == Spec => []TypeOK
<1>1. Inv => TypeOK
  BY DEF Inv
<1> QED
  BY <1>1, MonitorInvariant, PTL

\* A row asks for attention only on the ground of what was heard this session.
THEOREM AttentionIsConfirmed == Spec => []ConfirmedAttention
<1>1. Inv => ConfirmedAttention
  <2> SUFFICES ASSUME Inv, NEW r \in Shown, Attention(rows[r]) # ""
               PROVE  Grounds(Attention(rows[r])) \cap heard[r] # {}
    BY DEF ConfirmedAttention
  <2>1. RowOK(r)
    BY DEF Inv
  <2>2. CASE Confirmed(rows[r].local) /\ "local" \in Grounds(Attention(rows[r]))
    BY <2>1, <2>2 DEF RowOK
  <2>3. ASSUME NEW f \in Field, Confirmed(rows[r].remote[f]), f \in Grounds(Attention(rows[r]))
        PROVE  Grounds(Attention(rows[r])) \cap heard[r] # {}
    BY <2>1, <2>3 DEF RowOK, Confirmed
  <2> QED
    BY <2>2, <2>3, AttentionGrounds
<1> QED
  BY <1>1, MonitorInvariant, PTL

\* What a row keeps of a source that failed, or of the cache, says it is stale.
THEOREM StaleSaysSo == Spec => []StaleIsMarked
<1>1. Inv => StaleIsMarked
  <2> SUFFICES ASSUME Inv, NEW r \in Shown, NEW f \in Field,
                      rows[r].remote[f].data # Nothing, f \notin heard[r]
               PROVE  Label(rows[r].remote[f]) = "stale"
    BY DEF StaleIsMarked
  <2>1. rows[r].remote[f].supported /\ rows[r].remote[f].error # NoError
    BY DEF Inv, RowOK
  <2> QED
    BY <2>1 DEF Label
<1> QED
  BY <1>1, MonitorInvariant, PTL

\* Exactly the rows in a notice tier have been told of.
THEOREM NoticesAreGiven == Spec => []NoticeWasGiven
<1>1. Inv => NoticeWasGiven
  BY DEF Inv, RowOK, NoticeWasGiven
<1> QED
  BY <1>1, MonitorInvariant, PTL

\* Rows and cache files hold data of their own remote, unless a path took on
\* another remote while its former one was about.
THEOREM DataIsOwn == Spec => []OwnRemote
<1>1. Inv => OwnRemote
  BY DEF Inv, RowOK, FilesOwn, OwnRemote
<1> QED
  BY <1>1, MonitorInvariant, PTL

-----------------------------------------------------------------------------
(* A failure loses no data. *)

\* What one field may become: what it was, or what an answer makes of it.
Follows(before, after) ==
  /\ after.error # NoError => after.data = before.data
  /\ after.supported /\ before.data # Nothing => after.data # Nothing

LEMMA AnswerFollows ==
  ASSUME NEW i \in Remote, NEW a \in FieldAnswers(i), NEW b
  PROVE  Follows(b, RetainPrevious(a, b))
<1>1. CASE a = Failure(Failed)
  BY <1>1, ObservationAssumption
     DEF Failure, RetainPrevious, Follows, ObservationAssumption
<1>2. CASE a = Unsupported
  BY <1>2 DEF Unsupported, RetainPrevious, Follows
<1>3. CASE \E s \in SUBSET Item : a = Success([of |-> i, items |-> s])
  <2>1. PICK s \in SUBSET Item : a = Success([of |-> i, items |-> s])
    BY <1>3
  <2>2. [of |-> i, items |-> s] # Nothing
    BY MonitorAssumption DEF MonitorAssumption, Data
  <2> QED
    BY <2>1, <2>2 DEF Success, RetainPrevious, Follows
<1> QED
  BY <1>1, <1>2, <1>3 DEF FieldAnswers

\* In every session a row's data goes by an answer that brings other data, or
\* that says there is no such thing; no failure, reload or edit of the registry
\* takes it away (retain_previous, event_loop.rs).
THEOREM NothingIsLost == Spec => SuccessReplaces
<1> DEFINE Loses == Restart \/ \A r \in Shown \cap DOMAIN rows', f \in Field :
                                  Follows(rows[r].remote[f], rows'[r].remote[f])
<1>1. TypeOK /\ [Next]_vars => [Loses]_vars
  <2> SUFFICES ASSUME TypeOK, Next, ~Restart, NEW r \in Shown \cap DOMAIN rows', NEW f \in Field
               PROVE  Follows(rows[r].remote[f], rows'[r].remote[f])
    BY DEF vars
  <2>1. ASSUME rows'[r].remote = rows[r].remote
        PROVE  Follows(rows[r].remote[f], rows'[r].remote[f])
    BY <2>1 DEF Follows
  <2>2. rows[r] \in Row
    BY DEF TypeOK
  <2>3. CASE Reload
    <3>1. rows'[r] = Kept(r)
      BY <2>3 DEF Reload
    <3>2. Kept(r).remote = rows[r].remote
      BY <2>2 DEF Kept, Row
    <3> QED
      BY <2>1, <3>1, <3>2
  <2>4. ASSUME NEW q \in Repo, Remove(q) PROVE rows'[r].remote = rows[r].remote
    BY <2>4 DEF Remove
  <2>5. ASSUME NEW q \in Repo, NEW i \in Remote \cup {Absent}, EditRegistry(q, i)
        PROVE  rows'[r].remote = rows[r].remote
    BY <2>5 DEF EditRegistry
  <2>6. ASSUME NEW q \in Repo, NEW k \in Kind, StartPoll(q, k)
        PROVE  rows'[r].remote = rows[r].remote
    BY <2>2, <2>6 DEF StartPoll, TypeOK, Row
  <2>7. ASSUME NEW p \in Poll, NEW o \in LocalAnswers, LocalMessage(p, o)
        PROVE  rows'[r].remote = rows[r].remote
    <3>1. CASE r = p.id
      <4>1. rows'[r] = [LocalTaken(rows[r], o) EXCEPT !.busy = @ \ {KindOf(p)}]
        BY <2>7, <3>1 DEF LocalMessage, TakeOver
      <4>2. LocalTaken(rows[r], o).remote = rows[r].remote
        BY <2>2 DEF LocalTaken, Row
      <4> QED
        BY <2>2, <4>1, <4>2 DEF LocalTaken, Row
    <3>2. CASE r # p.id
      BY <2>7, <3>2 DEF LocalMessage, TakeOver
    <3> QED
      BY <3>1, <3>2
  <2>8. ASSUME NEW p \in Poll, NEW state \in [Field -> FieldAnswers(p.of)],
               RemoteMessage(p, state)
        PROVE  Follows(rows[r].remote[f], rows'[r].remote[f])
    <3>1. CASE r = p.id
      <4>1. rows'[r] = [RemoteTaken(rows[r], state) EXCEPT !.busy = @ \ {KindOf(p)}]
        BY <2>8, <3>1 DEF RemoteMessage, TakeOver
      <4>2. rows'[r].remote[f] = RetainPrevious(state[f], rows[r].remote[f])
        BY <2>2, <4>1 DEF RemoteTaken, Row
      <4>3. p.of \in Remote /\ state[f] \in FieldAnswers(p.of)
        BY <2>8 DEF RemoteMessage, Poll
      <4> QED
        BY <4>2, <4>3, AnswerFollows
    <3>2. CASE r # p.id
      <4>1. rows'[r] = rows[r]
        BY <2>8, <3>2 DEF RemoteMessage, TakeOver
      <4> QED
        BY <2>1, <4>1
    <3> QED
      BY <3>1, <3>2
  <2> QED
    BY <2>1, <2>3, <2>4, <2>5, <2>6, <2>7, <2>8 DEF Next
<1>2. [Loses]_vars =>
        [Restart \/ \A r \in Shown \cap DOMAIN rows', f \in Field :
           LET before == rows[r].remote[f]
               after  == rows'[r].remote[f]
           IN  /\ after.error # NoError => after.data = before.data
               /\ after.supported /\ before.data # Nothing => after.data # Nothing]_vars
  BY DEF Follows
<1> QED
  BY <1>1, <1>2, MonitorTypes, PTL DEF Spec, SuccessReplaces

-----------------------------------------------------------------------------
(* Sums over the rows. *)

\* What holds of nothing, and of what is one larger, holds of every size.
LEMMA SizesGoUp ==
  ASSUME NEW S, 0 \in S, \A n \in Nat : n \in S => n + 1 \in S
  PROVE  Nat \subseteq S
<1> DEFINE T == Nat \ S
<1>1. SUFFICES ASSUME T # {} PROVE FALSE
  OBVIOUS
<1>2. IsWellFoundedOn(OpToRel(<, Nat), Nat)
  BY NatLessThanWellFounded
<1>3. PICK x \in T : \A y \in T : ~ (<<y, x>> \in OpToRel(<, Nat))
  BY <1>1, <1>2, WFMin
<1>4. \A y \in T : ~ (y < x)
  BY <1>3 DEF OpToRel
<1>5. x # 0 /\ x \in Nat /\ x \notin S
  OBVIOUS
<1>6. x - 1 \in Nat /\ x - 1 < x /\ (x - 1) + 1 = x
  BY <1>5
<1>7. x - 1 \notin T
  BY <1>4, <1>6
<1> QED
  BY <1>5, <1>6, <1>7

One(s) == CHOOSE x \in s : TRUE

\* Sets of rows, by what they are without one of them.
LEMMA RowsGoUp ==
  ASSUME NEW R, IsFiniteSet(R), NEW P, {} \in P,
         \A s \in SUBSET R : s # {} /\ s \ {One(s)} \in P => s \in P
  PROVE  SUBSET R \subseteq P
<1> DEFINE Upto(n) == {s \in SUBSET R : Cardinality(s) <= n}
           Sizes == {n \in Nat : Upto(n) \subseteq P}
<1>1. \A s \in SUBSET R : IsFiniteSet(s) /\ Cardinality(s) \in Nat
                           /\ (Cardinality(s) = 0 <=> s = {})
  BY FS_Subset, FS_CardinalityType, FS_EmptySet
<1>2. 0 \in Sizes
  <2>1. \A s \in Upto(0) : s = {}
    BY <1>1
  <2> QED
    BY <2>1
<1>3. ASSUME NEW n \in Nat, n \in Sizes PROVE n + 1 \in Sizes
  <2>1. ASSUME NEW s \in Upto(n + 1) PROVE s \in P
    <3>1. CASE s = {}
      BY <3>1
    <3>2. CASE s # {}
      <4>1. One(s) \in s
        BY <3>2 DEF One
      <4>2. Cardinality(s \ {One(s)}) = Cardinality(s) - 1
        BY <1>1, <4>1, FS_RemoveElement
      <4>3. s \ {One(s)} \in Upto(n)
        BY <1>1, <4>2
      <4>4. s \ {One(s)} \in P
        BY <1>3, <4>3
      <4> QED
        BY <3>2, <4>4
    <3> QED
      BY <3>1, <3>2
  <2> QED
    BY <2>1
<1>4. Nat \subseteq Sizes
  <2> HIDE DEF Sizes
  <2> QED
    BY <1>2, <1>3, SizesGoUp
<1>5. ASSUME NEW s \in SUBSET R PROVE s \in P
  <2>1. Cardinality(s) \in Sizes
    BY <1>1, <1>4
  <2>2. s \in Upto(Cardinality(s))
    BY <1>1
  <2> QED
    BY <2>1, <2>2
<1> QED
  BY <1>5

\* The steps of a sum over rows; there is a function that takes them.
IsSum(g, f, D) ==
  g = [s \in D |-> IF s = {} THEN 0 ELSE KnownCount(rows[One(s)], f) + g[s \ {One(s)}]]

LEMMA SumExists ==
  ASSUME IsFiniteSet(Shown), NEW f
  PROVE  \E g : IsSum(g, f, SUBSET Shown)
<1> DEFINE Upto(n) == {s \in SUBSET Shown : Cardinality(s) <= n}
           Sizes == {n \in Nat : \E g : IsSum(g, f, Upto(n))}
<1>1. \A s \in SUBSET Shown : IsFiniteSet(s) /\ Cardinality(s) \in Nat
                              /\ (Cardinality(s) = 0 <=> s = {})
  BY FS_Subset, FS_CardinalityType, FS_EmptySet
<1>2. 0 \in Sizes
  <2> DEFINE g == [s \in Upto(0) |-> 0]
  <2>1. \A s \in Upto(0) : s = {}
    BY <1>1
  <2>2. IsSum(g, f, Upto(0))
    BY <2>1 DEF IsSum
  <2> QED
    BY <2>2
<1>3. ASSUME NEW n \in Nat, n \in Sizes PROVE n + 1 \in Sizes
  <2>1. PICK g : IsSum(g, f, Upto(n))
    BY <1>3
  <2> DEFINE h == [s \in Upto(n + 1) |-> IF s = {} THEN 0
                                        ELSE KnownCount(rows[One(s)], f) + g[s \ {One(s)}]]
  <2>2. ASSUME NEW s \in Upto(n + 1), s # {}
        PROVE  s \ {One(s)} \in Upto(n) /\ s \ {One(s)} \in Upto(n + 1)
    <3>1. One(s) \in s
      BY <2>2 DEF One
    <3>2. Cardinality(s \ {One(s)}) = Cardinality(s) - 1
      BY <1>1, <3>1, FS_RemoveElement
    <3> QED
      BY <1>1, <3>2
  <2>3. ASSUME NEW s \in Upto(n) PROVE h[s] = g[s]
    <3>1. s \in Upto(n + 1)
      BY <1>1
    <3> QED
      BY <2>1, <3>1 DEF IsSum
  <2>4. ASSUME NEW s \in Upto(n + 1), s # {}
        PROVE  g[s \ {One(s)}] = h[s \ {One(s)}]
    BY <2>2, <2>3, <2>4
  <2>5. IsSum(h, f, Upto(n + 1))
    BY <2>4 DEF IsSum
  <2>6. \E q : IsSum(q, f, Upto(n + 1))
    <3> HIDE DEF h
    <3> QED
      BY <2>5
  <2> QED
    BY <2>6
<1>4. Nat \subseteq Sizes
  <2> HIDE DEF Sizes
  <2> QED
    BY <1>2, <1>3, SizesGoUp
<1>5. Cardinality(Shown) \in Sizes
  BY <1>1, <1>4
<1>6. Upto(Cardinality(Shown)) = SUBSET Shown
  BY <1>1, FS_Subset
<1> QED
  BY <1>5, <1>6

\* The header's totals are numbers that no row's count exceeds.
LEMMA TotalCounts ==
  ASSUME IsFiniteSet(Shown), NEW f, \A r \in Shown : KnownCount(rows[r], f) \in Nat
  PROVE  Total(f) \in Nat /\ \A r \in Shown : KnownCount(rows[r], f) <= Total(f)
<1> DEFINE g == CHOOSE g : IsSum(g, f, SUBSET Shown)
           P == {s \in SUBSET Shown : g[s] \in Nat /\ \A r \in s : KnownCount(rows[r], f) <= g[s]}
<1>1. Total(f) = g[Shown]
  BY DEF Total, MapThenSumSet, MapThenFoldSet, IsSum, One
<1>2. IsSum(g, f, SUBSET Shown)
  BY SumExists
<1> HIDE DEF g
<1>3. {} \in P
  BY <1>2 DEF IsSum
<1>4. ASSUME NEW s \in SUBSET Shown, s # {}, s \ {One(s)} \in P PROVE s \in P
  <2>1. One(s) \in s
    BY <1>4 DEF One
  <2> DEFINE n == KnownCount(rows[One(s)], f)
             m == g[s \ {One(s)}]
  <2>2. g[s] = n + m
    BY <1>2, <1>4 DEF IsSum
  <2>3. n \in Nat /\ m \in Nat /\ \A r \in s \ {One(s)} : KnownCount(rows[r], f) <= m
    BY <1>4, <2>1
  <2>4. \A r \in s \ {One(s)} : KnownCount(rows[r], f) \in Nat
    OBVIOUS
  <2>5. n <= n + m /\ m <= n + m /\ n + m \in Nat
    BY <2>3
  <2>6. ASSUME NEW r \in s PROVE KnownCount(rows[r], f) <= n + m
    <3>1. CASE r = One(s)
      BY <2>5, <3>1
    <3>2. CASE r # One(s)
      <4>1. KnownCount(rows[r], f) <= m /\ KnownCount(rows[r], f) \in Nat
        BY <2>3, <2>4, <3>2
      <4> HIDE DEF n, m
      <4> QED
        BY <4>1, <2>3
    <3> QED
      BY <3>1, <3>2
  <2> QED
    BY <2>2, <2>5, <2>6
<1>5. SUBSET Shown \subseteq P
  <2> HIDE DEF P
  <2> QED
    BY <1>3, <1>4, RowsGoUp
<1>6. Shown \in P
  BY <1>5
<1> QED
  BY <1>1, <1>6

-----------------------------------------------------------------------------
(* What the overview says of the rows. *)

\* A source was heard when its last answer had no error.
HeardIsCalm ==
  \A r \in Shown, f \in Field : f \in heard[r] => rows[r].remote[f].error = NoError

LEMMA HeardStep == ASSUME Inv, HeardIsCalm, [Next]_vars PROVE HeardIsCalm'
<1> SUFFICES ASSUME NEW r \in Shown', NEW f \in Field, f \in heard'[r]
             PROVE  rows'[r].remote[f].error = NoError
  BY DEF HeardIsCalm
<1>1. TypeOK /\ \A q \in Shown : rows[q] \in Row /\ q \in Repo
  BY DEF Inv, TypeOK
<1>2. ASSUME r \in Shown, rows'[r].remote = rows[r].remote, f \in heard[r]
      PROVE  rows'[r].remote[f].error = NoError
  BY <1>2 DEF HeardIsCalm
<1>3. CASE Restart
  BY <1>3 DEF Restart, Shown, Registered
<1>4. CASE Reload
  <2>1. Shown' = Registered /\ r \in Repo
    BY <1>4 DEF Reload, Shown, Registered
  <2>2. r \in Shown /\ f \in heard[r]
    BY <1>4, <2>1 DEF Reload
  <2>3. rows'[r] = Kept(r)
    BY <1>4, <2>1, <2>2 DEF Reload
  <2>4. Kept(r).remote = rows[r].remote
    BY <1>1, <2>2 DEF Kept, Row
  <2> QED
    BY <1>2, <2>2, <2>3, <2>4
<1>5. ASSUME NEW q \in Repo, Remove(q) PROVE rows'[r].remote[f].error = NoError
  <2>1. r \in Shown \ {q} /\ rows'[r] = rows[r]
    BY <1>5 DEF Remove, Shown
  <2>2. heard'[r] = heard[r]
    BY <1>1, <1>5, <2>1 DEF Remove, TypeOK
  <2> QED
    BY <1>2, <2>1, <2>2
<1>6. ASSUME NEW q \in Repo, NEW i \in Remote \cup {Absent}, EditRegistry(q, i)
      PROVE  rows'[r].remote[f].error = NoError
  BY <1>2, <1>6 DEF EditRegistry, Shown
<1>7. ASSUME NEW q \in Repo, NEW k \in Kind, StartPoll(q, k)
      PROVE  rows'[r].remote[f].error = NoError
  <2>1. rows' = [rows EXCEPT ![q].busy = @ \cup {k}] /\ heard' = heard
    BY <1>7 DEF StartPoll
  <2>2. r \in Shown
    BY <2>1 DEF Shown
  <2>3. rows'[r].remote = rows[r].remote
    BY <1>1, <2>1, <2>2 DEF Row, TypeOK
  <2> QED
    BY <1>2, <2>1, <2>2, <2>3
<1>8. ASSUME NEW p \in Poll, NEW o \in LocalAnswers, LocalMessage(p, o)
      PROVE  rows'[r].remote[f].error = NoError
  <2>1. r \in Shown /\ p.id \in Repo
    BY <1>8 DEF LocalMessage, TakeOver, Shown, Poll
  <2>2. rows'[r].remote = rows[r].remote
    <3>1. CASE r = p.id
      BY <1>1, <1>8, <2>1, <3>1 DEF LocalMessage, TakeOver, LocalTaken, Row
    <3>2. CASE r # p.id
      BY <1>8, <2>1, <3>2 DEF LocalMessage, TakeOver
    <3> QED
      BY <3>1, <3>2
  <2>3. f # "local"
    BY MonitorAssumption DEF MonitorAssumption
  <2>4. f \in heard[r]
    <3>1. CASE r = p.id
      <4>1. heard'[r] = HeardAfter(r, "local", o)
        BY <1>1, <1>8, <2>1, <3>1 DEF LocalMessage, TakeOver, TypeOK, KindOf
      <4> QED
        BY <2>3, <4>1 DEF HeardAfter
    <3>2. CASE r # p.id
      BY <1>1, <1>8, <2>1, <3>2 DEF LocalMessage, TakeOver, TypeOK
    <3> QED
      BY <3>1, <3>2
  <2> QED
    BY <1>2, <2>1, <2>2, <2>4
<1>9. ASSUME NEW p \in Poll, NEW state \in [Field -> FieldAnswers(p.of)], RemoteMessage(p, state)
      PROVE  rows'[r].remote[f].error = NoError
  <2>1. r \in Shown /\ p.id \in Repo
    BY <1>9 DEF RemoteMessage, TakeOver, Shown, Poll
  <2>2. CASE r # p.id
    <3>1. rows'[r] = rows[r] /\ heard'[r] = heard[r]
      BY <1>1, <1>9, <2>1, <2>2 DEF RemoteMessage, TakeOver, TypeOK
    <3> QED
      BY <1>2, <2>1, <3>1
  <2>3. CASE r = p.id
    <3>1. rows'[r] = [RemoteTaken(rows[r], state) EXCEPT !.busy = @ \ {KindOf(p)}]
      BY <1>9, <2>1, <2>3 DEF RemoteMessage, TakeOver
    <3>2. rows'[r].remote[f] = RetainPrevious(state[f], rows[r].remote[f])
      BY <1>1, <2>1, <3>1 DEF RemoteTaken, Row
    <3>3. heard'[r] = HeardAfter(r, "remote", state)
      BY <1>1, <1>9, <2>1, <2>3 DEF RemoteMessage, TakeOver, TypeOK, KindOf
    <3>4. state[f].error = NoError
      <4>1. f # "local"
        BY MonitorAssumption DEF MonitorAssumption
      <4> QED
        BY <3>3, <4>1 DEF HeardAfter
    <3> QED
      BY <3>2, <3>4 DEF RetainPrevious
  <2> QED
    BY <2>2, <2>3
<1>10. CASE UNCHANGED vars
  BY <1>2, <1>10 DEF vars, Shown
<1> QED
  BY <1>3, <1>4, <1>5, <1>6, <1>7, <1>8, <1>9, <1>10 DEF Next

\* What a cell says is a failed check is data with a failed check.
LEMMA FailCell ==
  ASSUME NEW o \in ObservationOf(Data)
  PROVE  CiLabel(o) = "fail" <=>
           o.supported /\ o.data # Nothing /\ o.data.items \cap FailMarked # {}
<1>1. CASE o.supported /\ o.data # Nothing
  <2>1. CellState(o) = "data"
    BY <1>1 DEF CellState
  <2> QED
    BY <1>1, <2>1 DEF CiLabel
<1>2. CASE ~(o.supported /\ o.data # Nothing)
  <2>1. CellState(o) \in {"loading", "error", "unsupported"}
    BY <1>2 DEF CellState, ObservationOf, Error
  <2>2. Count(o) \in {"...", "!", "n/a"}
    BY <2>1 DEF Count
  <2> QED
    BY <1>2, <2>1, <2>2 DEF CiLabel
<1> QED
  BY <1>1, <1>2

LEMMA CiShown ==
  ASSUME Inv, HeardIsCalm
  PROVE  FailingCheckShows
<1> SUFFICES ASSUME NEW r \in Shown
             PROVE  LET ci == Of(rows[r], "ci")
                    IN  /\ CiFailedConfirmed(rows[r]) <=> CiLabel(ci) = "fail" /\ "ci" \in heard[r]
                        /\ CiLabel(ci) = "fail" /\ "ci" \notin heard[r] => Label(ci) = "stale"
  BY DEF FailingCheckShows
<1>1. CASE "ci" \notin Field
  <2>1. Of(rows[r], "ci") = Default
    BY <1>1 DEF Of
  <2>2. Nothing \notin Data
    BY MonitorAssumption DEF MonitorAssumption
  <2>3. CiLabel(Default) # "fail"
    <3>1. Default \in ObservationOf(Data)
      BY <2>2, ObservationTypes
    <3>2. Default.data = Nothing
      BY DEF Default
    <3> QED
      BY <3>1, <3>2, FailCell
  <2> QED
    BY <1>1, <2>1, <2>3 DEF CiFailedConfirmed
<1>2. CASE "ci" \in Field
  <2> DEFINE ci == rows[r].remote["ci"]
  <2>1. Of(rows[r], "ci") = ci
    BY <1>2 DEF Of
  <2>2. ci \in ObservationOf(Data)
    BY <1>2 DEF Inv, TypeOK, Row, RemoteState
  <2>3. ci.data # Nothing => ci.supported /\ (ci.error = NoError => "ci" \in heard[r])
    BY <1>2 DEF Inv, RowOK
  <2>4. "ci" \in heard[r] => ci.error = NoError
    BY <1>2 DEF HeardIsCalm
  <2>5. CiFailedConfirmed(rows[r]) <=>
          ci.supported /\ ci.error = NoError /\ ci.data # Nothing /\ ci.data.items \cap FailMarked # {}
    BY <1>2 DEF CiFailedConfirmed, Confirmed
  <2>6. CiLabel(ci) = "fail" <=>
          ci.supported /\ ci.data # Nothing /\ ci.data.items \cap FailMarked # {}
    BY <2>2, FailCell
  <2>7. ci.supported /\ ci.error # NoError /\ ci.data # Nothing => Label(ci) = "stale"
    BY DEF Label
  <2> HIDE DEF ci
  <2> QED
    BY <2>1, <2>3, <2>4, <2>5, <2>6, <2>7
<1> QED
  BY <1>1, <1>2

\* Some row with a property, and the header's count of them.
LEMMA CountsRows ==
  ASSUME IsFiniteSet(Shown), NEW S \in SUBSET Shown
  PROVE  Cardinality(S) \in Nat /\ (S # {} => Cardinality(S) > 0)
BY FS_Subset, FS_CardinalityType, FS_EmptySet

LEMMA KnownCounts ==
  ASSUME TypeOK, NEW r \in Shown, NEW f
  PROVE  /\ KnownCount(rows[r], f) \in Nat
         /\ f \in Field /\ Confirmed(rows[r].remote[f]) /\ rows[r].remote[f].data.items # {}
              => KnownCount(rows[r], f) > 0
<1>1. CASE f \in Field /\ Confirmed(rows[r].remote[f])
  <2>1. Of(rows[r], f) = rows[r].remote[f]
    BY <1>1 DEF Of
  <2>2. rows[r].remote[f].data \in Data
    BY <1>1 DEF Confirmed, TypeOK, Row, RemoteState, ObservationOf
  <2>3. rows[r].remote[f].data.items \in SUBSET Item
    BY <2>2 DEF Data
  <2>4. KnownCount(rows[r], f) = Cardinality(rows[r].remote[f].data.items)
    BY <1>1, <2>1 DEF KnownCount
  <2> QED
    BY <2>3, <2>4, FS_Subset, FS_CardinalityType, FS_EmptySet, DisplayAssumption
       DEF DisplayAssumption
<1>2. CASE ~(f \in Field /\ Confirmed(rows[r].remote[f]))
  <2>1. ~Confirmed(Of(rows[r], f))
    BY <1>2 DEF Of, Confirmed, Default
  <2> QED
    BY <1>2, <2>1 DEF KnownCount
<1> QED
  BY <1>1, <1>2

\* The header's totals are numbers, and none that a reason rests on is zero.
LEMMA TriageCounts ==
  ASSUME TypeOK
  PROVE  /\ Triage.dirty \in Nat /\ Triage.behind \in Nat /\ Triage.failures \in Nat
         /\ Triage.prs \in Nat /\ Triage.releases \in Nat
         /\ \A r \in Shown :
              /\ Dirty(rows[r]) => Triage.dirty > 0
              /\ Behind(rows[r]) => Triage.behind > 0
              /\ CiFailedConfirmed(rows[r]) => Triage.failures > 0
              /\ ReleasePending(rows[r]) => Triage.releases > 0
<1>1. IsFiniteSet(Shown)
  BY FS_Subset, DisplayAssumption DEF TypeOK, DisplayAssumption
<1>2. /\ Triage.dirty = Cardinality({r \in Shown : Dirty(rows[r])})
      /\ Triage.behind = Cardinality({r \in Shown : Behind(rows[r])})
      /\ Triage.failures = Cardinality({r \in Shown : CiFailedConfirmed(rows[r])})
      /\ Triage.prs = Total("prs")
      /\ Triage.releases = Total("proposals") + Total("drafts")
  BY DEF Triage, RowsWith
<1>3. ASSUME NEW f
      PROVE  Total(f) \in Nat /\ \A r \in Shown :
               KnownCount(rows[r], f) \in Nat /\ KnownCount(rows[r], f) <= Total(f)
  BY <1>1, KnownCounts, TotalCounts
<1>4. ASSUME NEW r \in Shown, ReleasePending(rows[r]) PROVE Triage.releases > 0
  <2>1. PICK f \in {"proposals", "drafts"} \cap Field :
          Confirmed(rows[r].remote[f]) /\ rows[r].remote[f].data.items # {}
    BY <1>4 DEF ReleasePending
  <2>2. KnownCount(rows[r], f) > 0
    BY <2>1, KnownCounts
  <2>3. Total(f) > 0
    BY <1>3, <2>2
  <2>4. Total("proposals") \in Nat /\ Total("drafts") \in Nat
    BY <1>3
  <2>5. Total("proposals") > 0 \/ Total("drafts") > 0
    BY <2>1, <2>3
  <2> QED
    BY <1>2, <2>4, <2>5
<1>5. ASSUME NEW r \in Shown
      PROVE  /\ Dirty(rows[r]) => Triage.dirty > 0
             /\ Behind(rows[r]) => Triage.behind > 0
             /\ CiFailedConfirmed(rows[r]) => Triage.failures > 0
  <2>1. ASSUME NEW S \in SUBSET Shown, r \in S PROVE Cardinality(S) > 0
    BY <1>1, <2>1, CountsRows
  <2>2. Dirty(rows[r]) => r \in {q \in Shown : Dirty(rows[q])}
    OBVIOUS
  <2>3. Behind(rows[r]) => r \in {q \in Shown : Behind(rows[q])}
    OBVIOUS
  <2>4. CiFailedConfirmed(rows[r]) => r \in {q \in Shown : CiFailedConfirmed(rows[q])}
    OBVIOUS
  <2> QED
    BY <1>2, <2>1, <2>2, <2>3, <2>4
<1>6. /\ Triage.dirty \in Nat /\ Triage.behind \in Nat /\ Triage.failures \in Nat
      /\ Triage.prs \in Nat /\ Triage.releases \in Nat
  <2>1. Total("prs") \in Nat /\ Total("proposals") \in Nat /\ Total("drafts") \in Nat
    BY <1>3
  <2>2. Triage.prs \in Nat /\ Triage.releases \in Nat
    BY <1>2, <2>1
  <2>3. \A S \in SUBSET Shown : Cardinality(S) \in Nat
    BY <1>1, CountsRows
  <2> QED
    BY <1>2, <2>2, <2>3
<1> QED
  BY <1>4, <1>5, <1>6

\* What a reason, other than unpushed commits, rests on.
LEMMA ReasonFacts ==
  ASSUME TypeOK, NEW r \in Shown
  PROVE  /\ Attention(rows[r]) = "CI failed" => CiFailedConfirmed(rows[r])
         /\ Attention(rows[r]) = "Release pending" => ReleasePending(rows[r])
         /\ Attention(rows[r]) \in {"Conflicts", "Local changes"} => Dirty(rows[r])
         /\ Attention(rows[r]) \in {"Diverged", "incoming"} => Behind(rows[r])
<1> DEFINE row == rows[r]
           s   == KnownLocal(row)
<1>1. row.local \in LocalObservation
  BY DEF TypeOK, Row
<1>2. s.conflicts \/ s.dirty => Dirty(row)
  <2>1. CASE Confirmed(row.local)
    <3>1. s = row.local.data /\ s \in LocalStates
      BY <1>1, <2>1 DEF KnownLocal, Confirmed, LocalObservation, ObservationOf
    <3>2. s.conflicts => s.dirty
      BY <3>1, DisplayAssumption DEF DisplayAssumption
    <3> QED
      BY <2>1, <3>1, <3>2 DEF Dirty, Confirmed
  <2>2. CASE ~Confirmed(row.local)
    BY <2>2 DEF KnownLocal, Nondescript
  <2> QED
    BY <2>1, <2>2
<1>3. s.upstream /\ s.behind => Behind(row)
  BY DEF KnownLocal, Nondescript, Behind, Confirmed
<1>4. Attention(row) =
        IF s.conflicts                             THEN "Conflicts"
        ELSE IF s.upstream /\ s.ahead /\ s.behind  THEN "Diverged"
        ELSE IF CiFailedConfirmed(row)             THEN "CI failed"
        ELSE IF s.upstream /\ s.ahead              THEN "unpushed"
        ELSE IF s.upstream /\ s.behind             THEN "incoming"
        ELSE IF ReleasePending(row)                THEN "Release pending"
        ELSE IF s.dirty                            THEN "Local changes"
        ELSE ""
  BY DEF Attention
<1> HIDE DEF s
<1> QED
  BY <1>2, <1>3, <1>4

LEMMA AdviceSound == ASSUME TypeOK PROVE AdviceFollowsAttention
<1> DEFINE reasons == {Attention(rows[r]) : r \in Shown} \ {"", "unpushed"}
           t       == Triage
<1>1. \A r \in Shown : Attention(rows[r]) \in Notable \cup {"", "Local changes"}
  BY AttentionGrounds
<1>2. /\ t.dirty \in Nat /\ t.behind \in Nat /\ t.failures \in Nat
      /\ t.prs \in Nat /\ t.releases \in Nat
  BY TriageCounts
<1>3. ASSUME "CI failed" \in reasons PROVE ActionMessage(t) = "inspect failing checks"
  <2>1. PICK r \in Shown : Attention(rows[r]) = "CI failed"
    BY <1>3
  <2>2. t.failures > 0
    BY <2>1, ReasonFacts, TriageCounts
  <2> QED
    BY <2>2 DEF ActionMessage
<1>4. ASSUME reasons # {} PROVE ActionMessage(t) # "all clear"
  <2>1. PICK r \in Shown : Attention(rows[r]) \notin {"", "unpushed"}
    BY <1>4
  <2>2. Attention(rows[r]) \in {"Conflicts", "Diverged", "CI failed", "incoming",
                                "Release pending", "Local changes"}
    BY <1>1, <2>1 DEF Notable, Problems, Pending
  <2>3. t.failures > 0 \/ t.dirty > 0 \/ t.behind > 0 \/ t.releases > 0
    BY <2>2, ReasonFacts, TriageCounts
  <2> HIDE DEF t
  <2> QED
    BY <1>2, <2>3 DEF ActionMessage
<1>5. ASSUME NEW r \in Shown,
             Attention(rows[r]) \in {"Conflicts", "Diverged", "incoming", "Local changes"}
      PROVE  HealthGlyph(rows[r]) \in {"!", "dirty", "behind"}
  <2>1. Dirty(rows[r]) \/ Behind(rows[r])
    BY <1>5, ReasonFacts
  <2> QED
    BY <2>1 DEF HealthGlyph, Dirty, Behind
<1> QED
  BY <1>3, <1>4, <1>5 DEF AdviceFollowsAttention

\* Header, glyph, CI cell and Attention column agree on every row, whatever the
\* polls of any number of rows found: a total that is shown is never zero while
\* a row asks for what it counts, and a failed check shows as what it is.
THEOREM OverviewsAgree == Spec => []OverviewAgrees
<1>1. Init => HeardIsCalm
  BY DEF Init, HeardIsCalm, Shown, Registered
<1>2. Inv /\ HeardIsCalm /\ [Next]_vars => HeardIsCalm'
  BY HeardStep
<1>3. Inv /\ HeardIsCalm => OverviewAgrees
  BY AdviceSound, CiShown DEF Inv, OverviewAgrees
<1> QED
  BY <1>1, <1>2, <1>3, MonitorInvariant, PTL DEF Spec
=============================================================================
