--------------------------- MODULE ProvidersProofs ---------------------------
(***************************************************************************)
(* Theorems about Providers, for any forges, however they change during a  *)
(* poll, any workflows and any failures; and about Paging, how one list of *)
(* such a poll is read, for any lists, page sizes and limits.              *)
(***************************************************************************)
EXTENDS Providers, Paging, SequenceTheorems, TLAPS

\* What an observation of a finished poll may be.
Shape(o) == o.error \in {NoError, Failed} /\ o.supported \in BOOLEAN

Silent(o) == Shape(o) /\ o.data = Nothing

\* Every answer shows the forge as it was at a moment of the poll.
Origin ==
  /\ IsOk("repo")     => \E s \in during : Data("repo") = s.default
  /\ IsOk("branches") => \E s \in during : Data("branches") = s.branches
  /\ IsOk("pulls")    => \E s \in during : Data("pulls") = s.pulls
  /\ IsOk("issues")   => \E s \in during :
       Data("issues") = IF kind = "github" THEN s.issues ELSE {i \in s.issues : ~i.pull}
  /\ IsOk("releases") => \E s \in during : Data("releases") = s.releases
  /\ IsOk("commit")   => \E s \in during : Data("commit") = s.head

\* Forgejo's statuses are those of the head, all of them if the answer is whole.
StatusesOfHead(data, status, s) ==
  /\ data \subseteq {c \in s.statuses : c.of = s.head}
  /\ status = "ok" => data = {c \in s.statuses : c.of = s.head}

\* Checks are asked for of the commit that was found.
OfCommit ==
  /\ kind = "github" =>
       /\ Answered("checks") => IsOk("commit")
       /\ Answered("statuses") => IsOk("commit")
       /\ IsOk("checks") => \E s \in during :
            Data("checks") = {c \in s.checks : c.of = Data("commit")}
       /\ IsOk("statuses") => \E s \in during :
            Data("statuses") = {c \in s.statuses : c.of = Data("commit")}
  /\ kind = "forgejo" /\ IsOk("statuses") => \E s \in during :
       StatusesOfHead(Data("statuses"), answer["statuses"].status, s)

RunsSeen == \A w \in Workflow : IsOk(w) => \E s \in during : Data(w) = s.runs[w]

\* Workflows are read in their order, up to the first that fails.
InOrder ==
  \E n \in 0 .. Len(Workflows) :
    /\ \A i \in 1 .. n : Answered(Workflows[i])
    /\ \A i \in n + 1 .. Len(Workflows) : ~Answered(Workflows[i])
    /\ \A i \in 1 .. n - 1 : IsOk(Workflows[i])

\* The poll's result is what its answers make, all of them, or it never asked.
FromAnswers ==
  result # NoPoll =>
    \/ result = Snapshot /\ \A q \in Query : Asks(q) => Answered(q)
    \/ /\ \/ kind = "gitlab" /\ result = GitlabFailed
          \/ kind = "bitbucket" /\ result = BitbucketFailed
       /\ \A q \in Query : ~Answered(q)

Kept ==
  /\ kind \in Kinds /\ forge \in Forges /\ during \subseteq Forges /\ forge \in during
  /\ DOMAIN answer = Query
  /\ \A q \in Query :
       /\ answer[q] \in {NoAnswer, Bad, Off} \/ answer[q].status \in {"ok", "part"}
       /\ Answered(q) /\ ~IsOk(q) =>
            answer[q] = Bad \/ (kind = "forgejo" /\ q \in Lists /\ answer[q] = Off)

PollInvariant == Kept /\ Origin /\ OfCommit /\ RunsSeen /\ InOrder /\ FromAnswers

-----------------------------------------------------------------------------
(* Observations. *)

LEMMA Shapes ==
  /\ \A d : Shape(Success(d)) /\ Success(d).data = d
  /\ Silent(Failure(Failed)) /\ Silent(Unsupported)
BY DEF Shape, Silent, Success, Failure, Unsupported

LEMMA Observed ==
  ASSUME NEW q, NEW d
  PROVE  /\ Shape(Observe(q, d)) /\ Shape(ObserveIfOn(q, d))
         /\ Observe(q, d).data # Nothing => IsOk(q) /\ Observe(q, d).data = d
         /\ ObserveIfOn(q, d).data # Nothing => IsOk(q) /\ ObserveIfOn(q, d).data = d
<1>1. Shape(Observe(q, d)) /\ (Observe(q, d).data # Nothing => IsOk(q) /\ Observe(q, d).data = d)
  BY Shapes DEF Observe, Silent
<1> QED
  BY <1>1, Shapes DEF ObserveIfOn, Silent

-----------------------------------------------------------------------------
(* The snapshots. *)

LEMMA GithubShape ==
  DOMAIN GithubSnapshot = Field /\ \A f \in Field : Shape(GithubSnapshot[f])
<1>1. Shape(DefaultBranch) /\ Shape(GithubCi) /\ Shape(Publication)
  BY Shapes DEF DefaultBranch, GithubCi, ChecksAndStatuses, Publication, Silent
<1> QED
  BY <1>1, Observed DEF GithubSnapshot, GithubReviews, GithubIssues, Field

LEMMA GitlabShape ==
  DOMAIN GitlabSnapshot = Field /\ \A f \in Field : Shape(GitlabSnapshot[f])
<1>1. Shape(DefaultBranch) /\ Shape(GitlabReviews) /\ Shape(Unsupported)
  BY Shapes DEF DefaultBranch, GitlabReviews, Silent
<1> QED
  BY <1>1, Observed DEF GitlabSnapshot, GitlabIssues, Field

LEMMA BitbucketShape ==
  DOMAIN BitbucketSnapshot = Field /\ \A f \in Field : Shape(BitbucketSnapshot[f])
<1>1. Shape(DefaultBranch) /\ Shape(BitbucketReviews) /\ Shape(Unsupported) /\ Shape(Success({}))
  BY Shapes DEF DefaultBranch, BitbucketReviews, Silent
<1> QED
  BY <1>1, Observed DEF BitbucketSnapshot, Field

LEMMA ForgejoShape ==
  DOMAIN ForgejoSnapshot = Field /\ \A f \in Field : Shape(ForgejoSnapshot[f])
<1>1. Shape(DefaultBranch) /\ Shape(ForgejoCi) /\ Shape(Unsupported)
  BY Shapes, Observed DEF DefaultBranch, ForgejoCi, Silent
<1> QED
  BY <1>1, Observed DEF ForgejoSnapshot, ForgejoIssues, Field

LEMMA OtherShape ==
  DOMAIN UnsupportedSnapshot = Field /\ \A f \in Field : Silent(UnsupportedSnapshot[f])
BY Shapes DEF UnsupportedSnapshot

LEMMA SnapshotShape ==
  DOMAIN Snapshot = Field /\ \A f \in Field : Shape(Snapshot[f])
BY GithubShape, GitlabShape, BitbucketShape, ForgejoShape, OtherShape DEF Snapshot, Silent
-----------------------------------------------------------------------------
(* Every field shows what the forge held. *)

\* What is not a check or a publication run, of a field whose query was made.
Queried(f) == f \in Field \ (Unasked \cup {"ci", "publication"})

Mine(items)     == {p \in items : p.mine}
Labelled(items) == {i \in items : OnlyLabelled => i.labelled}
Wanted(items)   == {i \in items : ~i.pull /\ (OnlyLabelled => i.labelled)}
Plain(items)    == {i \in items : ~i.pull}

LEMMA Meanings ==
  ASSUME NEW s
  PROVE  /\ Meaning("default_branch", s) = s.default
         /\ Meaning("branches", s) = s.branches
         /\ Meaning("prs", s) = s.pulls
         /\ Meaning("proposals", s) = Proposals(s.pulls)
         /\ Meaning("review_requests", s) = Mine(s.pulls)
         /\ Meaning("issues", s) = Wanted(s.issues)
         /\ Meaning("drafts", s) =
              IF kind \in {"gitlab", "bitbucket"} THEN Drafts(s.pulls) ELSE Drafts(s.releases)
         /\ Meaning("published", s) =
              IF kind = "gitlab" THEN s.releases ELSE Published(s.releases)
BY DEF Meaning, Proposals, ReleaseEvidence, Mine, Wanted, Drafts, Published

LEMMA IssueFilters ==
  /\ \A items : Labelled(Plain(items)) = Wanted(items)
  /\ GithubIssues = Observe("issues", Wanted(Data("issues")))
  /\ GitlabIssues = Observe("issues", Labelled(Data("issues")))
  /\ ForgejoIssues = ObserveIfOn("issues", Labelled(Data("issues")))
  /\ Origin /\ IsOk("issues") => \E s \in during :
       Data("issues") = IF kind = "github" THEN s.issues ELSE Plain(s.issues)
<1>1. \A items : Labelled(Plain(items)) = Wanted(items)
  BY DEF Labelled, Plain, Wanted
<1>2. GithubIssues = Observe("issues", Wanted(Data("issues")))
  BY Zenon DEF GithubIssues, Wanted, IsPullRequest, MatchesIssueLabels
<1>3. /\ GitlabIssues = Observe("issues", Labelled(Data("issues")))
      /\ ForgejoIssues = ObserveIfOn("issues", Labelled(Data("issues")))
  BY Zenon DEF GitlabIssues, ForgejoIssues, Labelled, MatchesIssueLabels
<1>4. Origin /\ IsOk("issues") => \E s \in during :
        Data("issues") = IF kind = "github" THEN s.issues ELSE Plain(s.issues)
  BY DEF Origin, Plain
<1> QED
  BY <1>1, <1>2, <1>3, <1>4

LEMMA ReviewFilters ==
  ASSUME Login # ""
  PROVE  /\ GithubReviews = Observe("pulls", Mine(Data("pulls")))
         /\ GitlabReviews.data # Nothing =>
              IsOk("pulls") /\ GitlabReviews.data = Mine(Data("pulls"))
         /\ BitbucketReviews.data # Nothing =>
              IsOk("pulls") /\ BitbucketReviews.data = Mine(Data("pulls"))
<1>1. \A items : {p \in items : RequestedReviewer(p, Login)} = Mine(items)
  BY DEF RequestedReviewer, Mine
<1>2. GitlabReviews.data # Nothing => IsOk("pulls") /\ GitlabReviews.data = Mine(Data("pulls"))
  BY <1>1, Shapes DEF GitlabReviews, Silent
<1>3. BitbucketReviews.data # Nothing =>
        IsOk("pulls") /\ BitbucketReviews.data = Mine(Data("pulls"))
  BY <1>1, Shapes DEF BitbucketReviews, Silent
<1> QED
  BY <1>1, <1>2, <1>3 DEF GithubReviews

LEMMA DefaultHonest ==
  ASSUME Origin, DefaultBranch.data # Nothing
  PROVE  \E s \in during : DefaultBranch.data = s.default
<1>1. IsOk("repo") /\ DefaultBranch.data = Data("repo")
  BY Shapes DEF DefaultBranch, Silent
<1> QED
  BY <1>1 DEF Origin

LEMMA GithubHonest ==
  ASSUME Origin, kind = "github", NEW f \in Field, Queried(f), GithubSnapshot[f].data # Nothing
  PROVE  \E s \in during : GithubSnapshot[f].data = Meaning(f, s)
<1>1. CASE f = "default_branch"
  BY <1>1, DefaultHonest, Meanings DEF GithubSnapshot
<1>2. CASE f = "branches"
  BY <1>2, Observed, Meanings DEF GithubSnapshot, Origin
<1>3. CASE f = "prs"
  BY <1>3, Observed, Meanings DEF GithubSnapshot, Origin
<1>4. CASE f = "proposals"
  BY <1>4, Observed, Meanings DEF GithubSnapshot, Origin
<1>5. CASE f = "review_requests"
  <2>1. GithubSnapshot[f] = Observe("pulls", Mine(Data("pulls")))
    BY <1>5, ReviewFilters DEF GithubSnapshot, Queried, Unasked
  <2> QED
    BY <1>5, <2>1, Observed, Meanings DEF Origin
<1>6. CASE f = "issues"
  BY <1>6, Observed, Meanings, IssueFilters DEF GithubSnapshot
<1>7. CASE f = "drafts"
  BY <1>7, Observed, Meanings DEF GithubSnapshot, Origin
<1>8. CASE f = "published"
  BY <1>8, Observed, Meanings DEF GithubSnapshot, Origin
<1> QED
  BY <1>1, <1>2, <1>3, <1>4, <1>5, <1>6, <1>7, <1>8 DEF Field, Queried

LEMMA GitlabHonest ==
  ASSUME Origin, kind = "gitlab", NEW f \in Field, Queried(f), GitlabSnapshot[f].data # Nothing
  PROVE  \E s \in during : GitlabSnapshot[f].data = Meaning(f, s)
<1>1. CASE f = "default_branch"
  BY <1>1, DefaultHonest, Meanings DEF GitlabSnapshot
<1>2. CASE f = "branches"
  BY <1>2, Observed, Meanings DEF GitlabSnapshot, Origin
<1>3. CASE f = "prs"
  BY <1>3, Observed, Meanings DEF GitlabSnapshot, Origin
<1>4. CASE f = "proposals"
  BY <1>4, Observed, Meanings DEF GitlabSnapshot, Origin
<1>5. CASE f = "review_requests"
  BY <1>5, Meanings, ReviewFilters DEF GitlabSnapshot, Origin, Queried, Unasked
<1>6. CASE f = "issues"
  BY <1>6, Observed, Meanings, IssueFilters DEF GitlabSnapshot
<1>7. CASE f = "drafts"
  BY <1>7, Observed, Meanings DEF GitlabSnapshot, Origin
<1>8. CASE f = "published"
  BY <1>8, Observed, Meanings DEF GitlabSnapshot, Origin
<1> QED
  BY <1>1, <1>2, <1>3, <1>4, <1>5, <1>6, <1>7, <1>8 DEF Field, Queried

LEMMA BitbucketHonest ==
  ASSUME Origin, kind = "bitbucket", NEW f \in Field, Queried(f), BitbucketSnapshot[f].data # Nothing
  PROVE  \E s \in during : BitbucketSnapshot[f].data = Meaning(f, s)
<1>1. CASE f = "default_branch"
  BY <1>1, DefaultHonest, Meanings DEF BitbucketSnapshot
<1>2. CASE f = "branches"
  BY <1>2, Observed, Meanings DEF BitbucketSnapshot, Origin
<1>3. CASE f = "prs"
  BY <1>3, Observed, Meanings DEF BitbucketSnapshot, Origin
<1>4. CASE f = "review_requests"
  BY <1>4, Meanings, ReviewFilters DEF BitbucketSnapshot, Origin, Queried, Unasked
<1>5. CASE f \in {"issues", "published"}
  BY <1>5, Shapes DEF BitbucketSnapshot, Silent
<1>6. CASE f = "drafts"
  BY <1>6, Observed, Meanings DEF BitbucketSnapshot, Origin
<1> QED
  BY <1>1, <1>2, <1>3, <1>4, <1>5, <1>6 DEF Field, Queried, Unasked

LEMMA ForgejoHonest ==
  ASSUME Origin, kind = "forgejo", NEW f \in Field, Queried(f), ForgejoSnapshot[f].data # Nothing
  PROVE  \E s \in during : ForgejoSnapshot[f].data = Meaning(f, s)
<1>1. CASE f = "default_branch"
  BY <1>1, DefaultHonest, Meanings DEF ForgejoSnapshot
<1>2. CASE f = "branches"
  BY <1>2, Observed, Meanings DEF ForgejoSnapshot, Origin
<1>3. CASE f = "prs"
  BY <1>3, Observed, Meanings DEF ForgejoSnapshot, Origin
<1>4. CASE f = "proposals"
  BY <1>4, Observed, Meanings DEF ForgejoSnapshot, Origin
<1>5. CASE f = "review_requests"
  BY <1>5, Shapes DEF ForgejoSnapshot, Silent
<1>6. CASE f = "issues"
  BY <1>6, Observed, Meanings, IssueFilters DEF ForgejoSnapshot
<1>7. CASE f = "drafts"
  BY <1>7, Observed, Meanings DEF ForgejoSnapshot, Origin
<1>8. CASE f = "published"
  BY <1>8, Observed, Meanings DEF ForgejoSnapshot, Origin
<1> QED
  BY <1>1, <1>2, <1>3, <1>4, <1>5, <1>6, <1>7, <1>8 DEF Field, Queried

LEMMA SnapshotHonest ==
  ASSUME Origin, result = Snapshot, result # NoPoll PROVE HonestSnapshot
<1> SUFFICES ASSUME NEW f \in Shown \ (Unasked \cup {"ci", "publication"})
             PROVE  \E s \in during : Snapshot[f].data = Meaning(f, s)
  BY DEF HonestSnapshot
<1>1. f \in Field /\ Queried(f) /\ Snapshot[f].data # Nothing
  BY DEF Shown, Queried
<1>2. CASE kind = "github"
  BY <1>1, <1>2, GithubHonest DEF Snapshot
<1>3. CASE kind = "gitlab"
  BY <1>1, <1>3, GitlabHonest DEF Snapshot
<1>4. CASE kind = "bitbucket"
  BY <1>1, <1>4, BitbucketHonest DEF Snapshot
<1>5. CASE kind = "forgejo"
  BY <1>1, <1>5, ForgejoHonest DEF Snapshot
<1>6. CASE kind \notin {"github", "gitlab", "bitbucket", "forgejo"}
  BY <1>1, <1>6, OtherShape DEF Snapshot, Silent
<1> QED
  BY <1>2, <1>3, <1>4, <1>5, <1>6

-----------------------------------------------------------------------------
(* Checks and publications. *)

LEMMA GithubCiHonest ==
  ASSUME Origin, OfCommit, kind = "github", GithubSnapshot["ci"].data # Nothing
  PROVE  \E s \in during :
           /\ \A c \in GithubSnapshot["ci"].data : c.of = s.head
           /\ \A c \in CheckRun :
                c.of = s.head /\ (\/ \A t \in during : c \in t.statuses
                                 \/ \A t \in during : c \in t.checks)
                => c \in GithubSnapshot["ci"].data
<1>1. GithubSnapshot["ci"] = GithubCi
  BY DEF GithubSnapshot
<1>2. /\ IsOk("commit") /\ IsOk("checks") /\ IsOk("statuses")
      /\ GithubCi.data = Data("checks") \cup Data("statuses")
  BY <1>1, Shapes DEF GithubCi, ChecksAndStatuses, Silent
<1>3. PICK s \in during : Data("commit") = s.head
  BY <1>2 DEF Origin
<1>4. PICK t \in during : Data("checks") = {c \in t.checks : c.of = Data("commit")}
  BY <1>2 DEF OfCommit
<1>5. PICK u \in during : Data("statuses") = {c \in u.statuses : c.of = Data("commit")}
  BY <1>2 DEF OfCommit
<1> QED
  BY <1>1, <1>2, <1>3, <1>4, <1>5

LEMMA ForgejoCiHonest ==
  ASSUME OfCommit, kind = "forgejo", ForgejoSnapshot["ci"].data # Nothing
  PROVE  \E s \in during :
           StatusesOfHead(ForgejoSnapshot["ci"].data, answer["statuses"].status, s)
<1>1. ForgejoSnapshot["ci"] = ForgejoCi
  BY DEF ForgejoSnapshot
<1>2. IsOk("statuses") /\ ForgejoCi.data = Data("statuses")
  BY <1>1, Shapes, Observed DEF ForgejoCi, Silent
<1> QED
  BY <1>1, <1>2 DEF OfCommit

LEMMA SnapshotChecks ==
  ASSUME Origin, OfCommit, result = Snapshot PROVE ChecksOfOneCommit
<1>1. CASE kind = "github" /\ "ci" \in Shown
  <2>1. Snapshot = GithubSnapshot
    BY <1>1 DEF Snapshot
  <2> QED
    BY <1>1, <2>1, GithubCiHonest DEF ChecksOfOneCommit, Shown
<1>2. CASE kind = "forgejo" /\ "ci" \in Shown
  <2>1. Snapshot = ForgejoSnapshot
    BY <1>2 DEF Snapshot
  <2> QED
    BY <1>2, <2>1, ForgejoCiHonest DEF ChecksOfOneCommit, Shown, StatusesOfHead
<1> QED
  BY <1>1, <1>2 DEF ChecksOfOneCommit

LEMMA RunningIsRetained ==
  ASSUME NEW runs, NEW i \in DOMAIN runs, runs[i].completed = FALSE
  PROVE  runs[i] \in Retained(runs)
BY DEF Retained

LEMMA SnapshotRuns ==
  ASSUME RunsSeen, result = Snapshot PROVE RunningIsShown
<1> SUFFICES ASSUME "publication" \in Shown, NEW w \in Workflow,
                    NEW r \in [name : Names, completed : {FALSE}],
                    \A s \in during : \E i \in DOMAIN s.runs[w] : s.runs[w][i] = r
             PROVE  <<w, r>> \in result["publication"].data
  BY DEF RunningIsShown
<1>1. Snapshot["publication"].data # Nothing
  BY DEF Shown
<1>2. Snapshot["publication"] = Publication
  BY <1>1, Shapes DEF Snapshot, GithubSnapshot, GitlabSnapshot, BitbucketSnapshot,
     ForgejoSnapshot, UnsupportedSnapshot, Silent, Field
<1>3. /\ \A v \in Workflow : IsOk(v)
      /\ Publication.data = UNION {{<<v, q>> : q \in Retained(Data(v))} : v \in Workflow}
  BY <1>1, <1>2, Shapes DEF Publication, Silent
<1>4. PICK s \in during : Data(w) = s.runs[w]
  BY <1>3 DEF RunsSeen
<1>5. PICK i \in DOMAIN s.runs[w] : s.runs[w][i] = r
  OBVIOUS
<1>6. r \in Retained(Data(w))
  BY <1>4, <1>5, RunningIsRetained
<1> QED
  BY <1>2, <1>3, <1>6
-----------------------------------------------------------------------------
(* An answer arrives. *)

LEMMA Finds ==
  /\ Found("repo") = forge.default /\ Found("branches") = forge.branches
  /\ Found("pulls") = forge.pulls /\ Found("releases") = forge.releases
  /\ Found("commit") = forge.head
  /\ Found("issues") = IF kind = "github" THEN forge.issues ELSE {i \in forge.issues : ~i.pull}
  /\ Found("checks") = {c \in forge.checks : c.of = Data("commit")}
  /\ Found("statuses") =
       {c \in forge.statuses : c.of = IF kind = "github" THEN Data("commit") ELSE forge.head}
  /\ \A w \in Workflow : Found(w) = forge.runs[w]
<1>0. NamedQuery \cap Workflow = {}
  BY ProvidersAssumption DEF ProvidersAssumption
<1>1. \A w \in Workflow : Found(w) = forge.runs[w]
  BY <1>0 DEF Found, NamedQuery, Lists
<1>2. /\ Found("repo") = forge.default /\ Found("branches") = forge.branches
      /\ Found("pulls") = forge.pulls /\ Found("releases") = forge.releases
      /\ Found("commit") = forge.head
  BY <1>0 DEF Found, NamedQuery, Lists
<1>3. Found("issues") = IF kind = "github" THEN forge.issues ELSE {i \in forge.issues : ~i.pull}
  BY <1>0 DEF Found, IsPullRequest, NamedQuery, Lists
<1>4. /\ Found("checks") = {c \in forge.checks : c.of = Data("commit")}
      /\ Found("statuses") =
           {c \in forge.statuses : c.of = IF kind = "github" THEN Data("commit") ELSE forge.head}
  BY <1>0 DEF Found, ChecksFound, NamedQuery, Lists
<1> QED
  BY <1>1, <1>2, <1>3, <1>4

\* GitHub is asked for checks only of a commit it has named.
LEMMA ChecksNeedCommit ==
  ASSUME OfCommit, kind = "github", NEW q \in {"checks", "statuses"}, Asks(q)
  PROVE  IsOk("commit")
<1>1. GithubAsks(q)
  BY DEF Asks
<1>0. \A i \in DOMAIN Workflows : Workflows[i] # q
  BY ProvidersAssumption DEF ProvidersAssumption, Workflow, NamedQuery
<1>2. CASE q = "checks"
  BY <1>0, <1>1, <1>2 DEF GithubAsks, Lists
<1>3. CASE q = "statuses"
  BY <1>0, <1>1, <1>3 DEF GithubAsks, Lists, OfCommit
<1> QED
  BY <1>2, <1>3

\* A workflow waits for those before it.
LEMMA WorkflowsWait ==
  ASSUME NEW k \in DOMAIN Workflows, Asks(Workflows[k])
  PROVE  \A j \in 1 .. k - 1 : IsOk(Workflows[j])
<1>1. /\ Workflows[k] \notin NamedQuery
      /\ \A i \in DOMAIN Workflows : Workflows[i] = Workflows[k] => i = k
  BY ProvidersAssumption DEF ProvidersAssumption, Workflow
<1>2. kind = "github" /\ GithubAsks(Workflows[k])
  BY <1>1 DEF Asks, GitlabAsks, BitbucketAsks, ForgejoAsks, NamedQuery, Lists
<1> QED
  BY <1>1, <1>2 DEF GithubAsks, NamedQuery, Lists

LEMMA Arrives ==
  ASSUME PollInvariant, NEW q \in Query, UnderWay(q),
         DOMAIN answer' = Query, \A p \in Query : p # q => answer'[p] = answer[p],
         \/ answer'[q] = Bad
         \/ kind = "forgejo" /\ q \in Lists /\ answer'[q] = Off
         \/ answer'[q].status = "ok" /\ answer'[q].data = Found(q)
         \/ answer'[q].status = "part" /\ answer'[q].data \in Incomplete(q),
         UNCHANGED <<kind, forge, result, during>>
  PROVE  PollInvariant'
<1>0. /\ Kept /\ Origin /\ OfCommit /\ RunsSeen /\ InOrder /\ FromAnswers
      /\ result = NoPoll /\ Asks(q) /\ ~Answered(q)
  BY DEF PollInvariant, UnderWay
<1>2. /\ \A p \in Query : p # q => (Answered(p)' <=> Answered(p)) /\ (IsOk(p)' <=> IsOk(p))
                                 /\ Data(p)' = Data(p)
      /\ IsOk(q)' => \/ Data(q)' = Found(q)
                     \/ Data(q)' \in Incomplete(q) /\ answer'[q].status = "part"
  <2>1. \A p \in Query : p # q => (Answered(p)' <=> Answered(p)) /\ (IsOk(p)' <=> IsOk(p))
                                 /\ Data(p)' = Data(p)
    BY DEF Answered, IsOk, Data
  <2>2. IsOk(q)' => \/ Data(q)' = Found(q)
                    \/ Data(q)' \in Incomplete(q) /\ answer'[q].status = "part"
    BY DEF IsOk, Data, Bad, Off
  <2> QED
    BY <2>1, <2>2
<1>3. forge \in during
  BY <1>0 DEF Kept
<1>4. Kept'
  <2>1. \A p \in Query : \/ answer'[p] \in {NoAnswer, Bad, Off}
                         \/ answer'[p].status \in {"ok", "part"}
    BY <1>0 DEF Kept
  <2>2. \A p \in Query : Answered(p)' /\ ~IsOk(p)' =>
          answer'[p] = Bad \/ (kind = "forgejo" /\ p \in Lists /\ answer'[p] = Off)
    BY <1>0, <1>2 DEF Kept, IsOk
  <2> QED
    BY <1>0, <2>1, <2>2 DEF Kept
<1>w. /\ q # "user" /\ (q = "statuses" => kind # "forgejo") /\ IsOk(q)' => Data(q)' = Found(q)
      /\ "user" \notin Workflow /\ "statuses" \notin Workflow
  BY <1>2, ProvidersAssumption DEF ProvidersAssumption, Incomplete, NamedQuery
<1>5. Origin'
  BY <1>0, <1>2, <1>3, <1>w, Finds DEF Origin, Query, NamedQuery, Lists
<1>6. OfCommit'
  <2>1. CASE kind = "github"
    <3>1. "commit" \in Query /\ "checks" \in Query /\ "statuses" \in Query
      BY DEF Query, NamedQuery
    <3>2. IsOk("commit") => q # "commit" /\ IsOk("commit")' /\ Data("commit")' = Data("commit")
      BY <1>0, <1>2, <3>1 DEF IsOk
    <3>3. q \in {"checks", "statuses"} => IsOk("commit")
      BY <1>0, <2>1, ChecksNeedCommit
    <3>4. Answered("checks")' => IsOk("commit")'
      BY <1>0, <1>2, <2>1, <3>1, <3>2, <3>3 DEF OfCommit
    <3>5. Answered("statuses")' => IsOk("commit")'
      BY <1>0, <1>2, <2>1, <3>1, <3>2, <3>3 DEF OfCommit
    <3>6. ASSUME IsOk("checks")'
          PROVE  \E s \in during : Data("checks")' = {c \in s.checks : c.of = Data("commit")}
      <4>1. CASE q = "checks"
        BY <1>w, <1>3, <3>6, <4>1, Finds
      <4>2. CASE q # "checks"
        BY <1>0, <1>2, <2>1, <3>1, <3>6, <4>2 DEF OfCommit
      <4> QED
        BY <4>1, <4>2
    <3>7. ASSUME IsOk("statuses")'
          PROVE  \E s \in during : Data("statuses")' = {c \in s.statuses : c.of = Data("commit")}
      <4>1. CASE q = "statuses"
        <5>1. Found("statuses") = {c \in forge.statuses : c.of = Data("commit")}
          BY <2>1, Finds
        <5> QED
          BY <1>w, <1>3, <2>1, <3>7, <4>1, <5>1
      <4>2. CASE q # "statuses"
        BY <1>0, <1>2, <2>1, <3>1, <3>7, <4>2 DEF OfCommit
      <4> QED
        BY <4>1, <4>2
    <3>8. (IsOk("checks") \/ IsOk("statuses"))' => Data("commit")' = Data("commit")
      BY <1>0, <1>2, <2>1, <3>1, <3>2, <3>3 DEF OfCommit, IsOk
    <3> QED
      BY <2>1, <3>4, <3>5, <3>6, <3>7, <3>8 DEF OfCommit
  <2>2. CASE kind = "forgejo"
    <3>1. "statuses" \in Query
      BY DEF Query, NamedQuery
    <3>2. Found("statuses") = {c \in forge.statuses : c.of = forge.head}
      BY <2>2, Finds
    <3>3. ASSUME IsOk("statuses")'
          PROVE  \E s \in during : StatusesOfHead(Data("statuses")', answer'["statuses"].status, s)
      <4>1. CASE q = "statuses"
        <5>1. Data(q)' = Found(q) \/ (Data(q)' \subseteq Found(q) /\ answer'[q].status = "part")
          BY <1>2, <2>2, <3>3, <4>1 DEF Incomplete
        <5> QED
          BY <1>3, <3>2, <4>1, <5>1 DEF StatusesOfHead
      <4>2. CASE q # "statuses"
        <5>1. answer'["statuses"] = answer["statuses"]
          BY <3>1, <4>2
        <5> QED
          BY <1>0, <1>2, <2>2, <3>1, <3>3, <4>2, <5>1 DEF OfCommit
      <4> QED
        BY <4>1, <4>2
    <3> QED
      BY <2>2, <3>3 DEF OfCommit
  <2> QED
    BY <2>1, <2>2 DEF OfCommit
<1>7. RunsSeen'
  BY <1>0, <1>2, <1>3, <1>w, Finds DEF RunsSeen, Query
<1>8. FromAnswers'
  BY <1>0 DEF FromAnswers
<1>9. InOrder'
  <2>0. /\ Len(Workflows) \in Nat /\ DOMAIN Workflows = 1 .. Len(Workflows)
        /\ \A i \in DOMAIN Workflows : Workflows[i] \in Query
        /\ \A i, j \in DOMAIN Workflows : Workflows[i] = Workflows[j] => i = j
    BY ProvidersAssumption DEF ProvidersAssumption, Query, Workflow
  <2>1. PICK n \in 0 .. Len(Workflows) :
          /\ \A i \in 1 .. n : Answered(Workflows[i])
          /\ \A i \in n + 1 .. Len(Workflows) : ~Answered(Workflows[i])
          /\ \A i \in 1 .. n - 1 : IsOk(Workflows[i])
    BY <1>0 DEF InOrder
  <2>2. CASE ~Answered(q)' \/ \A i \in DOMAIN Workflows : Workflows[i] # q
    <3>1. \A i \in DOMAIN Workflows :
            /\ Answered(Workflows[i])' <=> Answered(Workflows[i])
            /\ IsOk(Workflows[i])' <=> IsOk(Workflows[i])
      BY <1>0, <1>2, <2>0, <2>2 DEF IsOk
    <3>2. /\ \A i \in 1 .. n : Answered(Workflows[i])'
          /\ \A i \in n + 1 .. Len(Workflows) : ~Answered(Workflows[i])'
          /\ \A i \in 1 .. n - 1 : IsOk(Workflows[i])'
      <4>1. \A i \in 1 .. Len(Workflows) : i \in DOMAIN Workflows
        BY <2>0
      <4>2. /\ 1 .. n \subseteq 1 .. Len(Workflows) /\ 1 .. n - 1 \subseteq 1 .. Len(Workflows)
            /\ n + 1 .. Len(Workflows) \subseteq 1 .. Len(Workflows)
        BY <2>0
      <4> QED
        BY <2>1, <3>1, <4>1, <4>2
    <3> QED
      BY <3>2 DEF InOrder
  <2>3. CASE Answered(q)' /\ \E i \in DOMAIN Workflows : Workflows[i] = q
    <3>1. PICK k \in DOMAIN Workflows : Workflows[k] = q
      BY <2>3
    <3>2. \A j \in 1 .. k - 1 : IsOk(Workflows[j])
      BY <1>0, <2>0, <3>1, WorkflowsWait
    <3>3. k = n + 1
      <4>1. ~(k \in 1 .. n)
        BY <1>0, <2>1, <3>1
      <4>2. ~(n + 1 \in 1 .. k - 1)
        BY <2>0, <2>1, <3>1, <3>2 DEF IsOk
      <4> QED
        BY <2>0, <4>1, <4>2
    <3>4. \A i \in DOMAIN Workflows : i # k =>
            /\ Answered(Workflows[i])' <=> Answered(Workflows[i])
            /\ IsOk(Workflows[i])' <=> IsOk(Workflows[i])
      BY <1>2, <2>0, <3>1
    <3>5. Answered(Workflows[k])'
      BY <2>3, <3>1
    <3>6. /\ \A i \in 1 .. k : Answered(Workflows[i])'
          /\ \A i \in k + 1 .. Len(Workflows) : ~Answered(Workflows[i])'
          /\ \A i \in 1 .. k - 1 : IsOk(Workflows[i])'
      BY <2>0, <2>1, <3>2, <3>3, <3>4, <3>5
    <3> QED
      BY <2>0, <3>6 DEF InOrder
  <2> QED
    BY <2>2, <2>3
<1> QED
  BY <1>4, <1>5, <1>6, <1>7, <1>8, <1>9 DEF PollInvariant

-----------------------------------------------------------------------------
(* The other steps. *)

LEMMA Grows ==
  ASSUME Origin, OfCommit, RunsSeen, InOrder, UNCHANGED <<kind, answer>>,
         during \subseteq during'
  PROVE  Origin' /\ OfCommit' /\ RunsSeen' /\ InOrder'
<1>1. \A q : (Answered(q)' <=> Answered(q)) /\ (IsOk(q)' <=> IsOk(q)) /\ Data(q)' = Data(q)
  BY DEF Answered, IsOk, Data
<1>2. Origin'
  BY <1>1 DEF Origin
<1>3. OfCommit'
  BY <1>1 DEF OfCommit
<1>4. RunsSeen'
  BY <1>1 DEF RunsSeen
<1>5. InOrder'
  BY <1>1 DEF InOrder
<1> QED
  BY <1>2, <1>3, <1>4, <1>5

LEMMA SnapshotKept ==
  ASSUME UNCHANGED <<kind, answer>> PROVE Snapshot' = Snapshot
BY DEF Snapshot, GithubSnapshot, GitlabSnapshot, BitbucketSnapshot, ForgejoSnapshot,
       UnsupportedSnapshot, DefaultBranch, GithubReviews, GithubIssues, GithubCi,
       ChecksAndStatuses, Publication, GitlabReviews, GitlabIssues, BitbucketReviews,
       ForgejoIssues, ForgejoCi, Observe, ObserveIfOn, Login, IsOk, Answered, Data

LEMMA AsksKept ==
  ASSUME UNCHANGED <<kind, answer>>, NEW q PROVE Asks(q)' <=> Asks(q)
<1>1. \A p : (Answered(p)' <=> Answered(p)) /\ (IsOk(p)' <=> IsOk(p)) /\ Data(p)' = Data(p)
  BY DEF Answered, IsOk, Data
<1>2. DefaultBranch' = DefaultBranch
  BY <1>1 DEF DefaultBranch
<1>3. (ListsAsked' <=> ListsAsked) /\ (GithubAsks(q)' <=> GithubAsks(q))
  BY <1>1, <1>2 DEF ListsAsked, GithubAsks
<1>4. ForgejoAsks(q)' <=> ForgejoAsks(q)
  BY <1>1, <1>2 DEF ForgejoAsks
<1>5. (GitlabAsks(q)' <=> GitlabAsks(q)) /\ (BitbucketAsks(q)' <=> BitbucketAsks(q))
  BY DEF GitlabAsks, BitbucketAsks
<1> QED
  BY <1>3, <1>4, <1>5 DEF Asks

LEMMA PollStep == ASSUME PollInvariant, [Next]_vars PROVE PollInvariant'
<1>0. Kept /\ Origin /\ OfCommit /\ RunsSeen /\ InOrder /\ FromAnswers
  BY DEF PollInvariant
<1>1. ASSUME NEW q \in Query, Answer(q) PROVE PollInvariant'
  <2>1. UnderWay(q) /\ UNCHANGED <<kind, forge, result, during>>
    BY <1>1 DEF Answer
  <2>2. /\ DOMAIN answer' = Query /\ \A p \in Query : p # q => answer'[p] = answer[p]
        /\ answer'[q] = Ok(Found(q))
    BY <1>0, <1>1 DEF Answer, Kept
  <2> QED
    BY <1>1, <2>1, <2>2, Arrives DEF Ok
<1>2. ASSUME NEW q \in Query, QueryFails(q) PROVE PollInvariant'
  <2>1. UnderWay(q) /\ UNCHANGED <<kind, forge, result, during>>
    BY <1>2 DEF QueryFails
  <2>2. /\ DOMAIN answer' = Query /\ \A p \in Query : p # q => answer'[p] = answer[p]
        /\ answer'[q] = Bad
    BY <1>0, <1>2 DEF QueryFails, Kept
  <2> QED
    BY <1>2, <2>1, <2>2, Arrives
<1>3. ASSUME NEW q \in Query, FeatureIsOff(q) PROVE PollInvariant'
  <2>1. UnderWay(q) /\ kind = "forgejo" /\ q \in Lists /\ UNCHANGED <<kind, forge, result, during>>
    BY <1>3 DEF FeatureIsOff
  <2>2. /\ DOMAIN answer' = Query /\ \A p \in Query : p # q => answer'[p] = answer[p]
        /\ answer'[q] = Off
    BY <1>0, <1>3 DEF FeatureIsOff, Kept
  <2> QED
    BY <1>3, <2>1, <2>2, Arrives
<1>p. ASSUME NEW q \in Query, AnswerIsPartial(q) PROVE PollInvariant'
  <2>1. UnderWay(q) /\ UNCHANGED <<kind, forge, result, during>>
    BY <1>p DEF AnswerIsPartial
  <2>2. PICK d \in Incomplete(q) : answer' = [answer EXCEPT ![q] = Partial(d)]
    BY <1>p DEF AnswerIsPartial
  <2>3. /\ DOMAIN answer' = Query /\ \A p \in Query : p # q => answer'[p] = answer[p]
        /\ answer'[q] = Partial(d)
    BY <1>0, <2>2 DEF Kept
  <2> QED
    BY <1>p, <2>1, <2>3, Arrives DEF Partial
<1>4. CASE NoClient
  <2>3. FromAnswers'
    BY <1>4 DEF NoClient, FromAnswers, Answered, GitlabFailed, BitbucketFailed
  <2>4. Kept'
    BY <1>0, <1>4 DEF NoClient, Kept, Answered, IsOk
  <2> QED
    BY <1>0, <1>4, <2>3, <2>4, Grows DEF NoClient, PollInvariant
<1>5. CASE Finish
  <2>1. FromAnswers'
    BY <1>5, SnapshotKept, AsksKept DEF Finish, FromAnswers, UnderWay, Answered
  <2>2. Kept'
    BY <1>0, <1>5 DEF Finish, Kept, Answered, IsOk
  <2> QED
    BY <1>0, <1>5, <2>1, <2>2, Grows DEF Finish, PollInvariant
<1>6. CASE ForgeChanges
  <2>1. FromAnswers'
    BY <1>6 DEF ForgeChanges, FromAnswers
  <2>2. Kept'
    BY <1>0, <1>6 DEF ForgeChanges, Kept, Answered, IsOk
  <2> QED
    BY <1>0, <1>6, <2>1, <2>2, Grows DEF ForgeChanges, PollInvariant
<1>7. CASE UNCHANGED vars
  <2>1. UNCHANGED <<kind, forge, answer, result, during>>
    BY <1>7 DEF vars
  <2>2. FromAnswers'
    BY <1>0, <2>1, SnapshotKept, AsksKept DEF FromAnswers, Answered, GitlabFailed, BitbucketFailed
  <2>3. Kept'
    BY <1>0, <2>1 DEF Kept, Answered, IsOk
  <2> QED
    BY <1>0, <2>1, <2>2, <2>3, Grows DEF PollInvariant
<1> QED
  BY <1>1, <1>2, <1>3, <1>p, <1>4, <1>5, <1>6, <1>7 DEF Next

\* In every state of a poll the answers that have come are of moments of that
\* poll and of one commit, and the result is made of them and nothing else.
THEOREM PollIsSound == Spec => []PollInvariant
<1>1. Init => PollInvariant
  <2> SUFFICES ASSUME Init PROVE PollInvariant
    OBVIOUS
  <2>1. \A q \in Query : ~Answered(q) /\ ~IsOk(q)
    BY DEF Init, Answered, IsOk
  <2>2. Kept
    BY <2>1 DEF Init, Kept
  <2>3. Origin
    BY <2>1 DEF Origin, Query, NamedQuery, Lists
  <2>4. OfCommit
    BY <2>1 DEF OfCommit, Query, NamedQuery
  <2>5. RunsSeen
    BY <2>1 DEF RunsSeen, Query
  <2>6. FromAnswers
    BY DEF Init, FromAnswers
  <2>7. InOrder
    <3>1. \A i \in 1 .. Len(Workflows) : Workflows[i] \in Query
      BY ProvidersAssumption DEF ProvidersAssumption, Query, Workflow
    <3>2. 0 \in 0 .. Len(Workflows)
      BY ProvidersAssumption DEF ProvidersAssumption
    <3> QED
      BY <2>1, <3>1, <3>2 DEF InOrder
  <2> QED
    BY <2>2, <2>3, <2>4, <2>5, <2>6, <2>7 DEF PollInvariant
<1> QED
  BY <1>1, PollStep, PTL DEF Spec

\* "A failed remote query never turns into an empty list" (README.md), for any
\* forges, workflows and failures: every field of every snapshot is what the
\* forge held during the poll, the checks are of one commit, and no publication
\* that runs is left out.
THEOREM SnapshotsAreHonest == Spec => []SnapshotIsHonest
<1>1. PollInvariant => SnapshotIsHonest
  <2> SUFFICES ASSUME PollInvariant PROVE SnapshotIsHonest
    OBVIOUS
  <2>0. Kept /\ Origin /\ OfCommit /\ RunsSeen /\ InOrder /\ FromAnswers
    BY DEF PollInvariant
  <2>1. CASE result = NoPoll
    <3>1. Shown = {}
      BY <2>1 DEF Shown
    <3> QED
      BY <2>0, <2>1, <3>1 DEF SnapshotIsHonest, TypeOK, Kept, HonestSnapshot,
         ChecksOfOneCommit, RunningIsShown
  <2>2. CASE result # NoPoll /\ result = Snapshot
    <3>1. TypeOK
      BY <2>0, <2>2, SnapshotShape DEF TypeOK, Kept, Shape
    <3> QED
      BY <2>0, <2>2, <3>1, SnapshotHonest, SnapshotChecks, SnapshotRuns DEF SnapshotIsHonest
  <2>3. CASE result # NoPoll /\ result \in {GitlabFailed, BitbucketFailed}
    <3>0. DOMAIN result = Field /\ \A f \in Field : Silent(result[f])
      BY <2>3, Shapes DEF GitlabFailed, BitbucketFailed
    <3>1. Shown = {}
      BY <3>0 DEF Shown, Silent
    <3> QED
      BY <2>0, <2>3, <3>0, <3>1 DEF SnapshotIsHonest, TypeOK, Kept, Silent, Shape, HonestSnapshot,
         ChecksOfOneCommit, RunningIsShown
  <2> QED
    BY <2>0, <2>1, <2>2, <2>3 DEF FromAnswers
<1> QED
  BY <1>1, PollIsSound, PTL

-----------------------------------------------------------------------------
(* Failures. *)

\* A query the adapter has made and that is not answered well has failed, or is
\* of a feature that is off.
LEMMA NotOk ==
  ASSUME Kept, result = Snapshot, \A p \in Query : Asks(p) => Answered(p),
         NEW q \in Query, Asks(q), ~IsOk(q)
  PROVE  answer[q] = Bad \/ (kind = "forgejo" /\ q \in Lists /\ answer[q] = Off)
BY DEF Kept

\* The error of an observation is that of its query.
LEMMA ErrorOfQuery ==
  ASSUME NEW q, NEW d
  PROVE  /\ Observe(q, d).error # NoError => ~IsOk(q)
         /\ ObserveIfOn(q, d).error # NoError => ~IsOk(q) /\ answer[q].status # "off"
BY DEF Observe, ObserveIfOn, Success, Unsupported

LEMMA DefaultIsName ==
  ASSUME Kept, Origin, IsOk("repo"), Data("repo") # NoBranch
  PROVE  DefaultBranch.data # Nothing
<1>1. PICK s \in during : Data("repo") = s.default
  BY DEF Origin
<1>2. s.default \in Names \cup {NoBranch}
  BY ProvidersAssumption DEF ProvidersAssumption, Kept, Forge
<1> QED
  BY <1>1, <1>2, ProvidersAssumption DEF ProvidersAssumption, DefaultBranch, Success

\* The workflows were read up to one that failed, or all of them.
LEMMA FailedWorkflow ==
  ASSUME Kept, Origin, OfCommit, InOrder, kind = "github", result = Snapshot,
         \A p \in Query : Asks(p) => Answered(p), NEW w \in Workflow, ~IsOk(w)
  PROVE  \E v \in Workflow : answer[v] = Bad
<1>0. /\ Len(Workflows) \in Nat /\ DOMAIN Workflows = 1 .. Len(Workflows)
      /\ \A i \in DOMAIN Workflows : Workflows[i] \in Workflow /\ Workflows[i] \in Query
                                    /\ Workflows[i] \notin Lists
  BY ProvidersAssumption DEF ProvidersAssumption, Query, Workflow, NamedQuery
<1>1. PICK n \in 0 .. Len(Workflows) :
        /\ \A i \in 1 .. n : Answered(Workflows[i])
        /\ \A i \in n + 1 .. Len(Workflows) : ~Answered(Workflows[i])
        /\ \A i \in 1 .. n - 1 : IsOk(Workflows[i])
  BY DEF InOrder
<1>2. PICK k \in DOMAIN Workflows : Workflows[k] = w
  BY DEF Workflow
<1>3. \A i \in 1 .. n : ~IsOk(Workflows[i]) => answer[Workflows[i]] = Bad
  BY <1>0, <1>1 DEF Kept
<1>4. CASE k \in 1 .. n
  BY <1>0, <1>2, <1>3, <1>4
<1>5. CASE n \in 1 .. Len(Workflows) /\ ~IsOk(Workflows[n])
  BY <1>0, <1>3, <1>5
<1>6. CASE ~(k \in 1 .. n) /\ (n = 0 \/ IsOk(Workflows[n]))
  <2>1. n + 1 \in DOMAIN Workflows
    BY <1>0, <1>6
  <2>2. \A j \in 1 .. n : IsOk(Workflows[j])
    BY <1>1, <1>6
  <2>3. Asks(Workflows[n + 1])
    <3>1. Asks("repo") /\ Answered("repo")
      BY DEF Asks, GithubAsks, Query, NamedQuery
    <3>2. \A l \in Lists \cup {"user"} : Answered(l)
      BY <3>1 DEF Asks, GithubAsks, ListsAsked, Query, NamedQuery, Lists
    <3>3. DefaultBranch.data = Nothing \/ Answered("commit")
      BY <3>2 DEF Asks, GithubAsks, Query, NamedQuery
    <3>4. IsOk("commit") => Answered("checks")
      BY DEF Asks, GithubAsks, Query, NamedQuery
    <3>5. Answered("checks") => Answered("statuses")
      BY DEF Asks, GithubAsks, Query, NamedQuery
    <3>6. \A j \in 1 .. (n + 1) - 1 : IsOk(Workflows[j])
      BY <2>2
    <3> QED
      BY <2>1, <3>2, <3>3, <3>4, <3>5, <3>6 DEF Asks, GithubAsks
  <2>4. n + 1 \in n + 1 .. Len(Workflows)
    BY <1>0, <2>1
  <2> QED
    BY <1>0, <1>1, <2>1, <2>3, <2>4
<1> QED
  BY <1>0, <1>4, <1>5, <1>6

LEMMA GithubLocal ==
  ASSUME Kept, Origin, OfCommit, InOrder, kind = "github", result = GithubSnapshot,
         \A p \in Query : Asks(p) => Answered(p), result = Snapshot,
         NEW f \in Field, result[f].error # NoError
  PROVE  \/ \E q \in Needs(f) : answer[q] = Bad
         \/ f \in {"default_branch", "ci"} /\ Data("repo") = NoBranch
<1>1. \A q \in Query : Asks(q) /\ ~IsOk(q) => answer[q] = Bad
  BY NotOk
<1>2. /\ Asks("repo") /\ Answered("repo") /\ "repo" \in Query
      /\ \A l \in Lists \cup {"user"} : l \in Query /\ Asks(l) /\ Answered(l)
  <2>1. Asks("repo") /\ Answered("repo")
    BY DEF Asks, GithubAsks, Query, NamedQuery
  <2> QED
    BY <2>1 DEF Asks, GithubAsks, ListsAsked, Query, NamedQuery, Lists
<1>3. CASE f = "default_branch"
  BY <1>1, <1>2, <1>3 DEF GithubSnapshot, DefaultBranch, Success, Needs
<1>4. CASE f \in {"branches", "prs", "proposals", "issues", "drafts", "published"}
  BY <1>1, <1>2, <1>4, ErrorOfQuery DEF GithubSnapshot, GithubIssues, Needs, Lists
<1>5. CASE f = "review_requests"
  BY <1>1, <1>2, <1>5, ErrorOfQuery DEF GithubSnapshot, GithubReviews, Needs, Lists
<1>6. CASE f = "ci"
  <2>1. CASE ~IsOk("repo")
    BY <1>1, <1>2, <1>6, <2>1 DEF Needs
  <2>2. CASE IsOk("repo") /\ Data("repo") # NoBranch
    <3>1. Asks("commit") /\ "commit" \in Query /\ "checks" \in Query /\ "statuses" \in Query
      BY <1>2, <2>2, DefaultIsName DEF Asks, GithubAsks, Query, NamedQuery
    <3>2. IsOk("commit") => Asks("checks")
      BY DEF Asks, GithubAsks
    <3>3. Answered("checks") => Asks("statuses")
      BY DEF Asks, GithubAsks
    <3>4. ~IsOk("commit") \/ ~IsOk("checks") \/ ~IsOk("statuses")
      BY <1>6 DEF GithubSnapshot, GithubCi, ChecksAndStatuses, Success
    <3> QED
      BY <1>1, <1>6, <3>1, <3>2, <3>3, <3>4 DEF Needs
  <2> QED
    BY <1>6, <2>1, <2>2
<1>7. CASE f = "publication"
  BY <1>1, <1>2, <1>7, FailedWorkflow DEF GithubSnapshot, Publication, Success, Unsupported, Needs
<1> QED
  BY <1>3, <1>4, <1>5, <1>6, <1>7 DEF Field

LEMMA GitlabLocal ==
  ASSUME Kept, kind = "gitlab", result = GitlabSnapshot,
         \A p \in Query : Asks(p) => Answered(p), result = Snapshot,
         NEW f \in Field, result[f].error # NoError
  PROVE  \/ \E q \in Needs(f) : answer[q] = Bad
         \/ f = "default_branch" /\ Data("repo") = NoBranch
<1>1. \A q \in Query : Asks(q) /\ ~IsOk(q) => answer[q] = Bad
  BY NotOk
<1>2. \A q \in {"repo", "user", "pipelines"} \cup Lists : q \in Query /\ Asks(q)
  BY DEF Asks, GitlabAsks, Query, NamedQuery
<1>3. CASE f = "default_branch"
  BY <1>1, <1>2, <1>3 DEF GitlabSnapshot, DefaultBranch, Success, Needs
<1>4. CASE f \in {"branches", "prs", "proposals", "issues", "drafts", "published", "ci"}
  BY <1>1, <1>2, <1>4, ErrorOfQuery DEF GitlabSnapshot, GitlabIssues, Needs, Lists
<1>5. CASE f = "review_requests"
  BY <1>1, <1>2, <1>5 DEF GitlabSnapshot, GitlabReviews, Success, Needs, Lists
<1>6. CASE f = "publication"
  BY <1>6 DEF GitlabSnapshot, Unsupported
<1> QED
  BY <1>3, <1>4, <1>5, <1>6 DEF Field

LEMMA BitbucketLocal ==
  ASSUME Kept, kind = "bitbucket", result = BitbucketSnapshot,
         \A p \in Query : Asks(p) => Answered(p), result = Snapshot,
         NEW f \in Field, result[f].error # NoError
  PROVE  \/ \E q \in Needs(f) : answer[q] = Bad
         \/ f = "default_branch" /\ Data("repo") = NoBranch
<1>1. \A q \in Query : Asks(q) /\ ~IsOk(q) => answer[q] = Bad
  BY NotOk
<1>2. \A q \in {"repo", "user", "pipelines", "branches", "pulls"} : q \in Query /\ Asks(q)
  BY DEF Asks, BitbucketAsks, Query, NamedQuery, Lists
<1>3. CASE f = "default_branch"
  BY <1>1, <1>2, <1>3 DEF BitbucketSnapshot, DefaultBranch, Success, Needs
<1>4. CASE f \in {"branches", "prs", "drafts", "ci"}
  BY <1>1, <1>2, <1>4, ErrorOfQuery DEF BitbucketSnapshot, Needs
<1>5. CASE f = "review_requests"
  BY <1>1, <1>2, <1>5 DEF BitbucketSnapshot, BitbucketReviews, Success, Needs
<1>6. CASE f \in {"publication", "proposals", "issues", "published"}
  BY <1>6 DEF BitbucketSnapshot, Unsupported, Success
<1> QED
  BY <1>3, <1>4, <1>5, <1>6 DEF Field

LEMMA ForgejoLocal ==
  ASSUME Kept, Origin, kind = "forgejo", result = ForgejoSnapshot,
         \A p \in Query : Asks(p) => Answered(p), result = Snapshot,
         NEW f \in Field, result[f].error # NoError
  PROVE  \/ \E q \in Needs(f) : answer[q] = Bad
         \/ f \in {"default_branch", "ci"} /\ Data("repo") = NoBranch
<1>1. /\ \A q \in Query : Asks(q) /\ ~IsOk(q) /\ q \notin Lists => answer[q] = Bad
      /\ \A q \in Query : Asks(q) /\ ~IsOk(q) /\ answer[q].status # "off" => answer[q] = Bad
  BY NotOk DEF Off
<1>2. /\ Asks("repo") /\ "repo" \in Query /\ "repo" \notin Lists
      /\ \A l \in Lists : l \in Query /\ Asks(l) /\ Answered(l)
  BY DEF Asks, ForgejoAsks, Query, NamedQuery, Lists
<1>3. CASE f = "default_branch"
  BY <1>1, <1>2, <1>3 DEF ForgejoSnapshot, DefaultBranch, Success, Needs
<1>4. CASE f \in {"branches", "prs", "proposals", "issues", "drafts", "published"}
  BY <1>1, <1>2, <1>4, ErrorOfQuery DEF ForgejoSnapshot, ForgejoIssues, Needs, Lists
<1>5. CASE f = "ci"
  <2>1. CASE ~IsOk("repo")
    BY <1>1, <1>2, <1>5, <2>1 DEF Needs
  <2>2. CASE IsOk("repo") /\ Data("repo") # NoBranch
    <3>1. Asks("statuses") /\ "statuses" \in Query /\ "statuses" \notin Lists
      BY <1>2, <2>2, DefaultIsName DEF Asks, ForgejoAsks, Query, NamedQuery, Lists
    <3> QED
      BY <1>1, <1>5, <2>2, <3>1, ErrorOfQuery DEF ForgejoSnapshot, ForgejoCi, Needs
  <2> QED
    BY <1>5, <2>1, <2>2
<1>6. CASE f \in {"publication", "review_requests"}
  BY <1>6 DEF ForgejoSnapshot, Unsupported
<1> QED
  BY <1>3, <1>4, <1>5, <1>6 DEF Field

LEMMA SnapshotLocal ==
  ASSUME PollInvariant, result # NoPoll, NEW p \in Query, Answered(p)
  PROVE  \A f \in Field :
           result[f].error # NoError =>
             \/ \E q \in Needs(f) : answer[q] = Bad
             \/ f \in {"default_branch", "ci"} /\ Data("repo") = NoBranch
<1>0. Kept /\ Origin /\ OfCommit /\ InOrder
  BY DEF PollInvariant
<1>1. result = Snapshot /\ \A q \in Query : Asks(q) => Answered(q)
  BY DEF PollInvariant, FromAnswers
<1>2. CASE kind = "github"
  <2>1. Snapshot = GithubSnapshot
    BY <1>2 DEF Snapshot
  <2> QED
    BY <1>0, <1>1, <1>2, <2>1, GithubLocal
<1>3. CASE kind = "gitlab"
  <2>1. Snapshot = GitlabSnapshot
    BY <1>3 DEF Snapshot
  <2> QED
    BY <1>0, <1>1, <1>3, <2>1, GitlabLocal
<1>4. CASE kind = "bitbucket"
  <2>1. Snapshot = BitbucketSnapshot
    BY <1>4 DEF Snapshot
  <2> QED
    BY <1>0, <1>1, <1>4, <2>1, BitbucketLocal
<1>5. CASE kind = "forgejo"
  <2>1. Snapshot = ForgejoSnapshot
    BY <1>5 DEF Snapshot
  <2> QED
    BY <1>0, <1>1, <1>5, <2>1, ForgejoLocal
<1>6. CASE kind \notin {"github", "gitlab", "bitbucket", "forgejo"}
  BY <1>1, <1>6 DEF Snapshot, UnsupportedSnapshot, Unsupported
<1> QED
  BY <1>2, <1>3, <1>4, <1>5, <1>6

LEMMA Backoff ==
  ASSUME PollInvariant, result # NoPoll, kind # "local" PROVE BackoffIsDeserved
<1>0. Kept /\ kind \in {"github", "gitlab", "bitbucket", "forgejo"}
  BY ProvidersAssumption DEF PollInvariant, Kept, ProvidersAssumption
<1>1. ASSUME \A q \in Query : ~IsOk(q) PROVE RemoteFailed
  <2>1. DefaultBranch = Failure(Failed)
    BY <1>1 DEF DefaultBranch, Query, NamedQuery
  <2>2. CASE result = Snapshot
    <3>1. result["default_branch"] = DefaultBranch
      BY <1>0, <2>2 DEF Snapshot, GithubSnapshot, GitlabSnapshot, BitbucketSnapshot, ForgejoSnapshot
    <3> QED
      BY <2>1, <3>1, ObservationAssumption DEF RemoteFailed, Failure, ObservationAssumption
  <2>3. CASE result \in {GitlabFailed, BitbucketFailed}
    <3>1. result["default_branch"] = Failure(Failed)
      BY <2>3 DEF GitlabFailed, BitbucketFailed, Field
    <3> QED
      BY <3>1, ObservationAssumption DEF RemoteFailed, Failure, ObservationAssumption
  <2> QED
    BY <2>2, <2>3 DEF PollInvariant, FromAnswers
<1>2. ASSUME IsOk("repo"), Data("repo") # NoBranch, \A q \in Query : answer[q] # Bad
      PROVE  ~RemoteFailed
  <2>1. "repo" \in Query /\ Answered("repo")
    BY <1>2 DEF IsOk, Query, NamedQuery
  <2>2. {"default_branch", "prs", "ci"} \subseteq Field
    BY DEF Field
  <2>3. \A f \in {"default_branch", "prs", "ci"} : Needs(f) \subseteq Query
    BY DEF Needs, Query, NamedQuery, Lists
  <2> QED
    BY <1>2, <2>1, <2>2, <2>3, SnapshotLocal DEF RemoteFailed
<1> QED
  BY <1>1, <1>2 DEF BackoffIsDeserved

\* Whatever the forge and whichever queries fail, a failure spoils the fields
\* that rest on it and no other, and a row backs off for nothing but what
\* failed (snapshot of each adapter, remote_failed of event_loop.rs).
THEOREM FailuresStayLocal == Spec => []FailuresAreContained
<1>1. PollInvariant => FailuresAreContained
  <2> SUFFICES ASSUME PollInvariant PROVE FailuresAreContained
    OBVIOUS
  <2>1. FailureStaysLocal
    BY SnapshotLocal DEF FailureStaysLocal
  <2>2. BackoffIsDeserved
    BY Backoff DEF BackoffIsDeserved
  <2> QED
    BY <2>1, <2>2 DEF FailuresAreContained
<1> QED
  BY <1>1, PollIsSound, PTL
-----------------------------------------------------------------------------
(* Reading one list, page by page. *)

\* How far the pages before the next one reach, and what they hold.
Passed    == (next - 1) * PageSize
ReadSoFar == SubSeq(list, 1, IF Passed < Len(list) THEN Passed ELSE Len(list))

\* What has been read of a list that stands still is its beginning.
StandingStill ==
  outcome = "reading" /\ changes = 0 /\ ~confused => entries = ReadSoFar

\* An item that was there at the start has been read, or is still to come:
\* what appears before it moves it towards the pages that are still to be read.
NoneLost ==
  outcome = "reading" /\ ~removed /\ ~confused =>
    \A x \in ToSet(start) :
      x \in ToSet(entries) \/ \E j \in DOMAIN list : j > Passed /\ list[j] = x

\* gh has read nothing until it has read everything.
AllAtOnce ==
  outcome = "reading" => attempts > 0 /\ (way = "gh" => entries = << >> /\ next = 1)

PagingInvariant ==
  PagingTypeOK /\ StandingStill /\ NoneLost /\ AllAtOnce /\ WholeOrNothing /\ NothingSkipped

LEMMA PageBounds ==
  ASSUME PagingTypeOK
  PROVE  /\ PageSize \in Nat \ {0} /\ Passed \in Nat /\ next * PageSize \in Nat
         /\ next * PageSize = Passed + PageSize
         /\ (next + 1 - 1) * PageSize = next * PageSize
<1>1. PageSize \in Nat \ {0} /\ next \in Nat \ {0}
  BY PagingAssumption DEF PagingTypeOK, PageSize
<1> DEFINE s == PageSize
<1>2. \A n \in Nat \ {0} : \A k \in Nat \ {0} :
        /\ (n - 1) * k \in Nat /\ n * k \in Nat /\ n * k = (n - 1) * k + k
        /\ (n + 1 - 1) * k = n * k
  <2>1. SUFFICES ASSUME NEW n \in Nat \ {0}, NEW k \in Nat \ {0}
                 PROVE  /\ (n - 1) * k \in Nat /\ n * k \in Nat /\ n * k = (n - 1) * k + k
                        /\ (n + 1 - 1) * k = n * k
    OBVIOUS
  <2> QED
    OBVIOUS
<1> QED
  BY <1>1, <1>2 DEF Passed

LEMMA Together ==
  ASSUME NEW s \in Seq(Items), NEW t \in Seq(Items)
  PROVE  s \o t \in Seq(Items) /\ ToSet(s) \cup ToSet(t) \subseteq ToSet(s \o t)
<1>1. /\ s \o t \in Seq(Items) /\ Len(s \o t) = Len(s) + Len(t)
      /\ \A i \in 1 .. Len(s) + Len(t) : (s \o t)[i] =
           IF i <= Len(s) THEN s[i] ELSE t[i - Len(s)]
  BY ConcatProperties
<1>2. \A i \in DOMAIN s : i \in DOMAIN (s \o t) /\ (s \o t)[i] = s[i]
  BY <1>1
<1>3. \A i \in DOMAIN t : i + Len(s) \in DOMAIN (s \o t) /\ (s \o t)[i + Len(s)] = t[i]
  BY <1>1
<1>4. ToSet(s) = {s[i] : i \in DOMAIN s} /\ ToSet(t) = {t[i] : i \in DOMAIN t}
      /\ ToSet(s \o t) = {(s \o t)[i] : i \in DOMAIN (s \o t)}
  BY DEF ToSet
<1>5. ASSUME NEW x \in ToSet(s) \cup ToSet(t)
      PROVE  x \in ToSet(s \o t)
  <2>1. CASE x \in ToSet(s)
    <3>1. PICK i \in DOMAIN s : x = s[i]
      BY <2>1, <1>4
    <3> QED
      BY <3>1, <1>2, <1>4
  <2>2. CASE x \in ToSet(t)
    <3>1. PICK i \in DOMAIN t : x = t[i]
      BY <2>2, <1>4
    <3> QED
      BY <3>1, <1>3, <1>4
  <2> QED
    BY <2>1, <2>2
<1> QED
  BY <1>1, <1>5

\* A page continues what has been read.
LEMMA PageContinues ==
  ASSUME PagingTypeOK
  PROVE  /\ Page(next) \in Seq(Items)
         /\ ReadSoFar \o Page(next) =
              SubSeq(list, 1, IF next * PageSize < Len(list) THEN next * PageSize ELSE Len(list))
         /\ \A j \in DOMAIN list : j > Passed /\ j <= next * PageSize =>
              list[j] \in ToSet(Page(next))
         /\ Len(Page(next)) < PageSize => IsLast(next)
<1>0. list \in Seq(Items)
  BY DEF PagingTypeOK
<1> DEFINE p == Passed
           q == IF next * PageSize < Len(list) THEN next * PageSize ELSE Len(list)
<1>1. p \in Nat /\ q \in 0 .. Len(list) /\ PageSize \in Nat \ {0}
      /\ next * PageSize = p + PageSize /\ next * PageSize \in Nat
  BY <1>0, PageBounds
<1>2. Page(next) = SubSeq(list, p + 1, q)
  BY DEF Page, Passed
<1>3. \A i \in p + 1 .. q : list[i] \in Items
  BY <1>0, <1>1
<1> HIDE DEF p
<1>q. q = IF p + PageSize < Len(list) THEN p + PageSize ELSE Len(list)
  BY <1>1
<1> HIDE DEF q
<1>4. /\ Page(next) \in Seq(Items)
      /\ Len(Page(next)) = IF p + 1 <= q THEN q - (p + 1) + 1 ELSE 0
      /\ \A i \in 1 .. q - (p + 1) + 1 : Page(next)[i] = list[p + 1 + i - 1]
  BY <1>1, <1>2, <1>3, SubSeqProperties
<1>5. ReadSoFar \o Page(next) = SubSeq(list, 1, q)
  <2>1. CASE p < Len(list)
    <3>1. ReadSoFar = SubSeq(list, 1, p)
      BY <2>1 DEF ReadSoFar, p
    <3>2. 1 \in 1 .. Len(list) + 1 /\ p \in 1 - 1 .. Len(list) /\ q \in p .. Len(list)
      BY <2>1, <1>0, <1>1, <1>q
    <3> QED
      BY <3>1, <3>2, <1>0, <1>2, ConcatAdjacentSubSeq
  <2>2. CASE ~(p < Len(list))
    <3>1. ReadSoFar = SubSeq(list, 1, Len(list)) /\ q = Len(list)
      BY <2>2, <1>0, <1>1, <1>q DEF ReadSoFar, p
    <3>2. Page(next) = << >>
      BY <2>2, <3>1, <1>0, <1>1, <1>2, SubSeqEmpty
    <3> QED
      BY <3>1, <3>2, <1>0, SubSeqFull, ConcatEmptySeq
  <2> QED
    BY <2>1, <2>2
<1>6. ASSUME NEW j \in DOMAIN list, j > p, j <= p + PageSize
      PROVE  list[j] \in ToSet(Page(next))
  <2>0. p \in Nat /\ q \in Nat /\ j \in Nat /\ p < j /\ j <= q
    <3>1. Len(list) \in Nat /\ j \in 1 .. Len(list)
      BY <1>0, <1>6
    <3> QED
      BY <3>1, <1>1, <1>6, <1>q
  <2>1. j - p \in 1 .. q - (p + 1) + 1 /\ p + 1 + (j - p) - 1 = j
    BY <2>0
  <2>2. Page(next)[j - p] = list[p + 1 + (j - p) - 1]
    BY <2>1, <1>4
  <2>3. j - p \in 1 .. Len(Page(next))
    BY <2>0, <2>1, <1>4
  <2> QED
    BY <2>1, <2>2, <2>3, <1>4 DEF ToSet
<1>7. Len(Page(next)) < PageSize => IsLast(next)
  BY <1>0, <1>1, <1>4, <1>q DEF IsLast
<1> QED
  BY <1>1, <1>4, <1>5, <1>6, <1>7 DEF p, q

\* A page is taken, and was the last, or not, or the forge lied about it.
LEMMA PageTaken ==
  ASSUME PagingInvariant, outcome = "reading", way # "gh",
         entries' = entries \o Page(next),
         UNCHANGED <<way, size, list, attempts, changes, start, removed>>,
         visited' \subseteq Nat \ {0},
         \/ next' = next + 1 /\ UNCHANGED <<outcome, confused>>
         \/ outcome' = "whole" /\ UNCHANGED <<next, confused>> /\ (SizeHonoured => IsLast(next))
         \/ next' \in Nat \ {0} /\ UNCHANGED outcome /\ confused' = TRUE
  PROVE  PagingInvariant'
<1>0. PagingTypeOK /\ list \in Seq(Items) /\ entries \in Seq(Items)
  BY DEF PagingInvariant, PagingTypeOK
<1>1. entries' \in Seq(Items) /\ ToSet(entries) \cup ToSet(Page(next)) \subseteq ToSet(entries')
  BY <1>0, PageContinues, Together
<1>2. PagingTypeOK'
  <2>1. next' \in Nat \ {0}
    BY <1>0 DEF PagingTypeOK
  <2>2. outcome' \in {"reading", "whole", "failed", "off"} /\ confused' \in BOOLEAN
    BY <1>0 DEF PagingTypeOK
  <2> QED
    BY <1>0, <1>1, <2>1, <2>2 DEF PagingTypeOK
<1>3. PageSize' = PageSize
  BY DEF PageSize
<1> DEFINE q == next * PageSize
<1>4. q \in Nat /\ Passed \in Nat /\ Passed <= q
  BY <1>0, PageBounds
<1>5. ASSUME next' = next + 1
      PROVE  Passed' = q
  <2>1. Passed' = (next' - 1) * PageSize'
    BY DEF Passed
  <2>2. next' - 1 = next + 1 - 1
    BY <1>0, <1>5 DEF PagingTypeOK
  <2>3. Passed' = (next + 1 - 1) * PageSize
    BY <1>3, <2>1, <2>2, Zenon
  <2> QED
    BY <1>0, <2>3, PageBounds
<1>6. changes = 0 /\ ~confused =>
        entries' = SubSeq(list, 1, IF q < Len(list) THEN q ELSE Len(list))
  BY <1>0, PageContinues DEF PagingInvariant, StandingStill
<1>7. ASSUME ~removed, ~confused, NEW x \in ToSet(start)
      PROVE  x \in ToSet(entries') \/ \E j \in DOMAIN list : j > q /\ list[j] = x
  <2>1. x \in ToSet(entries) \/ \E j \in DOMAIN list : j > Passed /\ list[j] = x
    BY <1>7 DEF PagingInvariant, NoneLost
  <2>2. CASE \E j \in DOMAIN list : j > Passed /\ list[j] = x
    <3>1. PICK j \in DOMAIN list : j > Passed /\ list[j] = x
      BY <2>2
    <3>2. j <= q => x \in ToSet(Page(next))
      BY <3>1, <1>0, PageContinues
    <3> QED
      BY <3>1, <3>2, <1>0, <1>1, <1>4
  <2> QED
    BY <2>1, <2>2, <1>1
<1>8. IsLast(next) => Len(list) <= q
  BY DEF IsLast
<1> HIDE DEF q
<1>9. AllAtOnce'
  BY DEF PagingInvariant, AllAtOnce
<1>10. CASE next' = next + 1 /\ UNCHANGED <<outcome, confused>>
  <2>1. StandingStill'
    BY <1>10, <1>5, <1>6 DEF StandingStill, ReadSoFar
  <2>2. NoneLost'
    BY <1>10, <1>5, <1>7 DEF NoneLost
  <2> QED
    BY <1>2, <1>9, <1>10, <2>1, <2>2 DEF PagingInvariant, WholeOrNothing, NothingSkipped
<1>11. CASE outcome' = "whole" /\ UNCHANGED <<next, confused>> /\ (SizeHonoured => IsLast(next))
  <2>1. SizeHonoured' <=> SizeHonoured
    BY DEF SizeHonoured
  <2>2. WholeOrNothing'
    <3>1. SUFFICES ASSUME changes = 0, ~confused, SizeHonoured
                   PROVE  entries' = list
      BY <1>11, <2>1 DEF WholeOrNothing
    <3>2. Len(list) = IF q < Len(list) THEN q ELSE Len(list)
      BY <3>1, <1>0, <1>4, <1>8, <1>11
    <3> QED
      BY <3>1, <3>2, <1>0, <1>6, SubSeqFull
  <2>3. NothingSkipped'
    <3>1. SizeHonoured => ~\E j \in DOMAIN list : j > q
      BY <1>0, <1>4, <1>8, <1>11
    <3> QED
      BY <3>1, <1>7, <1>11, <2>1 DEF NothingSkipped
  <2> QED
    BY <1>2, <1>9, <1>11, <2>2, <2>3 DEF PagingInvariant, StandingStill, NoneLost
<1>12. CASE next' \in Nat \ {0} /\ UNCHANGED outcome /\ confused' = TRUE
  BY <1>2, <1>9, <1>12
  DEF PagingInvariant, StandingStill, NoneLost, WholeOrNothing, NothingSkipped
<1> QED
  BY <1>10, <1>11, <1>12

\* Reading ends without a list.
LEMMA NoList ==
  ASSUME PagingInvariant, outcome' \in {"failed", "off"}, attempts' \in 0 .. Attempts,
         UNCHANGED <<way, size, list, next, visited, entries, history>>
  PROVE  PagingInvariant'
BY DEF PagingInvariant, PagingTypeOK, StandingStill, NoneLost, AllAtOnce, WholeOrNothing,
       NothingSkipped, history

\* An item that appears moves others away from the start, or not at all.
LEMMA AddedMovesOn ==
  ASSUME NEW s \in Seq(Items), NEW i \in 1 .. Len(s) + 1, NEW x \in Items
  PROVE  /\ InsertAt(s, i, x) \in Seq(Items)
         /\ \A j \in DOMAIN s : \E k \in DOMAIN InsertAt(s, i, x) :
              k >= j /\ InsertAt(s, i, x)[k] = s[j]
<1> DEFINE a == SubSeq(s, 1, i - 1)
           b == <<x>>
           c == SubSeq(s, i, Len(s))
           t == a \o b
           u == t \o c
<1>1. /\ a \in Seq(Items) /\ Len(a) = i - 1
      /\ \A j \in 1 .. i - 1 : a[j] = s[j]
  <2>1. \A j \in 1 .. i - 1 : s[j] \in Items
    OBVIOUS
  <2>2. \A j \in 1 .. (i - 1) - 1 + 1 : a[j] = s[1 + j - 1]
    BY <2>1, SubSeqProperties
  <2>3. a \in Seq(Items) /\ Len(a) = IF 1 <= i - 1 THEN (i - 1) - 1 + 1 ELSE 0
    BY <2>1, SubSeqProperties
  <2> QED
    BY <2>2, <2>3
<1>2. /\ c \in Seq(Items) /\ Len(c) = Len(s) - i + 1
      /\ \A j \in 1 .. Len(s) - i + 1 : c[j] = s[i + j - 1]
  <2>1. \A j \in i .. Len(s) : s[j] \in Items
    OBVIOUS
  <2> QED
    BY <2>1, SubSeqProperties
<1>3. b \in Seq(Items) /\ Len(b) = 1
  OBVIOUS
<1> HIDE DEF a, b, c
<1>4. /\ t \in Seq(Items) /\ Len(t) = i
      /\ \A j \in 1 .. i - 1 : t[j] = s[j]
  <2>1. /\ t \in Seq(Items) /\ Len(t) = Len(a) + Len(b)
        /\ \A j \in 1 .. Len(a) + Len(b) : t[j] = IF j <= Len(a) THEN a[j] ELSE b[j - Len(a)]
    BY <1>1, <1>3, ConcatProperties
  <2>2. Len(t) = i
    BY <2>1, <1>1, <1>3
  <2>3. ASSUME NEW j \in 1 .. i - 1
        PROVE  t[j] = s[j]
    <3>1. j \in 1 .. Len(a) + Len(b) /\ j <= Len(a)
      BY <1>1, <1>3
    <3> QED
      BY <3>1, <2>1, <1>1
  <2> QED
    BY <2>1, <2>2, <2>3
<1> HIDE DEF t
<1>5. /\ u \in Seq(Items) /\ Len(u) = Len(s) + 1
      /\ \A j \in 1 .. i - 1 : u[j] = s[j]
      /\ \A j \in i .. Len(s) : u[j + 1] = s[j]
  <2>1. /\ u \in Seq(Items) /\ Len(u) = Len(t) + Len(c)
        /\ \A j \in 1 .. Len(t) + Len(c) : u[j] = IF j <= Len(t) THEN t[j] ELSE c[j - Len(t)]
    BY <1>2, <1>4, ConcatProperties
  <2>2. \A j \in 1 .. i - 1 : u[j] = s[j]
    BY <2>1, <1>2, <1>4
  <2>3. ASSUME NEW j \in i .. Len(s)
        PROVE  u[j + 1] = s[j]
    <3>1. j + 1 \in 1 .. Len(t) + Len(c) /\ ~(j + 1 <= Len(t))
          /\ j + 1 - Len(t) \in 1 .. Len(s) - i + 1 /\ i + (j + 1 - Len(t)) - 1 = j
      BY <1>2, <1>4
    <3>2. u[j + 1] = c[j + 1 - Len(t)]
      BY <3>1, <2>1
    <3>3. c[j + 1 - Len(t)] = s[i + (j + 1 - Len(t)) - 1]
      BY <3>1, <1>2
    <3> QED
      BY <3>1, <3>2, <3>3
  <2> QED
    BY <2>1, <2>2, <2>3, <1>2, <1>4
<1>6. u = InsertAt(s, i, x)
  BY DEF InsertAt, a, b, c, t
<1> HIDE DEF u
<1>7. ASSUME NEW j \in DOMAIN s
      PROVE  \E k \in DOMAIN u : k >= j /\ u[k] = s[j]
  <2>1. CASE j < i
    BY <2>1, <1>5
  <2>2. CASE ~(j < i)
    <3>1. j \in i .. Len(s) /\ j + 1 \in DOMAIN u /\ j + 1 >= j
      BY <2>2, <1>5
    <3> QED
      BY <3>1, <1>5
  <2> QED
    BY <2>1, <2>2
<1> QED
  BY <1>5, <1>6, <1>7

LEMMA RemovedStays ==
  ASSUME NEW s \in Seq(Items), NEW i \in DOMAIN s
  PROVE  RemoveAt(s, i) \in Seq(Items)
<1>1. \A m, n \in 1 .. Len(s) : \A j \in m .. n : s[j] \in Items
  OBVIOUS
<1>2. SubSeq(s, 1, i - 1) \in Seq(Items)
  <2>1. \A j \in 1 .. i - 1 : s[j] \in Items
    OBVIOUS
  <2> QED
    BY <2>1, SubSeqProperties
<1>3. SubSeq(s, i + 1, Len(s)) \in Seq(Items)
  <2>1. \A j \in i + 1 .. Len(s) : s[j] \in Items
    OBVIOUS
  <2> QED
    BY <2>1, SubSeqProperties
<1> QED
  BY <1>2, <1>3, ConcatProperties DEF RemoveAt

LEMMA InitPaging ==
  ASSUME PagingInit
  PROVE  PagingInvariant
<1>1. PagingTypeOK
  <2>1. list \in Seq(Items) /\ start \in Contents /\ entries \in Seq(Items)
    BY PagingAssumption, EmptySeq DEF PagingInit
  <2>2. attempts \in 0 .. Attempts /\ changes \in 0 .. MaxChanges
    BY PagingAssumption DEF PagingInit
  <2>3. next \in Nat \ {0} /\ visited \subseteq Nat \ {0}
    BY DEF PagingInit
  <2>4. /\ way \in Ways /\ size \in Served /\ outcome \in {"reading", "whole", "failed", "off"}
        /\ removed \in BOOLEAN /\ confused \in BOOLEAN
    BY DEF PagingInit
  <2> QED
    BY <2>1, <2>2, <2>3, <2>4 DEF PagingTypeOK
<1>2. PageSize \in Nat \ {0} /\ list \in Seq(Items) /\ next = 1
  BY <1>1, PageBounds DEF PagingInit, PagingTypeOK
<1>3. Passed = 0
  BY <1>2 DEF Passed
<1>4. ReadSoFar = << >>
  BY <1>2, <1>3, SubSeqEmpty DEF ReadSoFar
<1>5. \A x \in ToSet(start) : \E j \in DOMAIN list : j > 0 /\ list[j] = x
  BY <1>2 DEF PagingInit, ToSet
<1> QED
  BY <1>1, <1>3, <1>4, <1>5, PagingAssumption
  DEF PagingInit, PagingInvariant, StandingStill, NoneLost, AllAtOnce, WholeOrNothing,
      NothingSkipped

LEMMA PagingStep ==
  ASSUME PagingInvariant, [PagingNext]_pagingVars
  PROVE  PagingInvariant'
<1>0. PagingTypeOK /\ list \in Seq(Items) /\ next \in Nat \ {0} /\ visited \subseteq Nat \ {0}
      /\ attempts \in 0 .. Attempts
  BY DEF PagingInvariant, PagingTypeOK
<1>1. ASSUME FollowLink
      PROVE  PagingInvariant'
  <2>1. CASE next \in visited
    BY <1>0, <1>1, <2>1, NoList DEF FollowLink, Ends, history
  <2>2. CASE next \notin visited
    <3>1. visited' \subseteq Nat \ {0}
      BY <1>0, <1>1, <2>2 DEF FollowLink
    <3>2. \/ next' = next + 1 /\ UNCHANGED <<outcome, confused>>
          \/ outcome' = "whole" /\ UNCHANGED <<next, confused>> /\ IsLast(next)
          \/ next' \in Nat \ {0} /\ UNCHANGED outcome /\ confused' = TRUE
      BY <1>0, <1>1, <2>2 DEF FollowLink
    <3> QED
      BY <1>1, <2>2, <3>1, <3>2, PageTaken DEF FollowLink
  <2> QED
    BY <2>1, <2>2
<1>2. LastBatch(Page(next)) /\ way \in {"limited", "unlimited"} /\ SizeHonoured => IsLast(next)
  <2>1. way \in {"limited", "unlimited"} /\ SizeHonoured => PageSize = PageSizeAsked
    BY <1>0, PagingAssumption DEF SizeHonoured, PageSize, PagingTypeOK
  <2> QED
    BY <1>0, <2>1, PageContinues DEF LastBatch
<1>3. ASSUME CountToLimit
      PROVE  PagingInvariant'
  <2>1. CASE next > MaxPages
    BY <1>0, <1>3, <2>1, NoList DEF CountToLimit, Ends, AtLimit
  <2>2. CASE ~(next > MaxPages)
    BY <1>0, <1>2, <1>3, <2>2, PageTaken DEF CountToLimit, Ends, history
  <2> QED
    BY <2>1, <2>2
<1>4. ASSUME Count
      PROVE  PagingInvariant'
  BY <1>0, <1>2, <1>4, PageTaken DEF Count, Ends, history
<1>5. ASSUME FirstIsMissing \/ PageFails
      PROVE  PagingInvariant'
  BY <1>0, <1>5, NoList DEF FirstIsMissing, PageFails, Ends
<1>6. ASSUME GhAnswers
      PROVE  PagingInvariant'
  <2>1. CASE UNCHANGED entries /\ Ends("failed")
    BY <1>0, <1>6, <2>1, NoList DEF GhAnswers, Ends
  <2>2. CASE entries' = list /\ Ends("whole")
    <3>1. PageSize \in Nat \ {0} /\ (next = 1 => Passed = 0)
      BY <1>0, PageBounds DEF Passed
    <3>2. ~removed /\ ~confused => ToSet(start) \subseteq ToSet(list)
      <4>1. outcome = "reading" /\ way = "gh"
        BY <1>6 DEF GhAnswers
      <4>2. entries = << >> /\ ToSet(entries) = {}
        BY <4>1 DEF PagingInvariant, AllAtOnce, ToSet
      <4> QED
        BY <4>1, <4>2 DEF PagingInvariant, NoneLost, ToSet
    <3> QED
      BY <1>0, <1>6, <2>2, <3>2
      DEF GhAnswers, Ends, PagingInvariant, PagingTypeOK, StandingStill, NoneLost, AllAtOnce,
          WholeOrNothing, NothingSkipped, history
  <2> QED
    BY <1>6, <2>1, <2>2 DEF GhAnswers
<1>7. ASSUME GhIsLimited
      PROVE  PagingInvariant'
  <2>1. attempts' \in 0 .. Attempts
    BY <1>0, <1>7, PagingAssumption DEF GhIsLimited, AttemptsLeft, PagingInvariant, AllAtOnce
  <2>2. CASE attempts' > 0
    <3>1. PageSize' = PageSize
      BY <1>7 DEF GhIsLimited, PageSize
    <3> QED
      BY <1>7, <2>1, <2>2, <3>1
      DEF GhIsLimited, PagingInvariant, PagingTypeOK, StandingStill, NoneLost, AllAtOnce,
          WholeOrNothing, NothingSkipped, SizeHonoured, history, ReadSoFar, Passed
  <2>3. CASE ~(attempts' > 0)
    BY <1>7, <2>1, <2>3, NoList DEF GhIsLimited, Ends
  <2> QED
    BY <2>2, <2>3
<1>8. ASSUME NEW x \in Items, ItemAdded(x)
      PROVE  PagingInvariant'
  <2>1. PICK i \in 1 .. Len(list) + 1 : list' = InsertAt(list, i, x)
    BY <1>8 DEF ItemAdded
  <2>2. /\ list' \in Seq(Items)
        /\ \A j \in DOMAIN list : \E k \in DOMAIN list' : k >= j /\ list'[k] = list[j]
    <3>1. /\ InsertAt(list, i, x) \in Seq(Items)
          /\ \A j \in DOMAIN list : \E k \in DOMAIN InsertAt(list, i, x) :
               k >= j /\ InsertAt(list, i, x)[k] = list[j]
      BY <1>0, AddedMovesOn
    <3> QED
      BY <2>1, <3>1
  <2>3. /\ outcome = "reading" /\ changes \in Nat /\ changes' = changes + 1
        /\ changes < MaxChanges
        /\ UNCHANGED <<way, size, next, visited, entries, attempts, outcome, start, confused,
                       removed>>
    BY <1>8 DEF ItemAdded, Changes, PagingInvariant, PagingTypeOK
  <2>4. PagingTypeOK'
    BY <1>0, <2>2, <2>3, PagingAssumption DEF PagingTypeOK
  <2>5. Passed' = Passed /\ Passed \in Nat
    BY <1>0, <2>3, PageBounds DEF Passed, PageSize
  <2>6. NoneLost'
    <3>1. SUFFICES ASSUME ~removed, ~confused, NEW y \in ToSet(start)
                   PROVE  y \in ToSet(entries) \/ \E k \in DOMAIN list' : k > Passed /\ list'[k] = y
      BY <2>3, <2>5 DEF NoneLost
    <3>2. CASE \E j \in DOMAIN list : j > Passed /\ list[j] = y
      <4>1. PICK j \in DOMAIN list : j > Passed /\ list[j] = y
        BY <3>2
      <4>2. PICK k \in DOMAIN list' : k >= j /\ list'[k] = list[j]
        BY <2>2
      <4> QED
        BY <4>1, <4>2, <1>0, <2>2, <2>5
    <3> QED
      BY <3>1, <3>2, <2>3 DEF PagingInvariant, NoneLost
  <2> QED
    BY <2>3, <2>4, <2>6
    DEF PagingInvariant, StandingStill, AllAtOnce, WholeOrNothing, NothingSkipped
<1>9. ASSUME NEW i \in DOMAIN list, ItemRemoved(i)
      PROVE  PagingInvariant'
  <2>1. list' \in Seq(Items) /\ removed' = TRUE
    BY <1>0, <1>9, RemovedStays DEF ItemRemoved
  <2>2. /\ outcome = "reading" /\ changes \in Nat /\ changes' = changes + 1
        /\ changes < MaxChanges
        /\ UNCHANGED <<way, size, next, visited, entries, attempts, outcome, start, confused>>
    BY <1>9 DEF ItemRemoved, Changes, PagingInvariant, PagingTypeOK
  <2>3. PagingTypeOK'
    BY <1>0, <2>1, <2>2, PagingAssumption DEF PagingTypeOK
  <2> QED
    BY <2>1, <2>2, <2>3
    DEF PagingInvariant, StandingStill, NoneLost, AllAtOnce, WholeOrNothing, NothingSkipped
<1>10. ASSUME UNCHANGED pagingVars
       PROVE  PagingInvariant'
  BY <1>10
  DEF pagingVars, PagingInvariant, PagingTypeOK, StandingStill, NoneLost, AllAtOnce,
      WholeOrNothing, NothingSkipped, SizeHonoured, ReadSoFar, Passed, PageSize
<1> QED
  BY <1>1, <1>3, <1>4, <1>5, <1>6, <1>7, <1>8, <1>9, <1>10 DEF PagingNext

-----------------------------------------------------------------------------
\* "Incomplete" answers are errors (docs/design.md), for any lists and any page
\* sizes, however a list changes while it is read: a list that is taken for
\* whole (provider_http.rs, gitlab.rs, forgejo.rs, provider.rs) is the list, if
\* it stood still, and has all that was there before, if nothing has gone.
THEOREM WholeListsAreWhole == PagingSpec => []WholeIsWhole
<1>1. PagingInvariant => WholeIsWhole
  BY DEF PagingInvariant, WholeIsWhole
<1> QED
  BY <1>1, InitPaging, PagingStep, PTL DEF PagingSpec
-----------------------------------------------------------------------------
(* Reading one list runs out of rounds. *)

\* The most rounds that are left: of gh, its attempts; of a count, the pages up to
\* its limit, or up to the end of a list that every change has made longer; of
\* links, those, or one if the next page has been visited.
LongestList == Len(start) + MaxChanges

RoundsLeft ==
  CASE way = "gh"        -> attempts
    [] way = "limited"   -> MaxPages + 2 - next
    [] way = "unlimited" -> LongestList + 2 - next
    [] way = "links"     -> IF next \in visited THEN 1 ELSE LongestList + 3 - next

\* Every round of reading ends it or leaves fewer rounds, which never run below
\* none: neither pages smaller than asked for, wrong links and a list that grows
\* (provider_http.rs, gitlab.rs, forgejo.rs) nor rate limits (provider.rs) can keep
\* a poll asking.
RoundsRunOut ==
  [][Read => RoundsLeft > 0 /\ (outcome' = "reading" => RoundsLeft' < RoundsLeft)]_pagingVars

\* A list grows by one item with a change, and no page that is not the last is
\* beyond its end.
Rounds ==
  /\ Len(list) <= Len(start) + changes
  /\ outcome = "reading" =>
       /\ way = "limited" => next <= MaxPages + 1
       /\ way = "unlimited" \/ (way = "links" /\ next \notin visited) => next <= LongestList + 1

LEMMA Lengths ==
  ASSUME PagingTypeOK
  PROVE  /\ Len(list) \in Nat /\ Len(start) \in Nat /\ LongestList \in Nat
         /\ list \in Seq(Items) /\ next \in Nat \ {0} /\ attempts \in 0 .. Attempts
         /\ changes \in Nat /\ changes <= MaxChanges /\ MaxChanges \in Nat /\ MaxPages \in Nat
         /\ visited \subseteq Nat \ {0}
BY PagingAssumption DEF PagingTypeOK, LongestList

\* Pages before the end are no more than the items.
LEMMA PagesWithinList ==
  ASSUME PagingTypeOK, Rounds, next * PageSize < Len(list) \/ next * PageSize <= Len(list)
  PROVE  next + 1 <= LongestList + 1
<1>1. \A n \in Nat, k \in Nat \ {0} : n <= n * k
  OBVIOUS
<1> DEFINE before == next * PageSize
<1>2. PageSize \in Nat \ {0} /\ before \in Nat /\ next \in Nat
  BY PageBounds, Lengths
<1>3. next <= before
  BY <1>1, <1>2
<1>4. before < Len(list) \/ before <= Len(list)
  OBVIOUS
<1> HIDE DEF before
<1>5. Len(list) <= Len(start) + MaxChanges
  BY Lengths DEF Rounds
<1> QED
  BY <1>2, <1>3, <1>4, <1>5, Lengths DEF LongestList

\* A page as long as what was asked for lies within the list.
LEMMA FullPageIsWithin ==
  ASSUME PagingTypeOK, ~LastBatch(Page(next))
  PROVE  next * PageSize <= Len(list)
<1> DEFINE p == Passed
           q == IF next * PageSize < Len(list) THEN next * PageSize ELSE Len(list)
<1>1. p \in Nat /\ q \in 0 .. Len(list) /\ PageSize \in Nat \ {0}
      /\ next * PageSize = p + PageSize /\ list \in Seq(Items)
  BY PageBounds, Lengths
<1>2. Page(next) = SubSeq(list, p + 1, q)
  BY DEF Page, Passed
<1>3. PageSize <= PageSizeAsked /\ PageSizeAsked \in Nat \ {0}
  BY PagingAssumption DEF PagingTypeOK, PageSize
<1>q. q = IF p + PageSize < Len(list) THEN p + PageSize ELSE Len(list)
  BY <1>1
<1> HIDE DEF p, q
<1>4. Len(Page(next)) = IF p + 1 <= q THEN q - (p + 1) + 1 ELSE 0
  <2>1. \A i \in p + 1 .. q : list[i] \in Items
    BY <1>1
  <2> QED
    BY <1>1, <1>2, <2>1, SubSeqProperties
<1>5. PageSize <= Len(Page(next))
  BY <1>1, <1>3, <1>4 DEF LastBatch
<1> QED
  BY <1>1, <1>4, <1>5, <1>q

LEMMA RoundsStart == PagingInit => Rounds
<1> SUFFICES ASSUME PagingInit PROVE Rounds
  OBVIOUS
<1>1. PagingTypeOK
  BY InitPaging DEF PagingInvariant
<1>2. list = start /\ changes = 0 /\ next = 1
  BY DEF PagingInit
<1>3. Len(list) \in Nat /\ LongestList \in Nat /\ MaxPages \in Nat
  BY <1>1, Lengths
<1>4. Len(list) <= Len(start) + changes
  BY <1>2, <1>3
<1> QED
  BY <1>2, <1>3, <1>4 DEF Rounds

\* An item more or less.
LEMMA ChangedLengths ==
  ASSUME NEW s \in Seq(Items)
  PROVE  /\ \A i \in 1 .. Len(s) + 1, x \in Items : Len(InsertAt(s, i, x)) = Len(s) + 1
         /\ \A i \in DOMAIN s : Len(RemoveAt(s, i)) = Len(s) - 1
<1>1. ASSUME NEW m \in 1 .. Len(s) + 1, NEW n \in 0 .. Len(s)
      PROVE  SubSeq(s, m, n) \in Seq(Items)
             /\ Len(SubSeq(s, m, n)) = IF m <= n THEN n - m + 1 ELSE 0
  <2>1. \A i \in m .. n : s[i] \in Items
    OBVIOUS
  <2> QED
    BY <2>1, SubSeqProperties
<1>2. ASSUME NEW i \in 1 .. Len(s) + 1, NEW x \in Items
      PROVE  Len(InsertAt(s, i, x)) = Len(s) + 1
  <2> DEFINE a == SubSeq(s, 1, i - 1)
             b == <<x>>
             c == SubSeq(s, i, Len(s))
  <2>1. a \in Seq(Items) /\ Len(a) = i - 1
    BY <1>1
  <2>2. c \in Seq(Items) /\ Len(c) = Len(s) - i + 1
    BY <1>1
  <2>3. b \in Seq(Items) /\ Len(b) = 1
    OBVIOUS
  <2>4. InsertAt(s, i, x) = (a \o b) \o c
    BY DEF InsertAt
  <2>i. i \in Nat /\ Len(s) \in Nat
    OBVIOUS
  <2> HIDE DEF a, b, c
  <2>5. a \o b \in Seq(Items) /\ Len(a \o b) = Len(a) + Len(b)
    BY <2>1, <2>3, ConcatProperties
  <2> QED
    <3>1. Len((a \o b) \o c) = Len(a \o b) + Len(c)
      BY <2>2, <2>5, ConcatProperties
    <3> QED
      BY <2>1, <2>2, <2>3, <2>4, <2>5, <2>i, <3>1
<1>3. ASSUME NEW i \in DOMAIN s
      PROVE  Len(RemoveAt(s, i)) = Len(s) - 1
  <2> DEFINE a == SubSeq(s, 1, i - 1)
             c == SubSeq(s, i + 1, Len(s))
  <2>1. a \in Seq(Items) /\ Len(a) = i - 1
    BY <1>1
  <2>2. c \in Seq(Items) /\ Len(c) = Len(s) - i
    BY <1>1
  <2>3. RemoveAt(s, i) = a \o c
    BY DEF RemoveAt
  <2> HIDE DEF a, c
  <2> QED
    BY <2>1, <2>2, <2>3, ConcatProperties
<1> QED
  BY <1>2, <1>3

\* What a round makes of the rounds that are left.
LEMMA RoundTaken ==
  ASSUME PagingTypeOK, AllAtOnce, Rounds, Read
  PROVE  /\ UNCHANGED <<way, list, start, changes>> /\ outcome = "reading"
         /\ RoundsLeft > 0
         /\ outcome' = "reading" => Rounds' /\ RoundsLeft' < RoundsLeft
<1>0. /\ list \in Seq(Items) /\ next \in Nat \ {0} /\ attempts \in 0 .. Attempts
      /\ LongestList \in Nat /\ MaxPages \in Nat
  BY Lengths
<1>1. CASE FollowLink
  <2>1. /\ way = "links" /\ outcome = "reading"
        /\ UNCHANGED <<way, list, start, changes>> /\ LongestList' = LongestList
    BY <1>1 DEF FollowLink, LongestList
  <2>2. CASE next \in visited
    <3>1. RoundsLeft = 1 /\ outcome' = "failed"
      BY <1>1, <2>1, <2>2 DEF RoundsLeft, FollowLink, Ends
    <3> QED
      BY <2>1, <3>1
  <2>3. CASE next \notin visited
    <3>1. RoundsLeft = LongestList + 3 - next /\ next <= LongestList + 1
      BY <2>1, <2>3 DEF RoundsLeft, Rounds
    <3>2. visited' = visited \cup {next}
      BY <1>1, <2>3 DEF FollowLink
    <3>3. CASE outcome' = "reading" /\ next' = next + 1 /\ ~IsLast(next)
      <4>1. next + 1 <= LongestList + 1
        <5>1. next * PageSize < Len(list)
          BY <1>0, <3>3, PageBounds, Lengths DEF IsLast
        <5> QED
          BY <5>1, PagesWithinList
      <4>2. RoundsLeft' = IF next' \in visited' THEN 1 ELSE LongestList + 3 - next'
        BY <2>1 DEF RoundsLeft
      <4> QED
        BY <1>0, <2>1, <3>1, <3>3, <4>1, <4>2 DEF Rounds
    <3>4. CASE next' \in visited \cup {next}
      <4>1. RoundsLeft' = 1
        BY <2>1, <3>2, <3>4 DEF RoundsLeft
      <4> QED
        BY <1>0, <2>1, <3>1, <3>2, <3>4, <4>1 DEF Rounds
    <3>5. CASE outcome' = "whole"
      BY <1>0, <2>1, <3>1, <3>5
    <3> QED
      BY <1>1, <2>1, <2>3, <3>3, <3>4, <3>5 DEF FollowLink
  <2> QED
    BY <2>2, <2>3
<1>2. CASE CountToLimit
  <2>1. /\ way = "limited" /\ outcome = "reading"
        /\ UNCHANGED <<way, list, start, changes>> /\ LongestList' = LongestList
    BY <1>2 DEF CountToLimit, LongestList, history
  <2>2. RoundsLeft = MaxPages + 2 - next /\ RoundsLeft' = MaxPages + 2 - next'
    BY <2>1 DEF RoundsLeft
  <2>3. next <= MaxPages + 1
    BY <2>1 DEF Rounds
  <2>4. outcome' = "reading" => next' = next + 1 /\ ~(next > MaxPages)
    BY <1>2, <2>1 DEF CountToLimit, Ends, AtLimit
  <2> QED
    BY <1>0, <2>1, <2>2, <2>3, <2>4 DEF Rounds
<1>3. CASE Count
  <2>1. /\ way = "unlimited" /\ outcome = "reading"
        /\ UNCHANGED <<way, list, start, changes>> /\ LongestList' = LongestList
    BY <1>3 DEF Count, LongestList, history
  <2>2. RoundsLeft = LongestList + 2 - next /\ RoundsLeft' = LongestList + 2 - next'
    BY <2>1 DEF RoundsLeft
  <2>3. next <= LongestList + 1
    BY <2>1 DEF Rounds
  <2>4. outcome' = "reading" => next' = next + 1 /\ next + 1 <= LongestList + 1
    BY <1>3, <2>1, FullPageIsWithin, PagesWithinList DEF Count, Ends
  <2> QED
    BY <1>0, <2>1, <2>2, <2>3, <2>4 DEF Rounds
<1>4. CASE FirstIsMissing \/ PageFails
  <2>1. /\ way # "gh" /\ outcome = "reading" /\ outcome' # "reading"
        /\ UNCHANGED <<way, list, start, changes>>
    BY <1>4 DEF FirstIsMissing, PageFails, Ends, history
  <2>2. way \in {"links", "limited", "unlimited"}
    BY <2>1, PagingAssumption DEF PagingTypeOK, AllWays
  <2>3. RoundsLeft > 0
    BY <1>0, <2>1, <2>2 DEF RoundsLeft, Rounds
  <2> QED
    BY <2>1, <2>3
<1>5. CASE GhAnswers \/ GhIsLimited
  <2>1. /\ way = "gh" /\ outcome = "reading" /\ UNCHANGED <<way, list, start, changes>>
    BY <1>5 DEF GhAnswers, GhIsLimited, history
  <2>2. RoundsLeft = attempts /\ RoundsLeft' = attempts' /\ attempts > 0
    BY <2>1 DEF RoundsLeft, AllAtOnce
  <2>3. outcome' = "reading" => attempts' = attempts - 1
    BY <1>5 DEF GhAnswers, GhIsLimited, Ends, AttemptsLeft
  <2>4. Rounds'
    BY <2>1 DEF Rounds
  <2> QED
    BY <1>0, <2>1, <2>2, <2>3, <2>4
<1> QED
  BY <1>1, <1>2, <1>3, <1>4, <1>5 DEF Read

LEMMA RoundsStep ==
  ASSUME PagingInvariant, Rounds, [PagingNext]_pagingVars
  PROVE  Rounds'
<1>0. PagingTypeOK /\ AllAtOnce
  BY DEF PagingInvariant
<1>1. CASE Read
  BY <1>0, <1>1, RoundTaken DEF Rounds
<1>2. ASSUME NEW x \in Items, ItemAdded(x)
      PROVE  Rounds'
  <2>1. Len(list') = Len(list) + 1
    BY <1>0, <1>2, ChangedLengths, Lengths DEF ItemAdded
  <2>2. changes' = changes + 1 /\ UNCHANGED <<way, next, visited, outcome, start>>
    BY <1>2 DEF ItemAdded, Changes
  <2> QED
    BY <1>0, <2>1, <2>2, Lengths DEF Rounds, LongestList
<1>3. ASSUME NEW i \in DOMAIN list, ItemRemoved(i)
      PROVE  Rounds'
  <2>1. Len(list') = Len(list) - 1
    BY <1>0, <1>3, ChangedLengths, Lengths DEF ItemRemoved
  <2>2. changes' = changes + 1 /\ UNCHANGED <<way, next, visited, outcome, start>>
    BY <1>3 DEF ItemRemoved, Changes
  <2> QED
    BY <1>0, <2>1, <2>2, Lengths DEF Rounds, LongestList
<1>4. CASE UNCHANGED pagingVars
  BY <1>4 DEF pagingVars, Rounds, LongestList
<1> QED
  BY <1>1, <1>2, <1>3, <1>4 DEF PagingNext, Read

\* However the pages are cut, linked and changed, a round of reading brings the
\* end closer: the half of ReadingEnds that needs no fairness, for any limits.
THEOREM RoundsAreBounded == PagingSpec => RoundsRunOut
<1>1. PagingInit => PagingInvariant /\ Rounds
  BY InitPaging, RoundsStart
<1>2. PagingInvariant /\ Rounds /\ [PagingNext]_pagingVars => PagingInvariant' /\ Rounds'
  BY PagingStep, RoundsStep
<1>3. PagingInvariant /\ Rounds /\ [PagingNext]_pagingVars =>
        [Read => RoundsLeft > 0 /\ (outcome' = "reading" => RoundsLeft' < RoundsLeft)]_pagingVars
  BY RoundTaken DEF PagingInvariant
<1> QED
  BY <1>1, <1>2, <1>3, PTL DEF PagingSpec, RoundsRunOut
=============================================================================
