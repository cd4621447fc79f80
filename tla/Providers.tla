------------------------------ MODULE Providers ------------------------------
(***************************************************************************)
(* One poll of one repository by its adapter: which queries it makes, in   *)
(* which order, and what state it makes of their answers                   *)
(* (src/src/provider.rs, gitlab.rs, bitbucket.rs, forgejo.rs).             *)
(*                                                                         *)
(* The forge changes while the queries are under way; each answer shows it *)
(* as it was when that query was answered.  An answer that has failed      *)
(* stands for every reason there is: refused, timed out, limited, or one   *)
(* the code finds incomplete or malformed.  Two answers it does not check: *)
(* a user without a name, and a combined status of Forgejo without (all)   *)
(* its statuses pass for whole.  How one list is read page by page is in   *)
(* Paging.                                                                 *)
(***************************************************************************)
EXTENDS Observations, Sequences

CONSTANTS Kinds,      \* the kinds of remotes
          NoBranch,   \* a repository without a default branch
          NoAnswer,   \* a query that is not answered
          NoPoll,     \* a result that is not there yet
          Commits,
          Names,      \* names of branches, checks and workflow runs
          Pulls,      \* pull requests there may be
          Issues,
          Releases,
          Workflows,  \* repo.release_workflows, a sequence
          Forges,     \* what the forge may hold
          OnlyLabelled  \* repo.issue_labels is not empty

Evidence == {"release label", "Release Please branch", "candidate: title only", "none"}
Pull     == [number : Nat, draft : BOOLEAN, mine : BOOLEAN, evidence : Evidence]
Issue    == [number : Nat, pull : BOOLEAN, labelled : BOOLEAN]
Release  == [tag : Names, draft : BOOLEAN]
CheckRun == [of : Commits, name : Names]      \* also a status and a pipeline
Run      == [name : Names, completed : BOOLEAN]
Workflow == {Workflows[i] : i \in DOMAIN Workflows}

Forge == [default : Names \cup {NoBranch}, head : Commits,
          branches : SUBSET Names, pulls : SUBSET Pulls,
          issues : SUBSET Issues, releases : SUBSET Releases,
          checks : SUBSET CheckRun, statuses : SUBSET CheckRun,
          pipelines : SUBSET CheckRun, runs : [Workflow -> Seq(Run)]]

Lists      == {"branches", "pulls", "issues", "releases"}
NamedQuery == {"repo", "user", "commit", "checks", "statuses", "pipelines"} \cup Lists
Query      == NamedQuery \cup Workflow

ASSUME ProvidersAssumption ==
  /\ Kinds \subseteq {"github", "gitlab", "bitbucket", "forgejo", "local"}
  /\ Pulls \subseteq Pull /\ Issues \subseteq Issue /\ Releases \subseteq Release
  /\ Forges \subseteq Forge
  /\ Workflows \in Seq(STRING)
  /\ \A i, j \in DOMAIN Workflows : Workflows[i] = Workflows[j] => i = j
  /\ Workflow \cap NamedQuery = {}
  /\ OnlyLabelled \in BOOLEAN
  /\ NoBranch \notin Names /\ Nothing \notin Names \cup {NoBranch}

Field == {"default_branch", "branches", "prs", "review_requests", "issues",
          "proposals", "drafts", "published", "ci", "publication"}

VARIABLES
  kind,     \* of the repository's remote
  forge,    \* what the forge holds now
  answer,   \* the answer to each query, if it has come
  result,   \* the state the adapter returns
  during    \* history: what the forge has held since the poll began

vars == <<kind, forge, answer, result, during>>

Ok(d)      == [status |-> "ok", data |-> d]
Partial(d) == [status |-> "part", data |-> d]        \* accepted, though data is missing
Bad        == [status |-> "failed", data |-> Nothing]
Off        == [status |-> "off", data |-> Nothing]   \* 404 for a feature that is off

Answered(q) == answer[q] # NoAnswer
IsOk(q)     == Answered(q) /\ answer[q].status \in {"ok", "part"}
Data(q)     == answer[q].data

-----------------------------------------------------------------------------
(* What the adapters make of one answer. *)

\* release_evidence of provider.rs and of gitlab.rs
ReleaseEvidence(p) == p.evidence # "none"

\* is_pull_request and matches_issue_labels
IsPullRequest(i)      == i.pull
MatchesIssueLabels(i) == OnlyLabelled => i.labelled

\* requested_reviewer, has_matching_reviewer, matching_reviewer_requests: a user
\* without a name reviews nothing
RequestedReviewer(p, login) == login # "" /\ p.mine

Drafts(rows)    == {r \in rows : r.draft}
Published(rows) == {r \in rows : ~r.draft}
Proposals(rows) == {p \in rows : ReleaseEvidence(p)}

\* Mutant: the runs after the latest completed one are dropped as well.
UpToCompleted(runs) ==
  {runs[i] : i \in {j \in DOMAIN runs : \A k \in 1 .. j - 1 : ~runs[k].completed}}

\* Every running attempt, and the latest completed one.
Retained(runs) ==
  {runs[i] : i \in {j \in DOMAIN runs : runs[j].completed =>
                                          \A k \in 1 .. j - 1 : ~runs[k].completed}}

\* observe, observe_response and their likes
Observe(q, data) == IF IsOk(q) THEN Success(data) ELSE Failure(Failed)

\* Mutant: a list that is not there has nothing in it.
NothingIfOff(q, data) == IF answer[q].status = "off" THEN Success({}) ELSE Observe(q, data)

\* The lists of Forgejo, where a feature may be off.
ObserveIfOn(q, data) == IF answer[q].status = "off" THEN Unsupported ELSE Observe(q, data)

\* default_branch, map_project, map_repository
DefaultBranch ==
  IF IsOk("repo") /\ Data("repo") # NoBranch THEN Success(Data("repo")) ELSE Failure(Failed)

-----------------------------------------------------------------------------
(* GitHub: provider.rs. *)

\* The login of the user, if that query was answered and has one.
Login == IF IsOk("user") THEN Data("user") ELSE ""

GithubReviews ==
  Observe("pulls", {p \in Data("pulls") : RequestedReviewer(p, Login)})

GithubIssues ==
  Observe("issues", {i \in Data("issues") : ~IsPullRequest(i) /\ MatchesIssueLabels(i)})

ChecksAndStatuses ==
  IF IsOk("checks") /\ IsOk("statuses") THEN Success(Data("checks") \cup Data("statuses"))
  ELSE Failure(Failed)

GithubCi == IF IsOk("commit") THEN ChecksAndStatuses ELSE Failure(Failed)

Publication ==
  IF Workflow = {} THEN Unsupported
  ELSE IF \A w \in Workflow : IsOk(w)
       THEN Success(UNION {{<<w, r>> : r \in Retained(Data(w))} : w \in Workflow})
       ELSE Failure(Failed)

GithubSnapshot ==
  [default_branch  |-> DefaultBranch,
   branches        |-> Observe("branches", Data("branches")),
   prs             |-> Observe("pulls", Data("pulls")),
   proposals       |-> Observe("pulls", Proposals(Data("pulls"))),
   review_requests |-> GithubReviews,
   issues          |-> GithubIssues,
   drafts          |-> Observe("releases", Drafts(Data("releases"))),
   published       |-> Observe("releases", Published(Data("releases"))),
   ci              |-> GithubCi,
   publication     |-> Publication]

-----------------------------------------------------------------------------
(* GitLab: gitlab.rs. *)

GitlabReviews ==
  IF IsOk("pulls") /\ IsOk("user")
  THEN Success({p \in Data("pulls") : RequestedReviewer(p, Login)})
  ELSE Failure(Failed)

GitlabIssues == Observe("issues", {i \in Data("issues") : MatchesIssueLabels(i)})

GitlabSnapshot ==
  [default_branch  |-> DefaultBranch,
   branches        |-> Observe("branches", Data("branches")),
   prs             |-> Observe("pulls", Data("pulls")),
   proposals       |-> Observe("pulls", Proposals(Data("pulls"))),
   review_requests |-> GitlabReviews,
   issues          |-> GitlabIssues,
   drafts          |-> Observe("pulls", Drafts(Data("pulls"))),
   published       |-> Observe("releases", Data("releases")),
   ci              |-> Observe("pipelines", Data("pipelines")),
   publication     |-> Unsupported]

-----------------------------------------------------------------------------
(* Bitbucket: bitbucket.rs. *)

BitbucketReviews ==
  IF IsOk("pulls") /\ IsOk("user")
  THEN Success({p \in Data("pulls") : RequestedReviewer(p, Login)})
  ELSE Failure(Failed)

BitbucketSnapshot ==
  [default_branch  |-> DefaultBranch,
   branches        |-> Observe("branches", Data("branches")),
   prs             |-> Observe("pulls", Data("pulls")),
   proposals       |-> Success({}),
   review_requests |-> BitbucketReviews,
   issues          |-> Unsupported,
   drafts          |-> Observe("pulls", Drafts(Data("pulls"))),
   published       |-> Unsupported,
   ci              |-> Observe("pipelines", Data("pipelines")),
   publication     |-> Unsupported]

-----------------------------------------------------------------------------
(* Forgejo: forgejo.rs. *)

ForgejoIssues == ObserveIfOn("issues", {i \in Data("issues") : MatchesIssueLabels(i)})

\* The combined status of the head of the default branch, in one answer.
ForgejoCi == IF IsOk("repo") THEN Observe("statuses", Data("statuses")) ELSE Failure(Failed)

ForgejoSnapshot ==
  [default_branch  |-> DefaultBranch,
   branches        |-> ObserveIfOn("branches", Data("branches")),
   prs             |-> ObserveIfOn("pulls", Data("pulls")),
   proposals       |-> ObserveIfOn("pulls", Proposals(Data("pulls"))),
   review_requests |-> Unsupported,
   issues          |-> ForgejoIssues,
   drafts          |-> ObserveIfOn("releases", Drafts(Data("releases"))),
   published       |-> ObserveIfOn("releases", Published(Data("releases"))),
   ci              |-> ForgejoCi,
   publication     |-> Unsupported]

-----------------------------------------------------------------------------
(* The other kinds, and adapters that cannot even ask. *)

UnsupportedSnapshot == [f \in Field |-> Unsupported]

\* failed_snapshot, of gitlab.rs and of bitbucket.rs
GitlabFailed == [f \in Field |-> IF f = "publication" THEN Unsupported ELSE Failure(Failed)]

BitbucketFailed ==
  [f \in Field |-> IF f \in {"publication", "published"} THEN Unsupported ELSE Failure(Failed)]

\* adapter
Snapshot ==
  CASE kind = "github"    -> GithubSnapshot
    [] kind = "gitlab"    -> GitlabSnapshot
    [] kind = "bitbucket" -> BitbucketSnapshot
    [] kind = "forgejo"   -> ForgejoSnapshot
    [] OTHER              -> UnsupportedSnapshot

-----------------------------------------------------------------------------
(* The order of the queries. *)

\* Mutant: a repository that does not answer is asked for nothing else.
ListsIfKnown == IsOk("repo")

\* The lists are asked for together, whatever the first answer was.
ListsAsked == Answered("repo")

GithubAsks(q) ==
  \/ q = "repo"
  \/ q \in Lists \cup {"user"} /\ ListsAsked
  \/ /\ q = "commit" /\ DefaultBranch.data # Nothing
     /\ \A l \in Lists \cup {"user"} : Answered(l)
  \/ q = "checks" /\ IsOk("commit")
  \/ q = "statuses" /\ Answered("checks")
  \/ /\ \A l \in Lists \cup {"user"} : Answered(l)
     /\ \/ DefaultBranch.data = Nothing \/ Answered("statuses")
        \/ Answered("commit") /\ ~IsOk("commit")
     /\ \E i \in DOMAIN Workflows :
          Workflows[i] = q /\ \A j \in 1 .. i - 1 : IsOk(Workflows[j])

GitlabAsks(q) == q \in {"repo", "user", "pipelines"} \cup Lists

BitbucketAsks(q) == q \in {"repo", "user", "pipelines", "branches", "pulls"}

ForgejoAsks(q) ==
  \/ q = "repo"
  \/ q \in Lists /\ Answered("repo")
  \/ q = "statuses" /\ (\A l \in Lists : Answered(l)) /\ DefaultBranch.data # Nothing

Asks(q) ==
  \/ kind = "github" /\ GithubAsks(q)
  \/ kind = "gitlab" /\ GitlabAsks(q)
  \/ kind = "bitbucket" /\ BitbucketAsks(q)
  \/ kind = "forgejo" /\ ForgejoAsks(q)

UnderWay(q) == result = NoPoll /\ Asks(q) /\ ~Answered(q)

\* Mutant: the checks are those of whatever the head is by now.
ChecksOfHead == {c \in forge.checks : c.of = forge.head}

\* GET commits/{sha}/check-runs, with the sha the commit query has found
ChecksFound == {c \in forge.checks : c.of = Data("commit")}

\* What the forge has for a query, when it answers.
Found(q) ==
  CASE q = "repo"      -> forge.default
    [] q = "user"      -> "login"
    [] q = "branches"  -> forge.branches
    [] q = "pulls"     -> forge.pulls
    [] q = "issues"    -> IF kind = "github" THEN forge.issues
                          ELSE {i \in forge.issues : ~IsPullRequest(i)}
    [] q = "releases"  -> forge.releases
    [] q = "commit"    -> forge.head
    [] q = "checks"    -> ChecksFound
    [] q = "statuses"  -> {c \in forge.statuses :
                             c.of = IF kind = "github" THEN Data("commit") ELSE forge.head}
    [] q = "pipelines" -> forge.pipelines
    [] q \in Workflow  -> forge.runs[q]

Answer(q) ==
  /\ UnderWay(q)
  /\ answer' = [answer EXCEPT ![q] = Ok(Found(q))]
  /\ UNCHANGED <<kind, forge, result, during>>

\* What may be missing without the code noticing: the user's name, any of the
\* statuses of Forgejo's combined status (one page is read, and no list there
\* is taken for an empty one).
Incomplete(q) ==
  CASE q = "user" -> {""}
    [] q = "statuses" /\ kind = "forgejo" -> SUBSET Found(q)
    [] OTHER -> {}

AnswerIsPartial(q) ==
  /\ UnderWay(q)
  /\ \E d \in Incomplete(q) : answer' = [answer EXCEPT ![q] = Partial(d)]
  /\ UNCHANGED <<kind, forge, result, during>>

QueryFails(q) ==
  /\ UnderWay(q)
  /\ answer' = [answer EXCEPT ![q] = Bad]
  /\ UNCHANGED <<kind, forge, result, during>>

\* is_not_found on the first page of a list
FeatureIsOff(q) ==
  /\ kind = "forgejo" /\ q \in Lists /\ UnderWay(q)
  /\ answer' = [answer EXCEPT ![q] = Off]
  /\ UNCHANGED <<kind, forge, result, during>>

\* No client can be made: a token that would go over plain HTTP, a project
\* name that is none.  GitHub and Forgejo make a client for each query.
NoClient ==
  /\ result = NoPoll /\ \A q \in Query : ~Answered(q)
  /\ \/ kind = "gitlab" /\ result' = GitlabFailed
     \/ kind = "bitbucket" /\ result' = BitbucketFailed
  /\ UNCHANGED <<kind, forge, answer, during>>

Finish ==
  /\ result = NoPoll /\ \A q \in Query : ~UnderWay(q)
  /\ result' = Snapshot
  /\ UNCHANGED <<kind, forge, answer, during>>

\* Somebody pushes, opens, closes, releases.
ForgeChanges ==
  /\ result = NoPoll
  /\ forge' \in Forges \ {forge}
  /\ during' = during \cup {forge'}
  /\ UNCHANGED <<kind, answer, result>>

Init ==
  /\ kind \in Kinds
  /\ forge \in Forges
  /\ answer = [q \in Query |-> NoAnswer]
  /\ result = NoPoll
  /\ during = {forge}

Next ==
  \/ NoClient \/ Finish \/ ForgeChanges
  \/ \E q \in Query : Answer(q) \/ AnswerIsPartial(q) \/ QueryFails(q) \/ FeatureIsOff(q)

Spec == Init /\ [][Next]_vars

-----------------------------------------------------------------------------
(* Properties. *)

\* Every variable keeps its kind and its bounds.
TypeOK ==
  /\ kind \in Kinds /\ forge \in Forges
  /\ during \subseteq Forges /\ forge \in during
  /\ \A q \in Query : \/ answer[q] \in {NoAnswer, Bad, Off}
                      \/ answer[q].status \in {"ok", "part"}
  /\ result = NoPoll \/ /\ DOMAIN result = Field
                        /\ \A f \in Field : /\ result[f].error \in {NoError, Failed}
                                            /\ result[f].supported \in BOOLEAN

\* What a field of a row is about, at a forge that stands still.
Meaning(f, s) ==
  CASE f = "default_branch"  -> s.default
    [] f = "branches"        -> s.branches
    [] f = "prs"             -> s.pulls
    [] f = "review_requests" -> {p \in s.pulls : p.mine}
    [] f = "issues"          -> {i \in s.issues : ~i.pull /\ (OnlyLabelled => i.labelled)}
    [] f = "proposals"       -> {p \in s.pulls : p.evidence # "none"}
    [] f = "drafts"          -> IF kind \in {"gitlab", "bitbucket"} THEN {p \in s.pulls : p.draft}
                                ELSE {r \in s.releases : r.draft}
    [] f = "published"       -> IF kind = "gitlab" THEN s.releases
                                ELSE {r \in s.releases : ~r.draft}

\* The fields that show data, but for the two that rest on no answer: the
\* reviews of a user no answer has named, and Bitbucket's release proposals.
Shown == {f \in Field : result # NoPoll /\ result[f].data # Nothing}
Unasked ==
  {f \in Field : \/ f = "review_requests" /\ Login = ""
                 \/ kind = "bitbucket" /\ f = "proposals"}

\* "A failed remote query never turns into an empty list" (README.md): what a
\* field shows is what the forge held at some moment of the poll, whichever
\* queries failed, whatever was off, and however the forge changed meanwhile.
HonestSnapshot ==
  \A f \in Shown \ (Unasked \cup {"ci", "publication"}) :
    \E s \in during : result[f].data = Meaning(f, s)

\* "CI ... identifies the observed commit" (docs/design.md): the checks GitHub
\* and Forgejo show are of one commit, which was the head of the default branch
\* during the poll, and no check of it that was there all along is missing,
\* unless Forgejo left it out of its combined status.
ChecksOfOneCommit ==
  kind \in {"github", "forgejo"} /\ "ci" \in Shown =>
    \E s \in during :
      /\ \A c \in result["ci"].data : c.of = s.head
      /\ \A c \in CheckRun :
           /\ c.of = s.head /\ answer["statuses"].status = "ok"
           /\ \/ \A t \in during : c \in t.statuses
              \/ kind = "github" /\ \A t \in during : c \in t.checks
           => c \in result["ci"].data

\* "Retain every running attempt, plus the latest completed attempt"
\* (src/src/provider.rs): a publication that still runs is shown as long as it
\* runs, of every workflow, also when another one has completed since.
RunningIsShown ==
  "publication" \in Shown =>
    \A w \in Workflow :
      \A r \in {q \in [name : Names, completed : {FALSE}] :
                  \A s \in during : \E i \in DOMAIN s.runs[w] : s.runs[w][i] = q} :
        <<w, r>> \in result["publication"].data

\* The queries a field rests on.
Needs(f) ==
  CASE f = "default_branch" -> {"repo"}
    [] f = "branches" -> {"branches"}
    [] f \in {"prs", "proposals"} -> {"pulls"}
    [] f = "review_requests" -> IF kind = "github" THEN {"pulls"} ELSE {"pulls", "user"}
    [] f = "issues" -> {"issues"}
    [] f = "drafts" -> IF kind \in {"gitlab", "bitbucket"} THEN {"pulls"} ELSE {"releases"}
    [] f = "published" -> {"releases"}
    [] f = "ci" -> {"repo", "commit", "checks", "statuses", "pipelines"}
    [] f = "publication" -> Workflow

\* One failed query spoils the fields that rest on it and no other: a row keeps
\* being told of everything the forge still answers, and a feature that is off
\* is no failure.
FailureStaysLocal ==
  result # NoPoll /\ (\E q \in Query : Answered(q)) =>
    \A f \in Field :
      result[f].error # NoError =>
        \/ \E q \in Needs(f) : answer[q] = Bad
        \/ f \in {"default_branch", "ci"} /\ Data("repo") = NoBranch

\* remote_failed of event_loop.rs
RemoteFailed ==
  \E f \in {"default_branch", "prs", "ci"} : result[f].error # NoError

\* A host that answers nothing is polled less and less; one that answers all it
\* is asked is not, whatever features it has turned off.
BackoffIsDeserved ==
  result # NoPoll /\ kind # "local" =>
    /\ (\A q \in Query : ~IsOk(q)) => RemoteFailed
    /\ IsOk("repo") /\ Data("repo") # NoBranch /\ (\A q \in Query : answer[q] # Bad) => ~RemoteFailed

\* A snapshot is a possible one: every field shows what the forge held, the
\* checks are of one commit, and no publication that runs is missing
\* (provider.rs, gitlab.rs, bitbucket.rs, forgejo.rs).
SnapshotIsHonest == TypeOK /\ HonestSnapshot /\ ChecksOfOneCommit /\ RunningIsShown

\* One failed query neither takes other answers along nor makes the row back
\* off more, or less, than the host deserves.
FailuresAreContained == FailureStaysLocal /\ BackoffIsDeserved
=============================================================================
