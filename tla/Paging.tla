-------------------------------- MODULE Paging --------------------------------
(***************************************************************************)
(* How one list is read from a forge, page by page, while it changes: by   *)
(* following the links of the answers (src/src/provider_http.rs for GitHub *)
(* and Bitbucket), by counting pages up to a limit (gitlab.rs), by         *)
(* counting pages without one (forgejo.rs), or by gh, which is called      *)
(* again when it is rate limited (provider.rs).                            *)
(*                                                                         *)
(* The forge cuts the list as it is when a page is asked for into pages of *)
(* its own size.  It may also be confused and link to any page.            *)
(***************************************************************************)
EXTENDS Integers, SequencesExt

CONSTANTS Ways,      \* ways to read a list: subset of AllWays
          Items,
          Contents,  \* lists there may be at the start, without repetitions
          PageSizeAsked,  \* the page size asked for: PAGE_SIZE, limit
          Served,    \* page sizes of forges
          MaxPages,  \* MAX_PAGES
          Attempts,  \* RATE_LIMIT_ATTEMPTS
          MaxChanges,   \* bound on the changes of the list
          Confusing  \* whether forges may send wrong links

AllWays == {"links", "limited", "unlimited", "gh"}

ASSUME PagingAssumption ==
  /\ Ways \subseteq AllWays
  /\ Contents \subseteq Seq(Items) /\ \A l \in Contents : IsInjective(l)
  /\ PageSizeAsked \in Nat \ {0} /\ Served \subseteq Nat \ {0}
  /\ MaxPages \in Nat \ {0} /\ Attempts \in Nat \ {0} /\ MaxChanges \in Nat
  /\ Confusing \in BOOLEAN

VARIABLES
  way, size,   \* how the list is read, and the forge's own page size
  list,        \* the list at the forge
  next,        \* the page to ask for
  visited,     \* the pages asked for so far, by links
  entries,        \* what has been read
  attempts,    \* of gh, left
  outcome,     \* "reading", "whole", "failed", "off"
  changes,     \* history: how often the list has changed
  start,       \* history: the list when reading began
  removed,     \* history: an item has gone from the list
  confused     \* history: the forge has sent a wrong link

pagingVars == <<way, size, list, next, visited, entries, attempts, outcome,
          changes, start, removed, confused>>

history == <<changes, start, removed, confused>>

\* The page size in effect: what is asked for is a most, not a least.
PageSize == IF size < PageSizeAsked THEN size ELSE PageSizeAsked

Page(p) == SubSeq(list, (p - 1) * PageSize + 1,
                  IF p * PageSize < Len(list) THEN p * PageSize ELSE Len(list))

IsLast(p) == Len(list) <= p * PageSize

-----------------------------------------------------------------------------
(* Reading. *)

Ends(how) == outcome' = how /\ UNCHANGED <<next, visited>>

\* One round of paginate_json and paginate_json_link_header.
FollowLink ==
  /\ way = "links" /\ outcome = "reading"
  /\ IF next \in visited THEN Ends("failed") /\ UNCHANGED <<entries, confused>>
     ELSE /\ entries' = entries \o Page(next)
          /\ \/ /\ IF IsLast(next) THEN outcome' = "whole" /\ UNCHANGED next
                   ELSE next' = next + 1 /\ UNCHANGED outcome
                /\ UNCHANGED confused
             \/ /\ Confusing /\ next' \in visited \cup {next}
                /\ confused' = TRUE /\ UNCHANGED outcome
          /\ visited' = visited \cup {next}
  /\ UNCHANGED <<way, size, list, attempts, changes, start, removed>>

\* Mutant: reading stops at what has been read already.
NothingNew(batch) == Len(batch) < PageSizeAsked \/ ToSet(batch) \cap ToSet(entries) # {}

LastBatch(batch) == Len(batch) < PageSizeAsked

\* Mutant: at the limit, what has been read is returned.
LimitIsEnd == "whole"

AtLimit == "failed"

\* One round of paginated in gitlab.rs.
CountToLimit ==
  /\ way = "limited" /\ outcome = "reading"
  /\ IF next > MaxPages THEN Ends(AtLimit) /\ UNCHANGED entries
     ELSE /\ entries' = entries \o Page(next)
          /\ IF LastBatch(Page(next)) THEN Ends("whole")
             ELSE next' = next + 1 /\ UNCHANGED <<visited, outcome>>
  /\ UNCHANGED <<way, size, list, attempts, history>>

\* One round of paginated in forgejo.rs.
Count ==
  /\ way = "unlimited" /\ outcome = "reading"
  /\ entries' = entries \o Page(next)
  /\ IF LastBatch(Page(next)) THEN Ends("whole")
     ELSE next' = next + 1 /\ UNCHANGED <<visited, outcome>>
  /\ UNCHANGED <<way, size, list, attempts, history>>

\* A 404 on the first page says that the feature is off.
FirstIsMissing ==
  /\ way = "unlimited" /\ outcome = "reading" /\ next = 1
  /\ Ends("off")
  /\ UNCHANGED <<way, size, list, entries, attempts, history>>

\* Any other error of any page, or a page that is no array.
PageFails ==
  /\ way # "gh" /\ outcome = "reading"
  /\ Ends("failed")
  /\ UNCHANGED <<way, size, list, entries, attempts, history>>

\* gh api --paginate reads all pages, or fails.
GhAnswers ==
  /\ way = "gh" /\ outcome = "reading"
  /\ \/ entries' = list /\ Ends("whole")
     \/ UNCHANGED entries /\ Ends("failed")
  /\ UNCHANGED <<way, size, list, attempts, history>>

\* Mutant: the last attempt starts over.
AttemptsRenewed == IF attempts = 1 THEN Attempts ELSE attempts - 1

AttemptsLeft == attempts - 1

\* gh is rate limited, and called again after a while if attempts are left.
GhIsLimited ==
  /\ way = "gh" /\ outcome = "reading"
  /\ attempts' = AttemptsLeft
  /\ IF attempts' > 0 THEN UNCHANGED <<outcome, next, visited>> ELSE Ends("failed")
  /\ UNCHANGED <<way, size, list, entries, history>>

-----------------------------------------------------------------------------
(* The list changes meanwhile. *)

Changes ==
  /\ outcome = "reading" /\ changes < MaxChanges
  /\ changes' = changes + 1
  /\ UNCHANGED <<way, size, next, visited, entries, attempts, outcome, start, confused>>

ItemAdded(x) ==
  /\ Changes /\ x \in Items \ (ToSet(list) \cup ToSet(start))
  /\ \E i \in 1 .. Len(list) + 1 : list' = InsertAt(list, i, x)
  /\ UNCHANGED removed

ItemRemoved(i) ==
  /\ Changes /\ i \in DOMAIN list
  /\ list' = RemoveAt(list, i)
  /\ removed' = TRUE

PagingInit ==
  /\ way \in Ways /\ size \in Served /\ list \in Contents
  /\ next = 1 /\ visited = {} /\ entries = << >>
  /\ attempts = Attempts /\ outcome = "reading"
  /\ changes = 0 /\ start = list /\ removed = FALSE /\ confused = FALSE

Read == FollowLink \/ CountToLimit \/ Count \/ FirstIsMissing \/ PageFails
        \/ GhAnswers \/ GhIsLimited

PagingNext ==
  \/ FollowLink \/ CountToLimit \/ Count \/ FirstIsMissing \/ PageFails
  \/ GhAnswers \/ GhIsLimited
  \/ \E x \in Items : ItemAdded(x)
  \/ \E i \in DOMAIN list : ItemRemoved(i)

\* Every request and every command ends within its time limit.
RequestsEnd == WF_pagingVars(Read)

PagingSpec == PagingInit /\ [][PagingNext]_pagingVars /\ RequestsEnd

-----------------------------------------------------------------------------
(* Properties. *)

\* Every variable keeps its kind and its bounds.
PagingTypeOK ==
  /\ way \in Ways /\ size \in Served
  /\ list \in Seq(Items) /\ start \in Contents /\ entries \in Seq(Items)
  /\ next \in Nat \ {0} /\ visited \subseteq Nat \ {0}
  /\ attempts \in 0 .. Attempts
  /\ outcome \in {"reading", "whole", "failed", "off"}
  /\ changes \in 0 .. MaxChanges /\ removed \in BOOLEAN /\ confused \in BOOLEAN

\* The forge honours the page size, where it is relied on.
SizeHonoured == way \in {"limited", "unlimited"} => size >= PageSizeAsked

\* "Incomplete" answers are errors (docs/design.md): a list that stands still
\* is read as it is, every item once and in order, however its pages divide it,
\* or not at all; also at the limit of pages.
WholeOrNothing ==
  outcome = "whole" /\ changes = 0 /\ ~confused /\ SizeHonoured => entries = list

\* "Fetch all open PR pages, so missing labels cannot hide a proposal"
\* (docs/design.md): no item that was there before the first page was read is
\* missed for items that appear between two pages, wherever in the list.
NothingSkipped ==
  outcome = "whole" /\ ~removed /\ ~confused /\ SizeHonoured
    => ToSet(start) \subseteq ToSet(entries)

\* A list that is taken for whole is whole (provider_http.rs, gitlab.rs,
\* forgejo.rs, provider.rs): nothing is missing, twice or out of order for the
\* way it came in pages, and nothing is skipped for what came in between.
WholeIsWhole == PagingTypeOK /\ WholeOrNothing /\ NothingSkipped

\* Reading ends: a forge that links in circles, counts that run away and a rate
\* limit that is not lifted all end in an answer.
ReadingEnds == <>(outcome # "reading")
=============================================================================
