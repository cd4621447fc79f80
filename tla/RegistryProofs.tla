--------------------------- MODULE RegistryProofs ---------------------------
(***************************************************************************)
(* Theorems about RegistryFile for every set of processes, requests and    *)
(* names.                                                                  *)
(***************************************************************************)
EXTENDS RegistryFile, TLAPS

-----------------------------------------------------------------------------
(* The changes return registries. *)

LEMMA FindRepoType ==
  ASSUME NEW r \in Registry, NEW k
  PROVE  FindRepo(r, k) \subseteq r.repos
BY DEF FindRepo, Only

LEMMA LoadedType ==
  ASSUME NEW r \in Registry
  PROVE  Loaded(r) \in Registry
<1>1. CASE r.active # None /\ Listed(r, r.active) # {}
  <2>1. (CHOOSE w \in Listed(r, r.active) : TRUE) \in Listed(r, r.active)
    BY <1>1
  <2> QED
    BY <1>1, <2>1 DEF Loaded, Listed, Registry
<1>2. CASE ~(r.active # None /\ Listed(r, r.active) # {})
  BY <1>2 DEF Loaded, Registry
<1> QED
  BY <1>1, <1>2

LEMMA WithoutType ==
  ASSUME NEW e \in Entry, NEW w
  PROVE  WithoutWorkspace(e, w) \in Entry
BY DEF WithoutWorkspace, Entry

LEMMA ResultsType ==
  ASSUME NEW r \in Registry, NEW q \in Request
  PROVE  Results(q, r) \subseteq Registry
<1> USE OpsAssumption
<1>1. CASE q.kind = "add"
  <2>1. q.path \in Path
    BY <1>1 DEF Request
  <2>2. \A s : FindWorkspace(r, s) \subseteq Spelling
    BY DEF FindWorkspace, Listed, Registry
  <2>3. ASSUME NEW ws \in SUBSET Spelling
        PROVE  [path |-> q.path, name |-> NameOf[q.path], workspaces |-> ws] \in Entry
    BY <2>1 DEF Entry
  <2>4. Add(r, q.path, q.into) \subseteq Registry
    BY <2>2, <2>3 DEF Add, Registry
  <2> QED
    BY <1>1, <2>4 DEF Results
<1>2. CASE q.kind = "remove"
  <2>1. ASSUME NEW e PROVE [r EXCEPT !.repos = @ \ {e}] \in Registry
    BY DEF Registry
  <2>2. Remove(r, q.key) \subseteq Registry
    BY <2>1 DEF Remove
  <2> QED
    BY <1>2, <2>2 DEF Results
<1>3. CASE q.kind = "create"
  <2>1. q.name \in Spelling
    BY <1>3 DEF Request
  <2> QED
    BY <1>3, <2>1 DEF Results, CreateWorkspace, Registry
<1>4. CASE q.kind = "delete"
  <2> DEFINE repos(w)  == {WithoutWorkspace(e, w) : e \in r.repos}
             active(w) == IF r.active # None /\ SameWorkspace(r.active, w)
                          THEN None ELSE r.active
             after(w)  == [r EXCEPT !.workspaces = r.workspaces \ {w},
                                    !.repos = repos(w), !.active = active(w)]
  <2>1. ASSUME NEW w PROVE after(w) \in Registry
    <3>1. repos(w) \in SUBSET Entry
      BY WithoutType DEF Registry
    <3>2. active(w) \in Spelling \cup {None}
      BY DEF Registry
    <3> HIDE DEF repos, active
    <3> QED
      BY <3>1, <3>2 DEF Registry
  <2>2. Results(q, r) = {after(w) : w \in FindWorkspace(r, q.name)}
    BY <1>4 DEF Results, DeleteWorkspace
  <2> HIDE DEF after
  <2> QED
    BY <2>1, <2>2
<1>5. CASE q.kind = "join"
  <2>1. \A w \in FindWorkspace(r, q.name) : w \in Spelling
    BY DEF FindWorkspace, Listed, Registry
  <2>2. ASSUME NEW e \in Entry, NEW w \in Spelling PROVE Joined(e, w) \in Entry
    BY DEF Joined, Entry
  <2>3. AddMany(r, q.name, q.keys) \subseteq Registry
    BY <2>1, <2>2 DEF AddMany, Registry
  <2> QED
    BY <1>5, <2>3 DEF Results
<1>6. CASE q.kind = "leave"
  BY <1>6, WithoutType DEF Results, RemoveMany, Registry
<1>7. CASE q.kind = "activate"
  <2>1. ASSUME NEW w \in Spelling \cup {None} PROVE [r EXCEPT !.active = w] \in Registry
    BY DEF Registry
  <2>2. FindWorkspace(r, q.name) \subseteq Spelling
    BY DEF FindWorkspace, Listed, Registry
  <2>3. SetActive(r, q.name) \subseteq Registry
    BY <2>1, <2>2 DEF SetActive
  <2> QED
    BY <1>7, <2>3 DEF Results
<1>8. CASE q.kind = "set account"
  <2>1. [host |-> q.host, provider |-> q.provider] \in Account
    BY <1>8 DEF Request, Account
  <2> DEFINE accounts == {a \in r.accounts : a.host # q.host}
                           \cup {[host |-> q.host, provider |-> q.provider]}
  <2>2. accounts \in SUBSET Account
    BY <2>1 DEF Registry
  <2>3. Results(q, r) = {[r EXCEPT !.accounts = accounts]}
    BY <1>8 DEF Results, SetAccount
  <2> HIDE DEF accounts
  <2> QED
    BY <2>2, <2>3 DEF Registry
<1>9. CASE q.kind = "remove account"
  BY <1>9 DEF Results, RemoveAccount, Registry
<1> QED
  BY <1>1, <1>2, <1>3, <1>4, <1>5, <1>6, <1>7, <1>8, <1>9 DEF Request

-----------------------------------------------------------------------------
(* The changes keep a registry consistent: load repairs only the selection.   *)

Consistent(r) ==
  /\ UniqueEntries(r)
  /\ \A e \in r.repos : e.workspaces \subseteq r.workspaces
  /\ \A w \in r.workspaces : ValidName(w)

LEMMA LoadedSound ==
  ASSUME NEW r \in Registry, Consistent(r)
  PROVE  Consistent(Loaded(r)) /\ NoDanglingName(Loaded(r))
<1> DEFINE l == Loaded(r)
<1>1. l.repos = r.repos /\ l.workspaces = r.workspaces /\ l.accounts = r.accounts
  BY DEF Loaded, Registry
<1>2. l.active # None => l.active \in r.workspaces
  <2>1. CASE r.active # None /\ Listed(r, r.active) # {}
    <3>1. (CHOOSE w \in Listed(r, r.active) : TRUE) \in r.workspaces
      BY <2>1 DEF Listed
    <3> QED
      BY <2>1, <3>1 DEF Loaded, Registry
  <2>2. CASE ~(r.active # None /\ Listed(r, r.active) # {})
    BY <2>2 DEF Loaded, Registry
  <2> QED
    BY <2>1, <2>2
<1> HIDE DEF l
<1>3. Consistent(l) /\ NoDanglingName(l)
  BY <1>1, <1>2 DEF Consistent, UniqueEntries, NoDanglingName
<1> QED
  BY <1>3 DEF l

\* Replacing entries one for one, each keeping its path, keeps paths unique.
LEMMA MappedEntries ==
  ASSUME NEW r \in Registry, Consistent(r), NEW f, NEW x \in Registry,
         \A e \in r.repos : f[e].path = e.path /\ f[e].workspaces \subseteq x.workspaces,
         x.repos = {f[e] : e \in r.repos},
         x.workspaces \subseteq r.workspaces, x.accounts = r.accounts
  PROVE  Consistent(x)
<1>1. \A e, g \in x.repos : e.path = g.path => e = g
  BY DEF Consistent, UniqueEntries
<1>2. \A e \in x.repos : e.workspaces \subseteq x.workspaces
  OBVIOUS
<1> QED
  BY <1>1, <1>2 DEF Consistent, UniqueEntries

LEMMA ChangesKeepConsistent ==
  ASSUME NEW r \in Registry, Consistent(r), NEW q \in Request, NEW x \in Results(q, r)
  PROVE  Consistent(x)
<1> USE OpsAssumption
<1>0. x \in Registry
  BY ResultsType
<1>1. CASE q.kind = "add"
  <2>1. PICK ws : /\ x = [r EXCEPT !.repos = @ \cup
                            {[path |-> q.path, name |-> NameOf[q.path], workspaces |-> ws]}]
                  /\ \A e \in r.repos : e.path # q.path
                  /\ ws \subseteq r.workspaces
    BY <1>1 DEF Results, Add, FindWorkspace, Listed
  <2> DEFINE new == [path |-> q.path, name |-> NameOf[q.path], workspaces |-> ws]
  <2>2. /\ x.repos = r.repos \cup {new}
        /\ x.workspaces = r.workspaces /\ x.accounts = r.accounts
    BY <2>1 DEF Registry
  <2>3. new.path = q.path /\ new.workspaces = ws
    OBVIOUS
  <2> HIDE DEF new
  <2> QED
    BY <2>1, <2>2, <2>3 DEF Consistent, UniqueEntries
<1>2. CASE q.kind = "remove"
  <2>1. PICK e : x = [r EXCEPT !.repos = @ \ {e}]
    BY <1>2 DEF Results, Remove
  <2>2. x.repos \subseteq r.repos /\ x.workspaces = r.workspaces /\ x.accounts = r.accounts
    BY <2>1 DEF Registry
  <2> QED
    BY <2>2 DEF Consistent, UniqueEntries
<1>3. CASE q.kind = "create"
  <2>1. x = [r EXCEPT !.workspaces = @ \cup {q.name}] /\ ValidName(q.name) /\ Listed(r, q.name) = {}
    BY <1>3 DEF Results, CreateWorkspace
  <2>2. x.repos = r.repos /\ x.workspaces = r.workspaces \cup {q.name} /\ x.accounts = r.accounts
    BY <2>1 DEF Registry
  <2> QED
    BY <2>1, <2>2 DEF Consistent, UniqueEntries, Listed, SameWorkspace
<1>4. CASE q.kind = "delete"
  <2>1. PICK w \in FindWorkspace(r, q.name) :
          x = [r EXCEPT !.workspaces = @ \ {w},
                        !.repos = {WithoutWorkspace(e, w) : e \in @},
                        !.active = IF @ # None /\ SameWorkspace(@, w) THEN None ELSE @]
    BY <1>4 DEF Results, DeleteWorkspace
  <2>2. /\ x.repos = {WithoutWorkspace(e, w) : e \in r.repos}
        /\ x.workspaces = r.workspaces \ {w} /\ x.accounts = r.accounts
    BY <2>1 DEF Registry
  <2>3. ASSUME NEW e \in r.repos
        PROVE  /\ WithoutWorkspace(e, w).path = e.path
               /\ WithoutWorkspace(e, w).workspaces \subseteq x.workspaces
    BY <2>2 DEF WithoutWorkspace, SameWorkspace, Registry, Entry, Consistent
  <2> DEFINE f == [e \in r.repos |-> WithoutWorkspace(e, w)]
  <2>4. \A e \in r.repos : f[e].path = e.path /\ f[e].workspaces \subseteq x.workspaces
    BY <2>3
  <2>5. x.repos = {f[e] : e \in r.repos}
    BY <2>2
  <2> HIDE DEF f
  <2> QED
    BY <1>0, <2>2, <2>4, <2>5, MappedEntries
<1>5. CASE q.kind = "join"
  <2>1. PICK w \in FindWorkspace(r, q.name) :
          x = [r EXCEPT !.repos = {IF e \in Chosen(r, q.keys) THEN Joined(e, w) ELSE e : e \in @}]
    BY <1>5 DEF Results, AddMany
  <2>2. w \in r.workspaces
    BY DEF FindWorkspace, Listed
  <2> DEFINE f == [e \in r.repos |-> IF e \in Chosen(r, q.keys) THEN Joined(e, w) ELSE e]
  <2>3. x.repos = {f[e] : e \in r.repos} /\ x.workspaces = r.workspaces /\ x.accounts = r.accounts
    BY <2>1 DEF Registry
  <2>4. \A e \in r.repos : f[e].path = e.path /\ f[e].workspaces \subseteq x.workspaces
    BY <2>2, <2>3 DEF Joined, Registry, Entry, Consistent
  <2> HIDE DEF f
  <2> QED
    BY <1>0, <2>3, <2>4, MappedEntries
<1>6. CASE q.kind = "leave"
  <2>1. PICK w \in FindWorkspace(r, q.name) :
          x = [r EXCEPT !.repos = {IF e \in Chosen(r, q.keys)
                                   THEN WithoutWorkspace(e, w) ELSE e : e \in @}]
    BY <1>6 DEF Results, RemoveMany
  <2> DEFINE f == [e \in r.repos |-> IF e \in Chosen(r, q.keys) THEN WithoutWorkspace(e, w) ELSE e]
  <2>2. x.repos = {f[e] : e \in r.repos} /\ x.workspaces = r.workspaces /\ x.accounts = r.accounts
    BY <2>1 DEF Registry
  <2>3. \A e \in r.repos : f[e].path = e.path /\ f[e].workspaces \subseteq x.workspaces
    BY <2>2 DEF WithoutWorkspace, Registry, Entry, Consistent
  <2> HIDE DEF f
  <2> QED
    BY <1>0, <2>2, <2>3, MappedEntries
<1>7. CASE q.kind = "activate"
  <2>1. PICK w : x = [r EXCEPT !.active = w]
    BY <1>7 DEF Results, SetActive
  <2>2. x.repos = r.repos /\ x.workspaces = r.workspaces /\ x.accounts = r.accounts
    BY <2>1 DEF Registry
  <2> QED
    BY <2>2 DEF Consistent, UniqueEntries
<1>8. CASE q.kind \in {"set account", "remove account"}
  <2>1. x.repos = r.repos /\ x.workspaces = r.workspaces
    BY <1>8 DEF Results, SetAccount, RemoveAccount, Registry
  <2> DEFINE new == [host |-> q.host, provider |-> q.provider]
  <2>2. \/ x.accounts \subseteq r.accounts
        \/ x.accounts = {a \in r.accounts : a.host # q.host} \cup {new}
    BY <1>8 DEF Results, SetAccount, RemoveAccount, Registry
  <2>3. new.host = q.host
    OBVIOUS
  <2> HIDE DEF new
  <2>4. \A a, b \in x.accounts : a.host = b.host => a = b
    BY <2>2, <2>3 DEF Consistent, UniqueEntries
  <2> QED
    BY <2>1, <2>4 DEF Consistent, UniqueEntries
<1> QED
  BY <1>1, <1>2, <1>3, <1>4, <1>5, <1>6, <1>7, <1>8 DEF Request

-----------------------------------------------------------------------------
(* The update protocol. *)

LEMMA EmptyType == Empty \in Registry /\ Consistent(Empty)
BY DEF Empty, Registry, Consistent, UniqueEntries

LEMMA TypeStep ==
  ASSUME TypeOK, SerialInv, [Next]_vars
  PROVE  TypeOK'
<1> USE FileAssumption, EmptyType DEF TypeOK, Goto
<1>1. ASSUME NEW p \in Process, Ask(p) PROVE TypeOK'
  BY <1>1 DEF Ask, Label
<1>2. ASSUME NEW p \in Process, TryLock(p) PROVE TypeOK'
  BY <1>2 DEF TryLock, CanLock, Label
<1>3. ASSUME NEW p \in Process, Load(p) PROVE TypeOK'
  <2>1. Loaded(file.reg) \in Registry
    BY <1>3, LoadedType DEF Load
  <2> QED
    BY <1>3, <2>1 DEF Load, Label
<1>4. ASSUME NEW p \in Process, Change(p) PROVE TypeOK'
  <2>1. request[p] \in Request
    BY <1>4 DEF Change, SerialInv, Serial
  <2>2. Results(request[p], memory[p]) \subseteq Registry
    BY <2>1, ResultsType
  <2> QED
    BY <1>4, <2>2 DEF Change, Label
<1>5. ASSUME NEW p \in Process, Write(p) PROVE TypeOK'
  BY <1>5 DEF Write, Label, Content
<1>6. ASSUME NEW p \in Process, Sync(p) PROVE TypeOK'
  <2>1. temp[p] = [reg |-> memory[p], synced |-> FALSE]
    BY <1>6 DEF Sync, SerialInv, Serial
  <2>2. [reg |-> temp[p].reg, synced |-> TRUE] \in Content
    BY <2>1 DEF Content
  <2> QED
    BY <1>6, <2>2 DEF Sync, Label
<1>7. ASSUME NEW p \in Process, Persist(p) PROVE TypeOK'
  <2>1. temp[p] = [reg |-> memory[p], synced |-> TRUE]
    BY <1>7 DEF Persist, SerialInv, Serial
  <2> QED
    BY <1>7, <2>1 DEF Persist, Label, Content
<1>8. ASSUME NEW p \in Process, Fail(p) \/ Return(p) \/ Die(p) PROVE TypeOK'
  BY <1>8 DEF Fail, Return, Die, Clear, Unlock, Label
<1>9. CASE PowerLoss
  BY <1>9 DEF PowerLoss, Label
<1>10. CASE Edit
  BY <1>10 DEF Edit, Edits, Registry
<1>11. CASE UNCHANGED vars
  BY <1>11 DEF vars
<1> QED
  BY <1>1, <1>2, <1>3, <1>4, <1>5, <1>6, <1>7, <1>8, <1>9, <1>10, <1>11 DEF Next, Step

\* The lock file admits one update, and only its holder's exit frees it.
LEMMA OneUpdateStep ==
  ASSUME TypeOK, OneUpdateAtATime, [Next]_vars
  PROVE  OneUpdateAtATime'
<1> USE FileAssumption DEF TypeOK, OneUpdateAtATime, Updating
<1>1. ASSUME NEW p \in Process, Ask(p) \/ Load(p) \/ Change(p) \/ Write(p) \/ Sync(p) \/ Persist(p)
                                \/ Fail(p)
      PROVE  OneUpdateAtATime'
  BY <1>1 DEF Ask, Load, Change, Write, Sync, Persist, Fail, Goto
<1>2. ASSUME NEW p \in Process, TryLock(p) PROVE OneUpdateAtATime'
  BY <1>2 DEF TryLock, CanLock, Goto
<1>3. ASSUME NEW p \in Process, Return(p) \/ Die(p) PROVE OneUpdateAtATime'
  BY <1>3 DEF Return, Die, Clear, Unlock
<1>4. CASE PowerLoss
  BY <1>4 DEF PowerLoss
<1>5. CASE Edit \/ UNCHANGED vars
  BY <1>5 DEF Edit, vars
<1> QED
  BY <1>1, <1>2, <1>3, <1>4, <1>5 DEF Next, Step

\* What the holder of the lock computed is computed from the file as it is.
\* A step that leaves the file and a process's own state alone keeps this.
LEMMA SerialUnchanged ==
  ASSUME NEW o \in Process, Serial(o), file' = file,
         pc'[o] = pc[o], request'[o] = request[o], memory'[o] = memory[o],
         temp'[o] = temp[o], outcome'[o] = outcome[o]
  PROVE  Serial(o)'
BY DEF Serial

LEMMA SerialStep ==
  ASSUME TypeOK, OneUpdateAtATime, SerialInv, [Next]_vars
  PROVE  SerialInv'
<1> USE FileAssumption DEF Goto
<1>1. ASSUME NEW p \in Process, Ask(p) \/ Step(p) \/ Die(p),
             Serial(p)', file' = file
      PROVE  SerialInv'
  <2>1. ASSUME NEW o \in Process, o # p
        PROVE  /\ pc'[o] = pc[o] /\ request'[o] = request[o] /\ memory'[o] = memory[o]
               /\ temp'[o] = temp[o] /\ outcome'[o] = outcome[o]
    <3>1. CASE Ask(p) \/ TryLock(p) \/ Load(p) \/ Change(p)
      BY <2>1, <3>1 DEF TypeOK, Ask, TryLock, Load, Change
    <3>2. CASE Write(p) \/ Sync(p) \/ Persist(p) \/ Fail(p) \/ Return(p) \/ Die(p)
      BY <2>1, <3>2 DEF TypeOK, Write, Sync, Persist, Fail, Return, Die, Clear, Unlock
    <3> QED
      BY <1>1, <3>1, <3>2 DEF Step
  <2>2. ASSUME NEW o \in Process, o # p PROVE Serial(o)'
    <3>1. Serial(o)
      BY DEF SerialInv
    <3> QED
      BY <1>1, <2>1, <2>2, <3>1, SerialUnchanged
  <2> QED
    BY <1>1, <2>2 DEF SerialInv
<1>2. ASSUME NEW p \in Process, Ask(p) PROVE SerialInv'
  <2>1. Serial(p)' /\ file' = file
    BY <1>2 DEF Ask, SerialInv, Serial, TypeOK
  <2> QED
    BY <1>1, <1>2, <2>1
<1>3. ASSUME NEW p \in Process, TryLock(p) \/ Load(p) \/ Change(p) PROVE SerialInv'
  <2>1. Serial(p)' /\ file' = file
    <3>1. CASE TryLock(p)
      BY <3>1 DEF TryLock, SerialInv, Serial, TypeOK
    <3>2. CASE Load(p)
      BY <3>2 DEF Load, SerialInv, Serial, TypeOK
    <3>3. CASE Change(p)
      BY <3>3 DEF Change, SerialInv, Serial, TypeOK
    <3> QED
      BY <1>3, <3>1, <3>2, <3>3
  <2> QED
    BY <1>1, <1>3, <2>1 DEF Step
<1>4. ASSUME NEW p \in Process, Write(p) \/ Sync(p) PROVE SerialInv'
  <2>1. Serial(p)' /\ file' = file
    <3>1. CASE Write(p)
      BY <3>1 DEF Write, SerialInv, Serial, TypeOK
    <3>2. CASE Sync(p)
      <4>1. temp[p] = [reg |-> memory[p], synced |-> FALSE] /\ Serial(p)
        BY <3>2 DEF Sync, SerialInv, Serial
      <4>2. temp'[p] = [reg |-> memory'[p], synced |-> TRUE] /\ pc'[p] = "persist"
        BY <3>2, <4>1 DEF Sync, TypeOK
      <4> QED
        BY <3>2, <4>1, <4>2 DEF Sync, Serial
    <3> QED
      BY <1>4, <3>1, <3>2
  <2> QED
    BY <1>1, <1>4, <2>1 DEF Step
<1>5. ASSUME NEW p \in Process, Fail(p) \/ Return(p) \/ Die(p) PROVE SerialInv'
  <2>1. Serial(p)' /\ file' = file
    <3>1. CASE Fail(p)
      <4>1. Serial(p) /\ request' = request /\ pc[p] # "idle"
        BY <3>1 DEF Fail, SerialInv
      <4>2. pc'[p] = "return" /\ outcome'[p] = "refused" /\ file' = file
        BY <3>1 DEF Fail, TypeOK
      <4> QED
        BY <4>1, <4>2 DEF Serial
    <3>2. CASE Return(p) \/ Die(p)
      <4>1. pc'[p] = "idle" /\ outcome'[p] = "none" /\ request'[p] = NoRequest /\ file' = file
        BY <3>2 DEF Return, Die, Clear, Unlock, TypeOK
      <4> QED
        BY <4>1 DEF Serial
    <3> QED
      BY <1>5, <3>1, <3>2
  <2> QED
    BY <1>1, <1>5, <2>1 DEF Step
<1>6. ASSUME NEW p \in Process, Persist(p) PROVE SerialInv'
  <2>1. temp[p] = [reg |-> memory[p], synced |-> TRUE] /\ memory[p] \in Registry
    BY <1>6 DEF Persist, SerialInv, Serial, TypeOK
  <2>2. file'.reg # Torn /\ file'.synced
    BY <1>6, <2>1 DEF Persist
  <2>3. ASSUME NEW o \in Process PROVE Serial(o)'
    <3>1. CASE o = p
      BY <1>6, <3>1 DEF Persist, SerialInv, Serial, TypeOK
    <3>2. CASE o # p
      <4>1. ~Updating(o)
        BY <1>6, <3>2 DEF Persist, OneUpdateAtATime, Updating
      <4> QED
        BY <1>6, <3>2, <4>1 DEF Persist, SerialInv, Serial, Updating, TypeOK
    <3> QED
      BY <3>1, <3>2
  <2> QED
    BY <2>2, <2>3 DEF SerialInv
<1>7. CASE PowerLoss
  BY <1>7 DEF PowerLoss, SerialInv, Serial
<1>8. CASE Edit
  <2>1. file'.reg # Torn /\ file'.synced
    <3>1. PICK r \in Edits(file.reg) : file' = [reg |-> r, synced |-> TRUE]
      BY <1>8 DEF Edit
    <3>2. PICK s \in Spelling : r = [file.reg EXCEPT !.active = s]
      BY <3>1 DEF Edits
    <3>3. file.reg \in Registry
      BY DEF TypeOK, SerialInv
    <3>4. r \in Registry
      BY <3>2, <3>3 DEF Registry
    <3>5. r # Torn
      BY <3>4
    <3> QED
      BY <3>1, <3>5
  <2>2. ASSUME NEW o \in Process PROVE Serial(o)'
    BY <1>8 DEF Edit, SerialInv, Serial
  <2> QED
    BY <2>1, <2>2 DEF SerialInv
<1>9. CASE UNCHANGED vars
  BY <1>9 DEF vars, SerialInv, Serial
<1> QED
  BY <1>2, <1>3, <1>4, <1>5, <1>6, <1>7, <1>8, <1>9 DEF Next, Step

UpdateInv == TypeOK /\ OneUpdateAtATime /\ SerialInv

\* Types, mutual exclusion and freshness hold together.
THEOREM UpdateCorrect == Spec => []UpdateInv
<1>1. Init => UpdateInv
  BY FileAssumption, EmptyType
     DEF Init, UpdateInv, TypeOK, OneUpdateAtATime, Updating, SerialInv, Serial, Label, Content
<1>2. UpdateInv /\ [Next]_vars => UpdateInv'
  BY TypeStep, OneUpdateStep, SerialStep DEF UpdateInv
<1> QED
  BY <1>1, <1>2, PTL DEF Spec

\* No two processes are ever inside registry::update at the same time.
THEOREM OneUpdate == Spec => []OneUpdateAtATime
<1>1. UpdateInv => OneUpdateAtATime
  BY DEF UpdateInv
<1> QED
  BY <1>1, UpdateCorrect, PTL

\* Neither a dying process nor a power failure leaves a torn registry.
THEOREM RegistryNeverTorn == Spec => []NeverTorn
<1>1. UpdateInv => NeverTorn
  BY DEF UpdateInv, SerialInv, NeverTorn
<1> QED
  BY <1>1, UpdateCorrect, PTL

\* What a process loads, changes, writes and renames is a registry throughout,
\* also after failures in between, deaths, power failures and edits by hand.
THEOREM RegistryTypes == Spec => []TypeOK
<1>1. UpdateInv => TypeOK
  BY DEF UpdateInv
<1> QED
  BY <1>1, UpdateCorrect, PTL

-----------------------------------------------------------------------------
(* Soundness of the registry that is read. *)

LEMMA ConsistentStep ==
  ASSUME UpdateInv, Consistent(file.reg), [Next]_vars
  PROVE  Consistent(file.reg)'
<1> USE DEF UpdateInv
<1>1. ASSUME file' = file PROVE Consistent(file.reg)'
  BY <1>1 DEF Consistent
<1>2. ASSUME NEW p \in Process, Persist(p) PROVE Consistent(file.reg)'
  <2>1. pc[p] = "persist" /\ file' = temp[p]
    BY <1>2 DEF Persist
  <2>2. /\ temp[p] = [reg |-> memory[p], synced |-> TRUE]
        /\ memory[p] \in Results(request[p], Loaded(file.reg))
        /\ request[p] # NoRequest
    BY <2>1 DEF SerialInv, Serial
  <2>3. request[p] \in Request /\ file.reg \in Registry
    BY <2>2, FileAssumption DEF TypeOK, SerialInv
  <2>4. Loaded(file.reg) \in Registry /\ Consistent(Loaded(file.reg))
    BY <2>3, LoadedType, LoadedSound
  <2>5. Consistent(memory[p])
    BY <2>2, <2>3, <2>4, ChangesKeepConsistent
  <2>6. file'.reg = memory[p]
    BY <2>1, <2>2
  <2> QED
    BY <2>5, <2>6
<1>3. CASE PowerLoss
  BY <1>1, <1>3 DEF PowerLoss, SerialInv
<1>4. CASE Edit
  <2>1. PICK s \in Spelling : file'.reg = [file.reg EXCEPT !.active = s]
    BY <1>4 DEF Edit, Edits
  <2>2. file.reg \in Registry
    BY <1>4 DEF Edit, TypeOK
  <2>3. /\ file'.reg.repos = file.reg.repos /\ file'.reg.workspaces = file.reg.workspaces
        /\ file'.reg.accounts = file.reg.accounts
    BY <2>1, <2>2 DEF Registry
  <2> QED
    BY <2>3 DEF Consistent, UniqueEntries
<1>5. ASSUME NEW p \in Process, Ask(p) \/ Die(p) \/ (Step(p) /\ ~Persist(p))
      PROVE  Consistent(file.reg)'
  BY <1>1, <1>5 DEF Ask, Die, Step, TryLock, Load, Change, Write, Sync, Fail, Return, Clear, Unlock
<1> QED
  BY <1>1, <1>2, <1>3, <1>4, <1>5 DEF Next, vars

THEOREM FileConsistent == Spec => []Consistent(file.reg)
<1>1. Init => Consistent(file.reg)
  BY EmptyType DEF Init
<1> QED
  BY <1>1, UpdateCorrect, ConsistentStep, PTL DEF Spec

\* Whatever requests are made, however they interleave and wherever they fail,
\* no checkout is registered twice, no workspace is listed under two spellings
\* and no host has two accounts.
THEOREM RegistryHasNoDuplicates == Spec => []NoDuplicates
<1>1. Consistent(file.reg) => NoDuplicates
  BY DEF Consistent, NoDuplicates
<1> QED
  BY <1>1, FileConsistent, PTL

\* And in what a process loads, every membership and the selection name a
\* listed workspace, exactly as it is spelled there.
THEOREM LoadedNothingDangles == Spec => []NothingDangles
<1>1. UpdateInv /\ Consistent(file.reg) => NothingDangles
  <2> SUFFICES ASSUME UpdateInv, Consistent(file.reg) PROVE NoDanglingName(Loaded(file.reg))
    BY DEF NothingDangles
  <2>1. file.reg \in Registry
    BY DEF UpdateInv, TypeOK, SerialInv
  <2> QED
    BY <2>1, LoadedSound
<1> QED
  BY <1>1, UpdateCorrect, FileConsistent, PTL

-----------------------------------------------------------------------------
(* The changes keep what is promised of each request. *)

\* A selector that is found means one checkout.
LEMMA FoundOne ==
  ASSUME NEW r \in Registry, Consistent(r), NEW key \in Path \cup Name, FindRepo(r, key) # {}
  PROVE  \E e \in r.repos : FindRepo(r, key) = {e} /\ Called(r, key) = {e.path}
<1> DEFINE ids   == {e \in r.repos : e.path = key}
           names == {e \in r.repos : e.name = key}
<1>1. \A e \in r.repos : e.path \in Path /\ e.name \in Name
  BY DEF Registry, Entry
<1>2. ids = {} \/ names = {}
  BY <1>1, OpsAssumption
<1>3. \A S : Only(S) # {} => \E e \in S : S = {e} /\ Only(S) = {e}
  BY DEF Only
<1>4. FindRepo(r, key) = IF ids # {} THEN Only(ids) ELSE Only(names)
  BY DEF FindRepo
<1>s. ids \subseteq r.repos /\ names \subseteq r.repos
  OBVIOUS
<1>6. Called(r, key) = {x.path : x \in ids \cup names}
  BY DEF Called
<1> HIDE DEF ids, names
<1>5. PICK e \in r.repos : ids \cup names = {e} /\ FindRepo(r, key) = {e}
  <2>1. CASE ids # {}
    <3>1. Only(ids) # {} /\ names = {}
      BY <1>2, <1>4, <2>1
    <3> QED
      BY <1>3, <1>4, <1>s, <2>1, <3>1
  <2>2. CASE ids = {}
    <3>1. Only(names) # {}
      BY <1>4, <2>2
    <3> QED
      BY <1>3, <1>4, <1>s, <2>2, <3>1
  <2> QED
    BY <2>1, <2>2
<1> QED
  BY <1>5, <1>6

\* So a list of them that are all found means the entries that are changed.
LEMMA ChosenAreSelected ==
  ASSUME NEW r \in Registry, Consistent(r), NEW keys \in SUBSET (Path \cup Name), AllFound(r, keys)
  PROVE  /\ \A k \in keys : Unambiguous(r, k)
         /\ \A e \in r.repos : e \in Chosen(r, keys) <=> e.path \in Selected(r, keys)
         /\ Selected(r, keys) \subseteq {e.path : e \in r.repos}
<1>1. \A k \in keys : \E e \in r.repos : FindRepo(r, k) = {e} /\ Called(r, k) = {e.path}
  BY FoundOne DEF AllFound
<1>2. \A e \in r.repos : e.path \in Path
  BY DEF Registry, Entry
<1>3. \A d, e \in r.repos : d.path = e.path => d = e
  BY DEF Consistent, UniqueEntries
<1>4. \A k \in keys : Unambiguous(r, k)
  BY <1>1, <1>2 DEF Unambiguous
<1>5. ASSUME NEW e \in r.repos
      PROVE  e \in Chosen(r, keys) <=> e.path \in Selected(r, keys)
  <2>1. \A k \in keys : e \in FindRepo(r, k) <=> e.path \in Called(r, k)
    BY <1>1, <1>3
  <2> QED
    BY <2>1 DEF Chosen, Selected
<1>6. Selected(r, keys) \subseteq {e.path : e \in r.repos}
  BY DEF Selected, Called
<1> QED
  BY <1>4, <1>5, <1>6

\* Replacing entries one for one leaves the roster; the members are as they say.
LEMMA MappedMembers ==
  ASSUME NEW r \in Registry, NEW x, NEW f, x.repos = {f[e] : e \in r.repos},
         \A e \in r.repos : f[e].path = e.path /\ f[e].name = e.name
  PROVE  /\ Roster(x) = Roster(r)
         /\ \A v : Members(x, v) =
              {e.path : e \in {y \in r.repos : \E m \in f[y].workspaces : SameWorkspace(m, v)}}
<1>1. Roster(x) = Roster(r)
  BY DEF Roster
<1>2. ASSUME NEW v
      PROVE  Members(x, v) =
               {e.path : e \in {y \in r.repos : \E m \in f[y].workspaces : SameWorkspace(m, v)}}
  BY DEF Members
<1> QED
  BY <1>1, <1>2

\* The workspace that is found is known, and unique.
LEMMA FoundWorkspace ==
  ASSUME NEW r \in Registry, Consistent(r), NEW s, NEW w \in FindWorkspace(r, s)
  PROVE  /\ Known(r, s) /\ w \in r.workspaces /\ SameWorkspace(w, s) /\ ValidName(s)
         /\ \A v \in r.workspaces : SameWorkspace(v, s) => v = w
BY DEF FindWorkspace, Listed, Known, Consistent, UniqueEntries, SameWorkspace

LEMMA AddKeepsPromise ==
  ASSUME NEW r \in Registry, Consistent(r), NEW q \in Request, q.kind = "add",
         NEW x \in Add(r, q.path, q.into)
  PROVE  AddPromise(q, r, x)
<1>1. PICK ws : /\ x = [r EXCEPT !.repos = @ \cup
                          {[path |-> q.path, name |-> NameOf[q.path], workspaces |-> ws]}]
                /\ \A e \in r.repos : e.path # q.path
                /\ IF q.into = None THEN ws = {} ELSE \E w \in FindWorkspace(r, q.into) : ws = {w}
  BY DEF Add
<1> DEFINE new == [path |-> q.path, name |-> NameOf[q.path], workspaces |-> ws]
<1>2. x.repos = r.repos \cup {new} /\ SameRest(r, x)
  BY <1>1 DEF Registry, SameRest
<1>3. new.path = q.path /\ new.name = NameOf[q.path] /\ new.workspaces = ws
  OBVIOUS
<1> HIDE DEF new
<1>4. Roster(x) = Roster(r) \cup {<<q.path, NameOf[q.path]>>}
  BY <1>2, <1>3 DEF Roster
<1>5. \A v : Members(x, v) =
        IF \E m \in ws : SameWorkspace(m, v) THEN Members(r, v) \cup {q.path} ELSE Members(r, v)
  BY <1>2, <1>3 DEF Members
<1>6. CASE q.into = None
  BY <1>1, <1>2, <1>4, <1>5, <1>6 DEF AddPromise
<1>7. CASE q.into # None
  <2>1. PICK w \in FindWorkspace(r, q.into) : ws = {w}
    BY <1>1, <1>7
  <2>2. Known(r, q.into) /\ SameWorkspace(w, q.into)
    BY FoundWorkspace
  <2>3. \A v : SameWorkspace(v, q.into) => Members(r, v) = Members(r, q.into)
    BY DEF Members, SameWorkspace
  <2>4. OnlyMembers(r, x, q.into, Members(r, q.into) \cup {q.path})
    BY <1>5, <2>1, <2>2, <2>3 DEF OnlyMembers, SameWorkspace
  <2> QED
    BY <1>1, <1>2, <1>4, <1>7, <2>2, <2>4 DEF AddPromise
<1> QED
  BY <1>6, <1>7

LEMMA RemoveKeepsPromise ==
  ASSUME NEW r \in Registry, Consistent(r), NEW q \in Request, q.kind = "remove",
         NEW x \in Remove(r, q.key)
  PROVE  RemovePromise(q, r, x)
<1>1. PICK e \in r.repos : /\ x = [r EXCEPT !.repos = @ \ {e}]
                           /\ {y \in r.repos : y.path = q.key \/ y.name = q.key} = {e}
  BY DEF Remove, Only
<1>2. x.repos = r.repos \ {e} /\ SameRest(r, x)
  BY <1>1 DEF Registry, SameRest
<1>3. Called(r, q.key) = {e.path}
  <2>1. {y \in r.repos : q.key \in {y.path, y.name}} = {e}
    BY <1>1
  <2> QED
    BY <2>1 DEF Called
<1>4. e.path \in Path /\ \A d \in r.repos : d.path = e.path => d = e
  BY DEF Registry, Entry, Consistent, UniqueEntries
<1>5. Roster(x) = {y \in Roster(r) : y[1] \notin {e.path}}
  BY <1>2, <1>4 DEF Roster
<1>6. \A v : Members(x, v) = Members(r, v) \ {e.path}
  BY <1>2, <1>4 DEF Members
<1> QED
  BY <1>2, <1>3, <1>4, <1>5, <1>6 DEF RemovePromise, Unambiguous

LEMMA CreateKeepsPromise ==
  ASSUME NEW r \in Registry, NEW q, NEW x \in CreateWorkspace(r, q.name)
  PROVE  CreatePromise(q, r, x)
<1>1. x = [r EXCEPT !.workspaces = @ \cup {q.name}] /\ ValidName(q.name) /\ Listed(r, q.name) = {}
  BY DEF CreateWorkspace
<1> QED
  BY <1>1 DEF CreatePromise, Known, Listed, Registry

LEMMA DeleteKeepsPromise ==
  ASSUME NEW r \in Registry, Consistent(r), NEW q, NEW x \in DeleteWorkspace(r, q.name)
  PROVE  DeletePromise(q, r, x)
<1>1. PICK w \in FindWorkspace(r, q.name) :
        x = [r EXCEPT !.workspaces = @ \ {w},
                      !.repos = {WithoutWorkspace(e, w) : e \in @},
                      !.active = IF @ # None /\ SameWorkspace(@, w) THEN None ELSE @]
  BY DEF DeleteWorkspace
<1>2. /\ x.repos = {WithoutWorkspace(e, w) : e \in r.repos}
      /\ x.workspaces = r.workspaces \ {w} /\ x.accounts = r.accounts
      /\ x.active = IF r.active # None /\ SameWorkspace(r.active, w) THEN None ELSE r.active
  BY <1>1 DEF Registry
<1>3. /\ Known(r, q.name) /\ w \in r.workspaces /\ SameWorkspace(w, q.name)
      /\ \A v \in r.workspaces : SameWorkspace(v, q.name) => v = w
  BY FoundWorkspace
<1>4. \A v : SameWorkspace(v, w) <=> SameWorkspace(v, q.name)
  BY <1>3 DEF SameWorkspace
<1>5. x.workspaces = {v \in r.workspaces : ~SameWorkspace(v, q.name)}
  BY <1>2, <1>3
<1> DEFINE f == [e \in r.repos |-> WithoutWorkspace(e, w)]
<1>6. \A e \in r.repos : /\ f[e].path = e.path /\ f[e].name = e.name
                         /\ f[e].workspaces = {m \in e.workspaces : ~SameWorkspace(m, w)}
  BY DEF WithoutWorkspace, Registry, Entry
<1>7. x.repos = {f[e] : e \in r.repos}
  BY <1>2
<1> HIDE DEF f
<1>8. /\ Roster(x) = Roster(r)
      /\ \A v : Members(x, v) =
           {e.path : e \in {y \in r.repos : \E m \in f[y].workspaces : SameWorkspace(m, v)}}
  <2>1. \A e \in r.repos : f[e].path = e.path /\ f[e].name = e.name
    BY <1>6
  <2>2. Roster(x) = Roster(r)
    BY <1>7, <2>1 DEF Roster
  <2>3. ASSUME NEW v
        PROVE  Members(x, v) =
           {e.path : e \in {y \in r.repos : \E m \in f[y].workspaces : SameWorkspace(m, v)}}
    BY <1>7, <2>1 DEF Members
  <2> QED
    BY <2>2, <2>3
<1>9. OnlyMembers(r, x, q.name, {})
  <2> SUFFICES ASSUME NEW v \in Spelling
               PROVE  Members(x, v) = IF SameWorkspace(v, q.name) THEN {} ELSE Members(r, v)
    BY DEF OnlyMembers
  <2>1. CASE SameWorkspace(v, q.name)
    <3>1. \A e \in r.repos : ~\E m \in f[e].workspaces : SameWorkspace(m, v)
      BY <1>4, <1>6, <2>1 DEF SameWorkspace
    <3> QED
      BY <1>8, <2>1, <3>1
  <2>2. CASE ~SameWorkspace(v, q.name)
    <3>1. \A e \in r.repos : (\E m \in f[e].workspaces : SameWorkspace(m, v))
                               <=> \E m \in e.workspaces : SameWorkspace(m, v)
      BY <1>4, <1>6, <2>2 DEF SameWorkspace
    <3> QED
      BY <1>8, <2>2, <3>1 DEF Members
  <2> QED
    BY <2>1, <2>2
<1>10. x.active = IF r.active # None /\ SameWorkspace(r.active, q.name) THEN None ELSE r.active
  BY <1>2, <1>4
<1> QED
  BY <1>2, <1>3, <1>5, <1>8, <1>9, <1>10 DEF DeletePromise

LEMMA JoinKeepsPromise ==
  ASSUME NEW r \in Registry, Consistent(r), NEW q, q.keys \in SUBSET (Path \cup Name),
         NEW x \in AddMany(r, q.name, q.keys)
  PROVE  JoinPromise(q, r, x)
<1>1. PICK w \in FindWorkspace(r, q.name) :
        /\ AllFound(r, q.keys)
        /\ x = [r EXCEPT !.repos = {IF e \in Chosen(r, q.keys) THEN Joined(e, w) ELSE e : e \in @}]
  BY DEF AddMany
<1>2. Known(r, q.name) /\ SameWorkspace(w, q.name)
  BY FoundWorkspace
<1>3. /\ \A k \in q.keys : Unambiguous(r, k)
      /\ \A e \in r.repos : e \in Chosen(r, q.keys) <=> e.path \in Selected(r, q.keys)
      /\ Selected(r, q.keys) \subseteq {e.path : e \in r.repos}
  BY <1>1, ChosenAreSelected
<1> DEFINE f == [e \in r.repos |-> IF e \in Chosen(r, q.keys) THEN Joined(e, w) ELSE e]
<1>4. x.repos = {f[e] : e \in r.repos} /\ SameRest(r, x)
  BY <1>1 DEF Registry, SameRest
<1>5. \A e \in r.repos : /\ f[e].path = e.path /\ f[e].name = e.name
                         /\ f[e].workspaces = e.workspaces
                            \/ f[e].workspaces = e.workspaces \cup {w}
                         /\ e \notin Chosen(r, q.keys) => f[e].workspaces = e.workspaces
                         /\ e \in Chosen(r, q.keys) => \E m \in f[e].workspaces : SameWorkspace(m, w)
  BY DEF Joined, Registry, Entry, SameWorkspace
<1> HIDE DEF f
<1>6. /\ Roster(x) = Roster(r)
      /\ \A v : Members(x, v) =
           {e.path : e \in {y \in r.repos : \E m \in f[y].workspaces : SameWorkspace(m, v)}}
  BY <1>4, <1>5, MappedMembers
<1>7. ASSUME NEW v \in Spelling
      PROVE  Members(x, v) = IF SameWorkspace(v, q.name)
                             THEN Members(r, q.name) \cup Selected(r, q.keys) ELSE Members(r, v)
  <2>1. CASE SameWorkspace(v, q.name)
    <3>1. \A e \in r.repos : (\E m \in f[e].workspaces : SameWorkspace(m, v))
            <=> \/ \E m \in e.workspaces : SameWorkspace(m, q.name)
                \/ e.path \in Selected(r, q.keys)
      BY <1>2, <1>3, <1>5, <2>1 DEF SameWorkspace
    <3>2. Members(x, v) = {e.path : e \in {y \in r.repos :
            \/ \E m \in y.workspaces : SameWorkspace(m, q.name)
            \/ y.path \in Selected(r, q.keys)}}
      BY <1>6, <3>1
    <3> QED
      BY <1>3, <2>1, <3>2 DEF Members
  <2>2. CASE ~SameWorkspace(v, q.name)
    <3>1. \A e \in r.repos : (\E m \in f[e].workspaces : SameWorkspace(m, v))
                               <=> \E m \in e.workspaces : SameWorkspace(m, v)
      BY <1>2, <1>5, <2>2 DEF SameWorkspace
    <3>2. {y \in r.repos : \E m \in f[y].workspaces : SameWorkspace(m, v)}
            = {y \in r.repos : \E m \in y.workspaces : SameWorkspace(m, v)}
      BY <3>1
    <3> QED
      BY <1>6, <2>2, <3>2 DEF Members
  <2> QED
    BY <2>1, <2>2
<1> QED
  BY <1>2, <1>3, <1>4, <1>6, <1>7 DEF JoinPromise, OnlyMembers

LEMMA LeaveKeepsPromise ==
  ASSUME NEW r \in Registry, Consistent(r), NEW q, q.keys \in SUBSET (Path \cup Name),
         NEW x \in RemoveMany(r, q.name, q.keys)
  PROVE  LeavePromise(q, r, x)
<1>1. PICK w \in FindWorkspace(r, q.name) :
        /\ AllFound(r, q.keys)
        /\ x = [r EXCEPT !.repos = {IF e \in Chosen(r, q.keys)
                                    THEN WithoutWorkspace(e, w) ELSE e : e \in @}]
  BY DEF RemoveMany
<1>2. Known(r, q.name) /\ SameWorkspace(w, q.name)
  BY FoundWorkspace
<1>3. /\ \A k \in q.keys : Unambiguous(r, k)
      /\ \A e \in r.repos : e \in Chosen(r, q.keys) <=> e.path \in Selected(r, q.keys)
      /\ \A d, e \in r.repos : d.path = e.path => d = e
  BY <1>1, ChosenAreSelected DEF Consistent, UniqueEntries
<1> DEFINE f == [e \in r.repos |-> IF e \in Chosen(r, q.keys) THEN WithoutWorkspace(e, w) ELSE e]
<1>4. x.repos = {f[e] : e \in r.repos} /\ SameRest(r, x)
  BY <1>1 DEF Registry, SameRest
<1>5. \A e \in r.repos :
        /\ f[e].path = e.path /\ f[e].name = e.name
        /\ e \notin Chosen(r, q.keys) => f[e].workspaces = e.workspaces
        /\ e \in Chosen(r, q.keys) =>
             f[e].workspaces = {m \in e.workspaces : ~SameWorkspace(m, w)}
  BY DEF WithoutWorkspace, Registry, Entry
<1> HIDE DEF f
<1>6. /\ Roster(x) = Roster(r)
      /\ \A v : Members(x, v) =
           {e.path : e \in {y \in r.repos : \E m \in f[y].workspaces : SameWorkspace(m, v)}}
  BY <1>4, <1>5, MappedMembers
<1>7. ASSUME NEW v \in Spelling
      PROVE  Members(x, v) = IF SameWorkspace(v, q.name)
                             THEN Members(r, q.name) \ Selected(r, q.keys) ELSE Members(r, v)
  <2>1. CASE SameWorkspace(v, q.name)
    <3>1. \A e \in r.repos : (\E m \in f[e].workspaces : SameWorkspace(m, v))
            <=> /\ \E m \in e.workspaces : SameWorkspace(m, q.name)
                /\ e.path \notin Selected(r, q.keys)
      BY <1>2, <1>3, <1>5, <2>1 DEF SameWorkspace
    <3>2. Members(x, v) = {e.path : e \in {y \in r.repos :
            /\ \E m \in y.workspaces : SameWorkspace(m, q.name)
            /\ y.path \notin Selected(r, q.keys)}}
      BY <1>6, <3>1
    <3> QED
      BY <1>3, <2>1, <3>2 DEF Members
  <2>2. CASE ~SameWorkspace(v, q.name)
    <3>1. \A e \in r.repos : (\E m \in f[e].workspaces : SameWorkspace(m, v))
                               <=> \E m \in e.workspaces : SameWorkspace(m, v)
      BY <1>2, <1>5, <2>2 DEF SameWorkspace
    <3>2. {y \in r.repos : \E m \in f[y].workspaces : SameWorkspace(m, v)}
            = {y \in r.repos : \E m \in y.workspaces : SameWorkspace(m, v)}
      BY <3>1
    <3> QED
      BY <1>6, <2>2, <3>2 DEF Members
  <2> QED
    BY <2>1, <2>2
<1> QED
  BY <1>2, <1>3, <1>4, <1>6, <1>7 DEF LeavePromise, OnlyMembers

LEMMA ActivateKeepsPromise ==
  ASSUME NEW r \in Registry, Consistent(r), NEW q, NEW x \in SetActive(r, q.name)
  PROVE  ActivatePromise(q, r, x)
<1>1. CASE q.name = None \/ Fold[q.name] = All
  BY <1>1 DEF SetActive, ActivatePromise, ValidName, Registry
<1>2. CASE ~(q.name = None \/ Fold[q.name] = All)
  <2>1. PICK w \in FindWorkspace(r, q.name) : x = [r EXCEPT !.active = w]
    BY <1>2 DEF SetActive
  <2>2. w \in r.workspaces /\ SameWorkspace(w, q.name) /\ ValidName(q.name)
    BY FoundWorkspace
  <2> QED
    BY <1>2, <2>1, <2>2 DEF ActivatePromise, Registry
<1> QED
  BY <1>1, <1>2

LEMMA AccountsKeepPromise ==
  ASSUME NEW r \in Registry, NEW q, NEW x
  PROVE  /\ x \in SetAccount(r, q.host, q.provider) => SetAccountPromise(q, r, x)
         /\ x \in RemoveAccount(r, q.host, q.provider) => RemoveAccountPromise(q, r, x)
<1> DEFINE account == [host |-> q.host, provider |-> q.provider]
<1>0. account.host = q.host /\ account.provider = q.provider
  OBVIOUS
<1>1. ASSUME x \in SetAccount(r, q.host, q.provider) PROVE SetAccountPromise(q, r, x)
  <2>1. /\ x.accounts = {a \in r.accounts : a.host # q.host} \cup {account}
        /\ x.repos = r.repos /\ x.workspaces = r.workspaces /\ x.active = r.active
    BY <1>1 DEF SetAccount, Registry
  <2> HIDE DEF account
  <2>2. Others(x, q.host) = Others(r, q.host) /\ x.accounts \ Others(x, q.host) = {account}
    BY <1>0, <2>1 DEF Others
  <2> QED
    BY <2>1, <2>2 DEF SetAccountPromise, account
<1>2. ASSUME x \in RemoveAccount(r, q.host, q.provider) PROVE RemoveAccountPromise(q, r, x)
  <2>1. /\ x.accounts = {a \in r.accounts : ~(a.host = q.host /\ a.provider = q.provider)}
        /\ x.repos = r.repos /\ x.workspaces = r.workspaces /\ x.active = r.active
    BY <1>2 DEF RemoveAccount, Registry
  <2>2. \A a \in r.accounts : a = account <=> (a.host = q.host /\ a.provider = q.provider)
    BY DEF Registry, Account
  <2> HIDE DEF account
  <2>3. x.accounts = r.accounts \ {account}
    BY <2>1, <2>2
  <2> QED
    BY <2>1, <2>3 DEF RemoveAccountPromise, account
<1> QED
  BY <1>1, <1>2

LEMMA ChangesKeepPromise ==
  ASSUME NEW r \in Registry, Consistent(r), NEW q \in Request, NEW x \in Results(q, r)
  PROVE  Promise(q, r, x)
<1>1. CASE q.kind = "add"
  BY <1>1, AddKeepsPromise DEF Results, Promise
<1>2. CASE q.kind = "remove"
  BY <1>2, RemoveKeepsPromise DEF Results, Promise
<1>3. CASE q.kind = "create"
  BY <1>3, CreateKeepsPromise DEF Results, Promise
<1>4. CASE q.kind = "delete"
  BY <1>4, DeleteKeepsPromise DEF Results, Promise
<1>5. CASE q.kind \in {"join", "leave"}
  <2>1. q.keys \in SUBSET (Path \cup Name)
    BY <1>5 DEF Request
  <2> QED
    BY <1>5, <2>1, JoinKeepsPromise, LeaveKeepsPromise DEF Results, Promise
<1>6. CASE q.kind = "activate"
  BY <1>6, ActivateKeepsPromise DEF Results, Promise
<1>7. CASE q.kind \in {"set account", "remove account"}
  BY <1>7, AccountsKeepPromise DEF Results, Promise
<1> QED
  BY <1>1, <1>2, <1>3, <1>4, <1>5, <1>6, <1>7 DEF Request

-----------------------------------------------------------------------------
(* Refinement: update is atomic and serial. *)

LEMMA AtomicStep ==
  ASSUME UpdateInv, Consistent(file.reg), [Next]_vars
  PROVE  [Atomic!Next]_Atomic!vars
<1> USE FileAssumption DEF UpdateInv
<1>1. ASSUME NEW p \in Process, Ask(p) PROVE Atomic!Ask(p)
  BY <1>1 DEF Ask, Atomic!Ask, SerialInv, Serial
<1>2. ASSUME NEW p \in Process, UNCHANGED <<file, request, outcome>> PROVE UNCHANGED Atomic!vars
  BY <1>2 DEF Atomic!vars
<1>3. ASSUME NEW p \in Process, pc[p] \notin {"idle", "return"},
             outcome' = [outcome EXCEPT ![p] = "refused"], UNCHANGED <<file, request>>
      PROVE  Atomic!Refuse(p)
  BY <1>3 DEF Atomic!Refuse, SerialInv, Serial
<1>4. ASSUME NEW p \in Process, TryLock(p) \/ Load(p) \/ Change(p) \/ Write(p) \/ Sync(p) \/ Fail(p)
      PROVE  Atomic!Refuse(p) \/ UNCHANGED Atomic!vars
  BY <1>2, <1>3, <1>4 DEF TryLock, Load, Change, Write, Sync, Fail
<1>5. ASSUME NEW p \in Process, Persist(p) PROVE Atomic!Apply(p)
  <2>1. pc[p] = "persist" /\ file' = temp[p] /\ outcome' = [outcome EXCEPT ![p] = "done"]
        /\ request' = request
    BY <1>5 DEF Persist
  <2>2. /\ temp[p] = [reg |-> memory[p], synced |-> TRUE]
        /\ memory[p] \in Results(request[p], Loaded(file.reg))
        /\ request[p] # NoRequest /\ outcome[p] = "none"
    BY <2>1 DEF SerialInv, Serial
  <2>3. request[p] \in Request /\ file.reg \in Registry
    BY <2>2 DEF TypeOK, SerialInv
  <2>4. Loaded(file.reg) \in Registry /\ Consistent(Loaded(file.reg))
    BY <2>3, LoadedType, LoadedSound
  <2>5. Promise(request[p], Loaded(file.reg), memory[p])
    BY <2>2, <2>3, <2>4, ChangesKeepPromise
  <2> QED
    BY <2>1, <2>2, <2>5 DEF Atomic!Apply
<1>6. ASSUME NEW p \in Process, Return(p) \/ Die(p) PROVE Atomic!Return(p)
  BY <1>6 DEF Return, Die, Clear, Unlock, Atomic!Return
<1>7. CASE PowerLoss
  <2>1. file' = file
    BY <1>7 DEF PowerLoss, SerialInv
  <2>2. Atomic!PowerLoss
    BY <1>7, <2>1 DEF PowerLoss, Atomic!PowerLoss
  <2> QED
    BY <2>2 DEF Atomic!Next
<1>8. CASE Edit
  <2>1. \A p \in Process : request[p] = NoRequest
    BY <1>8 DEF Edit, SerialInv, Serial
  <2>2. file'.reg \in Edits(file.reg) /\ UNCHANGED <<request, outcome>>
    BY <1>8 DEF Edit
  <2>3. Atomic!Edit
    BY <2>1, <2>2 DEF Atomic!Edit
  <2> QED
    BY <2>3 DEF Atomic!Next
<1>9. CASE UNCHANGED vars
  BY <1>9 DEF vars, Atomic!vars
<1> QED
  BY <1>1, <1>4, <1>5, <1>6, <1>7, <1>8, <1>9 DEF Next, Step, Atomic!Next

\* registry::update implements AtomicRegistry: a request that reports success
\* did once, to the registry of that moment, all that RegistryPromise says of it
\* and nothing else (no update is lost, no list of checkouts is taken in part),
\* and one that is refused, fails or dies changed nothing.
THEOREM UpdateIsAtomic == Spec => ImplementsAtomic
<1>1. Init => Atomic!Init
  BY DEF Init, Atomic!Init
<1> QED
  BY <1>1, UpdateCorrect, FileConsistent, AtomicStep, PTL DEF Spec, ImplementsAtomic, Atomic!Spec

=============================================================================
