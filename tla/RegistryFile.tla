---------------------------- MODULE RegistryFile ----------------------------
(***************************************************************************)
(* registry::update step by step, as several processes (the dashboard and  *)
(* command lines) run it on one repos.toml: try the lock on repos.lock,    *)
(* load, change, write a temporary file, fsync it, rename it over the      *)
(* registry, unlock.  A process can fail or die at any step, and the       *)
(* machine can lose power, which loses what was never synced.  (The rename  *)
(* itself is taken as durable: update does not sync the directory.)        *)
(***************************************************************************)
EXTENDS RegistryPromise

CONSTANTS Process,
          Asked,      \* the requests processes make
          NoRequest, NoProcess, NoFile,
          Torn        \* the content of a file whose writes were lost

ASSUME FileAssumption ==
  /\ Asked \subseteq Request
  /\ NoRequest \notin Asked
  /\ NoProcess \notin Process
  /\ Torn \notin Registry
  /\ NoFile \notin [reg : Registry, synced : BOOLEAN]

VARIABLES file,     \* what opening repos.toml shows: its content, and whether it is on disk
          lock,     \* holder of repos.lock
          pc,       \* the step each process is at
          request,  \* what it was asked to do
          memory,   \* the registry it loaded, then changed
          temp,     \* its temporary file
          outcome   \* what update returned or is about to return

vars == <<file, lock, pc, request, memory, temp, outcome>>

Init ==
  /\ file = [reg |-> Empty, synced |-> TRUE]   \* load: no file is the default registry
  /\ lock = NoProcess
  /\ pc = [p \in Process |-> "idle"]
  /\ request = [p \in Process |-> NoRequest]
  /\ memory = [p \in Process |-> Empty]
  /\ temp = [p \in Process |-> NoFile]
  /\ outcome = [p \in Process |-> "none"]

Goto(p, label) == pc' = [pc EXCEPT ![p] = label]

Ask(p) ==
  /\ pc[p] = "idle"
  /\ \E q \in Asked : request' = [request EXCEPT ![p] = q]
  /\ Goto(p, "lock")
  /\ UNCHANGED <<file, lock, memory, temp, outcome>>

\* try_lock_exclusive: fails at once when another process has the lock
CanLock == lock = NoProcess

TryLock(p) ==
  /\ pc[p] = "lock"
  /\ \/ CanLock /\ lock' = p /\ Goto(p, "load") /\ UNCHANGED outcome
     \/ /\ ~CanLock
        /\ outcome' = [outcome EXCEPT ![p] = "refused"]
        /\ Goto(p, "return")
        /\ UNCHANGED lock
  /\ UNCHANGED <<file, request, memory, temp>>

\* load: a file that does not parse is an error (see Fail)
Load(p) ==
  /\ pc[p] = "load"
  /\ file.reg # Torn
  /\ memory' = [memory EXCEPT ![p] = Loaded(file.reg)]
  /\ Goto(p, "change")
  /\ UNCHANGED <<file, lock, request, temp, outcome>>

\* change: the closure of the caller; when it bails nothing is written
Change(p) ==
  /\ pc[p] = "change"
  /\ LET results == Results(request[p], memory[p]) IN
     \/ \E r \in results :
          memory' = [memory EXCEPT ![p] = r] /\ Goto(p, "write") /\ UNCHANGED outcome
     \/ /\ results = {}
        /\ outcome' = [outcome EXCEPT ![p] = "refused"]
        /\ Goto(p, "return")
        /\ UNCHANGED memory
  /\ UNCHANGED <<file, lock, request, temp>>

Write(p) ==
  /\ pc[p] = "write"
  /\ temp' = [temp EXCEPT ![p] = [reg |-> memory[p], synced |-> FALSE]]
  /\ Goto(p, "sync")
  /\ UNCHANGED <<file, lock, request, memory, outcome>>

\* Mutant: the temporary file is not synced.
SyncForgotten(p) ==
  /\ pc[p] = "sync"
  /\ Goto(p, "persist")
  /\ UNCHANGED <<file, lock, request, memory, temp, outcome>>

Sync(p) ==
  /\ pc[p] = "sync"
  /\ temp' = [temp EXCEPT ![p] = [reg |-> temp[p].reg, synced |-> TRUE]]
  /\ Goto(p, "persist")
  /\ UNCHANGED <<file, lock, request, memory, outcome>>

Persist(p) ==
  /\ pc[p] = "persist"
  /\ file' = temp[p]
  /\ temp' = [temp EXCEPT ![p] = NoFile]
  /\ outcome' = [outcome EXCEPT ![p] = "done"]
  /\ Goto(p, "return")
  /\ UNCHANGED <<lock, request, memory>>

\* Mutant: an error on the way to the rename is ignored.
FailSilently(p) ==
  /\ pc[p] \in {"load", "write", "sync", "persist"}
  /\ outcome' = [outcome EXCEPT ![p] = "done"]
  /\ temp' = [temp EXCEPT ![p] = NoFile]
  /\ Goto(p, "return")
  /\ UNCHANGED <<file, lock, request, memory>>

\* An I/O or parse error before the rename: the closure returns it.
Fail(p) ==
  /\ pc[p] \in {"load", "write", "sync", "persist"}
  /\ outcome' = [outcome EXCEPT ![p] = "refused"]
  /\ temp' = [temp EXCEPT ![p] = NoFile]
  /\ Goto(p, "return")
  /\ UNCHANGED <<file, lock, request, memory>>

\* Mutants: the lock stays; a process unlocks another's lock.
UnlockNever(p) == UNCHANGED lock

UnlockAnyone(p) == lock' = NoProcess

Unlock(p) == lock' = IF lock = p THEN NoProcess ELSE lock

\* unlock (or the closing of the lock file) and the end of update; a process
\* that dies goes the same way from any step, with no answer.
Clear(p) ==
  /\ Unlock(p)
  /\ pc' = [pc EXCEPT ![p] = "idle"]
  /\ request' = [request EXCEPT ![p] = NoRequest]
  /\ memory' = [memory EXCEPT ![p] = Empty]
  /\ temp' = [temp EXCEPT ![p] = NoFile]
  /\ outcome' = [outcome EXCEPT ![p] = "none"]
  /\ UNCHANGED file

Return(p) == pc[p] = "return" /\ Clear(p)

Die(p) == pc[p] # "idle" /\ Clear(p)

PowerLoss ==
  /\ file' = IF file.synced THEN file ELSE [reg |-> Torn, synced |-> TRUE]
  /\ lock' = NoProcess
  /\ pc' = [p \in Process |-> "idle"]
  /\ request' = [p \in Process |-> NoRequest]
  /\ memory' = [p \in Process |-> Empty]
  /\ temp' = [p \in Process |-> NoFile]
  /\ outcome' = [p \in Process |-> "none"]

Edits(r) == {[r EXCEPT !.active = s] : s \in Spelling}

\* The user edits the file by hand while no process is at it (an editor takes
\* no lock); load is written to survive an active workspace that is not listed.
Edit ==
  /\ \A p \in Process : pc[p] = "idle"
  /\ file.reg # Torn
  /\ \E r \in Edits(file.reg) : file' = [reg |-> r, synced |-> TRUE]
  /\ UNCHANGED <<lock, pc, request, memory, temp, outcome>>

Step(p) ==
  TryLock(p) \/ Load(p) \/ Change(p) \/ Write(p) \/ Sync(p) \/ Persist(p) \/ Fail(p) \/ Return(p)

Next ==
  \/ \E p \in Process : Ask(p) \/ Step(p) \/ Die(p)
  \/ PowerLoss
  \/ Edit

\* update is straight-line code that waits for nobody: a process runs it to
\* the end unless it dies.
Spec == Init /\ [][Next]_vars /\ \A p \in Process : WF_vars(Step(p))

-----------------------------------------------------------------------------
(* Properties. *)

Content == [reg : Registry, synced : BOOLEAN]

Label == {"idle", "lock", "load", "change", "write", "sync", "persist", "return"}

\* Every variable keeps its kind.
TypeOK ==
  /\ file \in [reg : Registry \cup {Torn}, synced : BOOLEAN]
  /\ lock \in Process \cup {NoProcess}
  /\ pc \in [Process -> Label]
  /\ request \in [Process -> Asked \cup {NoRequest}]
  /\ memory \in [Process -> Registry]
  /\ temp \in [Process -> Content \cup {NoFile}]
  /\ outcome \in [Process -> {"none", "done", "refused"}]

\* One process at a time is between taking and releasing the lock.
Updating(p) == pc[p] \in {"load", "change", "write", "sync", "persist"}

OneUpdateAtATime ==
  \A p \in Process : Updating(p) => lock = p

\* Whatever dies, and whenever the power goes, the registry file holds a whole
\* registry: a dashboard started afterwards can load it.
NeverTorn == file.reg # Torn

\* After any sequence of requests the file has one entry per checkout, one
\* spelling per workspace and one account per host.
NoDuplicates == NeverTorn => UniqueEntries(file.reg)

\* In the registry a process loads, every membership and the active selection
\* name a listed workspace, also after deletions and a hand-edited selection.
NothingDangles == NeverTorn => NoDanglingName(Loaded(file.reg))

\* update is atomic and serial: it implements AtomicRegistry, in which a request
\* does what RegistryPromise says of it, and all of it.
Atomic == INSTANCE AtomicRegistry WITH reg <- file.reg, asked <- request, answer <- outcome

ImplementsAtomic == Atomic!Spec

\* The strengthening behind ImplementsAtomic: from load to rename, the holder
\* of the lock works on the registry that is in the file.
Serial(p) ==
  /\ (pc[p] = "idle") <=> (request[p] = NoRequest)
  /\ (pc[p] = "return") <=> (outcome[p] # "none")
  /\ pc[p] = "change" => memory[p] = Loaded(file.reg)
  /\ pc[p] \in {"write", "sync", "persist"} =>
       memory[p] \in Results(request[p], Loaded(file.reg))
  /\ pc[p] = "sync" => temp[p] = [reg |-> memory[p], synced |-> FALSE]
  /\ pc[p] = "persist" => temp[p] = [reg |-> memory[p], synced |-> TRUE]

SerialInv == file.synced /\ file.reg # Torn /\ \A p \in Process : Serial(p)

\* Updates end, so the lock does not stay with a process for ever.
LockComesFree == []<>(lock = NoProcess)
=============================================================================
