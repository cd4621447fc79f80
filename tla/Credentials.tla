----------------------------- MODULE Credentials -----------------------------
(***************************************************************************)
(* The secrets of accounts: in the keyring of the system, in the cache     *)
(* that the dashboard keeps of it for a few seconds, and the accounts they *)
(* belong to in the registry (src/src/auth.rs, and the commands of main.rs *)
(* and of the accounts form in tui/event_loop.rs).                         *)
(*                                                                         *)
(* Polls of the dashboard read secrets on many threads.  Its form writes   *)
(* them on one thread; so do phro auth set and remove, each in a process   *)
(* of its own, whose cache nobody else reads.  The keyring may fail and a  *)
(* process may die between any two steps.  An update of the registry is    *)
(* one step here: RegistryFile shows that it is.                           *)
(***************************************************************************)
EXTENDS Naturals, FiniteSets

CONSTANTS Provider, Host, Secret,
          None,         \* no secret, no account
          Readers,      \* reads of the dashboard
          Form,         \* the accounts form of the dashboard
          Shells,       \* phro auth commands
          TTL,          \* KEYRING_CACHE_TTL
          MaxTime,      \* bound on the clock
          MaxCommands   \* bound on the commands

ASSUME CredentialsAssumption ==
  /\ Provider # {} /\ Host # {} /\ Secret # {}
  /\ None \notin Provider \cup Secret
  /\ Form \notin Shells
  /\ TTL \in Nat \ {0} /\ MaxTime \in Nat /\ MaxCommands \in Nat

Key       == Provider \X Host
Commander == {Form} \cup Shells
Value     == Secret \cup {None}

\* Where a command is: what it does next.
Steps == {"idle", "load", "forget", "uncache", "store", "cache", "update"}
Command == [step : Steps, op : {"set", "remove"}, provider : Provider, host : Host,
            secret : Secret, key : Key]

VARIABLES
  keyring,   \* the secret of each key
  accounts,  \* the provider of the account of each host
  cache,     \* the dashboard's copies: a value and when it was published
  now,       \* the clock of the dashboard
  variables, \* the token variables in its environment: for a provider, a host
  reader,    \* what each read is doing
  command,   \* what each command is doing
  count,     \* the commands so far
  foreign,   \* history: the keys other processes have changed
  owed,      \* history: the commands that failed or died, and were not
             \* repeated to their end since
  disturbed  \* history: two commands were under way at a time

vars == <<keyring, accounts, cache, now, variables, reader, command, count, foreign, owed, disturbed>>

NoEntry == [at |-> 0, value |-> None, there |-> FALSE]

Entry(v) == [at |-> now, value |-> v, there |-> TRUE]

-----------------------------------------------------------------------------
(* Reading: KeyringCredentialStore::get, as part of resolve_credential. *)

Quiet(k) == [step |-> "idle", key |-> k, started |-> 0, value |-> None,
             source |-> "anonymous", undisturbed |-> FALSE]

\* The form is between the keyring and the cache.
Writing(k) == command[Form].step \in {"uncache", "cache"} /\ command[Form].key = k

\* The variables of the environment come first.  "anonymous" is all that comes
\* after the keyring: nothing, or what gh knows.
Begin(t, k) ==
  /\ reader[t].step \in {"idle", "done"}
  /\ reader' = [reader EXCEPT ![t] =
       IF variables # {} THEN [Quiet(k) EXCEPT !.step = "done", !.source = "environment"]
       ELSE [Quiet(k) EXCEPT !.step = "look", !.started = now, !.undisturbed = ~Writing(k)]]
  /\ UNCHANGED <<keyring, accounts, cache, now, variables, command, count, foreign, owed, disturbed>>

Got(t, v) ==
  reader' = [reader EXCEPT ![t].step = "done", ![t].value = v,
                           ![t].source = IF v = None THEN "anonymous" ELSE "keyring"]

Recent(k) == cache[k].there /\ now - cache[k].at < TTL

Look(t) ==
  LET k == reader[t].key
  IN  /\ reader[t].step = "look"
      /\ IF Recent(k) THEN Got(t, cache[k].value)
         ELSE reader' = [reader EXCEPT ![t].step = "read"]
      /\ UNCHANGED <<keyring, accounts, cache, now, variables, command, count, foreign, owed, disturbed>>

ReadKeyring(t) ==
  /\ reader[t].step = "read"
  /\ reader' = [reader EXCEPT ![t].step = "publish", ![t].value = keyring[reader[t].key]]
  /\ UNCHANGED <<keyring, accounts, cache, now, variables, command, count, foreign, owed, disturbed>>

\* A keyring that fails counts as one that holds nothing, for this read.
ReadFails(t) ==
  /\ reader[t].step = "read"
  /\ reader' = [reader EXCEPT ![t].step = "done", ![t].undisturbed = FALSE]
  /\ UNCHANGED <<keyring, accounts, cache, now, variables, command, count, foreign, owed, disturbed>>

\* Mutant: a read of the same instant is newer.
FreshOrEqual(t) == ~cache[reader[t].key].there \/ cache[reader[t].key].at <= reader[t].started

\* The condition of publish_if_fresh
Fresh(t) == ~cache[reader[t].key].there \/ cache[reader[t].key].at < reader[t].started

Publish(t) ==
  /\ reader[t].step = "publish"
  /\ cache' = [cache EXCEPT ![reader[t].key] = IF Fresh(t) THEN Entry(reader[t].value) ELSE @]
  /\ Got(t, reader[t].value)
  /\ UNCHANGED <<keyring, accounts, now, variables, command, count, foreign, owed, disturbed>>

-----------------------------------------------------------------------------
(* Writing. *)

Idle(c) == [step |-> "idle", op |-> "set", provider |-> CHOOSE p \in Provider : TRUE,
            host |-> CHOOSE h \in Host : TRUE, secret |-> CHOOSE s \in Secret : TRUE,
            key |-> CHOOSE k \in Key : TRUE]

Goto(c, s) == command' = [command EXCEPT ![c].step = s]

\* A command, as the user knows it.
What(c) == <<command[c].op, command[c].provider, command[c].host>>

UnderWay == {c \in Commander : command[c].step # "idle"}

Alone(c) == \A d \in Commander \ {c} : command[d].step = "idle"

\* The form, or phro auth set or remove, whose provider may be named or found.
Call(c, op, p, h, s) ==
  /\ command[c].step = "idle" /\ count < MaxCommands
  /\ command' = [command EXCEPT ![c] = [step |-> "load", op |-> op, provider |-> p,
                                        host |-> h, secret |-> s, key |-> <<p, h>>]]
  /\ count' = count + 1
  /\ disturbed' = (disturbed \/ ~Alone(c))
  /\ op = "remove" => c # Form
  /\ UNCHANGED <<keyring, accounts, cache, now, variables, reader, foreign, owed>>

\* Mutant: the secret of the account that is replaced is left.
ReplacedIsKept(c) == FALSE

\* remove_replaced_credential: another provider has the account of the host
Replaces(c) == accounts[command[c].host] \notin {None, command[c].provider}

\* The registry is loaded, and says whose secret goes first.
Load(c) ==
  /\ command[c].step = "load"
  /\ IF command[c].op = "remove" THEN Goto(c, "forget")
     ELSE IF Replaces(c)
          THEN LET h == command[c].host
               IN  command' = [command EXCEPT ![c].step = "forget", ![c].key = <<accounts[h], h>>]
          ELSE Goto(c, "store")
  /\ UNCHANGED <<keyring, accounts, cache, now, variables, reader, count, foreign, owed, disturbed>>

\* A write of the keyring; reads that are under way may miss it.
Keep(c, k, v, next) ==
  /\ keyring' = [keyring EXCEPT ![k] = v]
  /\ reader' = [t \in Readers |->
       IF reader[t].key = k THEN [reader[t] EXCEPT !.undisturbed = FALSE] ELSE reader[t]]
  /\ foreign' = IF c = Form THEN foreign ELSE foreign \cup {k}
  /\ command' = [command EXCEPT ![c].step = next, ![c].key = k]
  /\ UNCHANGED <<accounts, cache, now, variables, count, owed, disturbed>>

\* KeyringCredentialStore::remove and set: the keyring first
Forget(c) == command[c].step = "forget" /\ Keep(c, command[c].key, None, "uncache")

Store(c) ==
  /\ command[c].step = "store"
  /\ Keep(c, <<command[c].provider, command[c].host>>, command[c].secret, "cache")

\* Mutant: a write leaves the cache to the reads to come.
CacheLeft(c, v) == cache

\* ... then the cache, which only the form shares with the polls.
CacheAfter(c, v) ==
  IF c = Form THEN [cache EXCEPT ![command[c].key] = Entry(v)] ELSE cache

Uncache(c) ==
  /\ command[c].step = "uncache"
  /\ cache' = CacheAfter(c, None)
  /\ Goto(c, IF command[c].op = "remove" THEN "update" ELSE "store")
  /\ UNCHANGED <<keyring, accounts, now, variables, reader, count, foreign, owed, disturbed>>

Recache(c) ==
  /\ command[c].step = "cache"
  /\ cache' = CacheAfter(c, command[c].secret)
  /\ Goto(c, "update")
  /\ UNCHANGED <<keyring, accounts, now, variables, reader, count, foreign, owed, disturbed>>

\* The account is put into the registry, or taken out of it.
Account(c) ==
  LET m == command[c]
  IN  IF m.op = "set" THEN m.provider
      ELSE IF accounts[m.host] = m.provider THEN None ELSE accounts[m.host]

Update(c) ==
  /\ command[c].step = "update"
  /\ accounts' = [accounts EXCEPT ![command[c].host] = Account(c)]
  /\ owed' = owed \ {What(c)}
  /\ Goto(c, "idle")
  /\ UNCHANGED <<keyring, cache, now, variables, reader, count, foreign, disturbed>>

\* Loading, the keyring or the update fails, or the process of a shell dies.
Fails(c) ==
  /\ command[c].step # "idle"
  /\ command[c].step \in {"uncache", "cache"} => c # Form
  /\ Goto(c, "idle")
  /\ owed' = owed \cup {What(c)}
  /\ UNCHANGED <<keyring, accounts, cache, now, variables, reader, count, foreign, disturbed>>

-----------------------------------------------------------------------------

\* The dashboard ends, at any point, and is started again.
Restart ==
  /\ cache' = [k \in Key |-> NoEntry]
  /\ reader' = [t \in Readers |-> Quiet(CHOOSE k \in Key : TRUE)]
  /\ command' = [command EXCEPT ![Form] = Idle(Form)]
  /\ owed' = owed \cup {What(c) : c \in {Form} \cap UnderWay}
  /\ UNCHANGED <<keyring, accounts, now, variables, count, foreign, disturbed>>

Tick ==
  /\ now < MaxTime /\ now' = now + 1
  /\ UNCHANGED <<keyring, accounts, cache, variables, reader, command, count, foreign, owed, disturbed>>

\* Accounts and secrets that earlier commands have left in order.
Init ==
  /\ accounts \in [Host -> Provider \cup {None}]
  /\ keyring \in [Key -> Value]
  /\ \A p \in Provider, h \in Host : keyring[<<p, h>>] # None <=> accounts[h] = p
  /\ cache = [k \in Key |-> NoEntry]
  /\ now = 0
  /\ variables \in SUBSET {"provider", "host"}
  /\ reader = [t \in Readers |-> Quiet(CHOOSE k \in Key : TRUE)]
  /\ command = [c \in Commander |-> Idle(c)]
  /\ count = 0
  /\ foreign = {} /\ owed = {} /\ disturbed = FALSE

Next ==
  \/ \E t \in Readers : \/ \E k \in Key : Begin(t, k)
                        \/ Look(t) \/ ReadKeyring(t) \/ ReadFails(t) \/ Publish(t)
  \/ \E c \in Commander :
       \/ \E op \in {"set", "remove"}, p \in Provider, h \in Host, s \in Secret : Call(c, op, p, h, s)
       \/ Load(c) \/ Forget(c) \/ Store(c) \/ Uncache(c) \/ Recache(c) \/ Update(c) \/ Fails(c)
  \/ Restart \/ Tick

Spec == Init /\ [][Next]_vars

-----------------------------------------------------------------------------
(* Properties. *)

ReaderState == [step : {"idle", "look", "read", "publish", "done"}, key : Key, started : Nat,
                value : Value, source : {"environment", "keyring", "anonymous"},
                undisturbed : BOOLEAN]

\* Every variable keeps its kind, and no instant lies in the future.
TypeOK ==
  /\ keyring \in [Key -> Value]
  /\ accounts \in [Host -> Provider \cup {None}]
  /\ cache \in [Key -> [at : 0 .. now, value : Value, there : BOOLEAN]]
  /\ now \in Nat
  /\ variables \subseteq {"provider", "host"}
  /\ reader \in [Readers -> ReaderState]
  /\ \A t \in Readers : reader[t].started <= now
  /\ command \in [Commander -> Command]
  /\ count \in Nat
  /\ foreign \subseteq Key
  /\ owed \subseteq {"set", "remove"} \X Provider \X Host
  /\ disturbed \in BOOLEAN

\* "Publishing that read unconditionally on completion would clobber the fresh
\* write with a stale value" (src/src/auth.rs): but for what other processes
\* do, and but for a write that is just between keyring and cache, the cache
\* holds what the keyring holds, however reads and writes overlap.
CacheIsFresh ==
  \A k \in Key :
    cache[k].there /\ k \notin foreign /\ ~Writing(k) => cache[k].value = keyring[k]

\* "A change is visible immediately rather than waiting out the TTL"
\* (src/src/auth.rs): a poll that starts after the form has saved or replaced
\* a secret uses it, and none that is gone.
ReadsOwnWrites ==
  \A t \in Readers :
    LET r == reader[t]
    IN  r.step = "done" /\ r.source # "environment" /\ r.undisturbed /\ r.key \notin foreign
          => r.value = keyring[r.key]

\* A secret without an account is that of a set that failed.
NoOrphans(failed) ==
  \A p \in Provider, h \in Host :
    keyring[<<p, h>>] # None /\ accounts[h] # p => <<"set", p, h>> \in failed

\* An account without a secret is one whose removal or replacement failed.
NoneMissing(failed) ==
  \A p \in Provider, h \in Host :
    accounts[h] = p /\ keyring[<<p, h>>] = None =>
      \/ <<"remove", p, h>> \in failed
      \/ \E q \in Provider \ {p} : <<"set", q, h>> \in failed

\* "The token is masked and saved in the OS keyring. `repos.toml` contains only
\* provider/host metadata" (docs/providers.md): commands one after the other
\* leave a secret for each account and none without one, also where one
\* provider replaces another at a host; where one has failed between keyring and
\* registry (src/src/main.rs, event_loop.rs) the two differ only by what it has
\* done, and repeating it, whatever came in between, puts that right.
SecretsMatchAccounts ==
  ~disturbed /\ UnderWay = {} => NoOrphans(owed) /\ NoneMissing(owed)
=============================================================================
