-------------------------- MODULE CredentialsProofs --------------------------
(***************************************************************************)
(* Proofs about Credentials.                                               *)
(*                                                                         *)
(* That the cache is fresh is not inductive: a read that has its value and *)
(* is about to publish it may hold an old one.  Such a read is harmless    *)
(* only because its old value was overtaken by an entry that is not older  *)
(* than the read, which is what `Overtaken' says and what the strict       *)
(* comparison of publish_if_fresh looks for.                               *)
(***************************************************************************)
EXTENDS Credentials, TLAPS

ReaderActions(t) ==
  \/ \E k \in Key : Begin(t, k)
  \/ Look(t) \/ ReadKeyring(t) \/ ReadFails(t) \/ Publish(t)

-----------------------------------------------------------------------------
(* Types. *)

LEMMA QuietType ==
  ASSUME NEW k \in Key PROVE Quiet(k) \in ReaderState
  BY DEF Quiet, ReaderState, Value

LEMMA KeyExists == \E k : k \in Key
<1> PICK p \in Provider, h \in Host : TRUE BY CredentialsAssumption
<1>1. <<p, h>> \in Key BY DEF Key
<1> QED BY <1>1

LEMMA IdleType ==
  ASSUME NEW c \in Commander PROVE Idle(c) \in Command
<1>1. (CHOOSE p \in Provider : TRUE) \in Provider BY CredentialsAssumption
<1>2. (CHOOSE h \in Host : TRUE) \in Host BY CredentialsAssumption
<1>3. (CHOOSE s \in Secret : TRUE) \in Secret BY CredentialsAssumption
<1>5. (CHOOSE k \in Key : TRUE) \in Key BY KeyExists
<1> QED BY <1>1, <1>2, <1>3, <1>5 DEF Idle, Command, Steps

LEMMA WhatType ==
  ASSUME TypeOK, NEW c \in Commander
  PROVE  What(c) \in {"set", "remove"} \X Provider \X Host
<1>1. command[c] \in Command BY DEF TypeOK
<1> QED BY <1>1 DEF What, Command

\* What a read does to the types.
LEMMA ReaderTypes ==
  ASSUME TypeOK, NEW t \in Readers, ReaderActions(t)
  PROVE  TypeOK'
<1> USE DEF TypeOK
<1>1. CASE \E k \in Key : Begin(t, k)
  <2> PICK k \in Key : Begin(t, k) BY <1>1
  <2>1. Quiet(k) \in ReaderState BY QuietType
  <2> DEFINE fromVariables == [Quiet(k) EXCEPT !.step = "done", !.source = "environment"]
             looking == [Quiet(k) EXCEPT !.step = "look", !.started = now,
                                         !.undisturbed = ~Writing(k)]
  <2>2. fromVariables \in ReaderState /\ fromVariables.started = 0
    BY DEF Quiet, ReaderState, Value
  <2>3. (~Writing(k)) \in BOOLEAN BY Zenon
  <2>4. looking \in ReaderState /\ looking.started = now
    BY <2>3 DEF Quiet, ReaderState, Value
  <2> HIDE DEF fromVariables, looking
  <2>5. \/ reader' = [reader EXCEPT ![t] = fromVariables]
        \/ reader' = [reader EXCEPT ![t] = looking]
    BY DEF Begin, fromVariables, looking
  <2>6. reader' \in [Readers -> ReaderState] BY <2>2, <2>4, <2>5
  <2>7. \A u \in Readers : reader'[u].started <= now BY <2>2, <2>4, <2>5
  <2> QED BY <2>6, <2>7 DEF Begin
<1>2. CASE Look(t)
  <2>1. reader[t] \in ReaderState OBVIOUS
  <2>2. cache[reader[t].key].value \in Value BY DEF ReaderState
  <2> DEFINE v == cache[reader[t].key].value
             found == [reader[t] EXCEPT !.step = "done", !.value = v,
                                        !.source = IF v = None THEN "anonymous" ELSE "keyring"]
             reading == [reader[t] EXCEPT !.step = "read"]
  <2>3. found \in ReaderState /\ found.started = reader[t].started BY <2>1, <2>2 DEF ReaderState
  <2>4. reading \in ReaderState /\ reading.started = reader[t].started BY <2>1 DEF ReaderState
  <2>5. \/ reader' = [reader EXCEPT ![t] = found]
        \/ reader' = [reader EXCEPT ![t] = reading]
    BY <1>2 DEF Look, Got
  <2> HIDE DEF found, reading
  <2>6. reader' \in [Readers -> ReaderState] BY <2>3, <2>4, <2>5
  <2>7. \A u \in Readers : reader'[u].started = reader[u].started BY <2>3, <2>4, <2>5
  <2> QED BY <1>2, <2>6, <2>7 DEF Look
<1>3. CASE ReadKeyring(t)
  <2>1. reader[t] \in ReaderState OBVIOUS
  <2>2. keyring[reader[t].key] \in Value BY DEF ReaderState
  <2>3. reader' \in [Readers -> ReaderState] BY <1>3, <2>1, <2>2 DEF ReadKeyring, ReaderState
  <2>4. \A u \in Readers : reader'[u].started = reader[u].started
    BY <1>3 DEF ReadKeyring, ReaderState
  <2> QED BY <1>3, <2>3, <2>4 DEF ReadKeyring
<1>4. CASE ReadFails(t)
  <2>a. [reader[t] EXCEPT !.step = "done", !.undisturbed = FALSE] \in ReaderState
    BY DEF ReaderState
  <2>1. reader' \in [Readers -> ReaderState] BY <1>4, <2>a DEF ReadFails
  <2>2. \A u \in Readers : reader'[u].started = reader[u].started
    BY <1>4 DEF ReadFails, ReaderState
  <2> QED BY <1>4, <2>1, <2>2 DEF ReadFails
<1>5. CASE Publish(t)
  <2>1. reader[t] \in ReaderState OBVIOUS
  <2>2. reader[t].key \in Key /\ reader[t].value \in Value BY <2>1 DEF ReaderState
  <2>3. reader' \in [Readers -> ReaderState] BY <1>5, <2>1 DEF Publish, Got, ReaderState
  <2>4. \A u \in Readers : reader'[u].started = reader[u].started
    BY <1>5 DEF Publish, Got, ReaderState
  <2>5. Entry(reader[t].value) \in [at : 0 .. now, value : Value, there : BOOLEAN]
    BY <2>2 DEF Entry
  <2>6. cache' \in [Key -> [at : 0 .. now, value : Value, there : BOOLEAN]]
    BY <1>5, <2>2, <2>5 DEF Publish
  <2> QED BY <1>5, <2>3, <2>4, <2>6 DEF Publish
<1> QED BY <1>1, <1>2, <1>3, <1>4, <1>5 DEF ReaderActions

\* What a command does to the types.
LEMMA CommandTypes ==
  ASSUME TypeOK, NEW c \in Commander,
         \/ \E op \in {"set", "remove"}, p \in Provider, h \in Host, s \in Secret : Call(c, op, p, h, s)
         \/ Load(c) \/ Forget(c) \/ Store(c) \/ Uncache(c) \/ Recache(c) \/ Update(c) \/ Fails(c)
  PROVE  TypeOK'
<1> USE DEF TypeOK
<1>a. command[c] \in Command OBVIOUS
<1>b. \A s \in Steps : [command EXCEPT ![c].step = s] \in [Commander -> Command]
  BY <1>a DEF Command
<1>c. ASSUME NEW k \in Key, NEW v \in Value, NEW next \in Steps, Keep(c, k, v, next)
      PROVE  TypeOK'
  <2>1. command' \in [Commander -> Command] BY <1>a, <1>c DEF Keep, Command
  <2>a. \A u \in Readers : [reader[u] EXCEPT !.undisturbed = FALSE] \in ReaderState
    BY DEF ReaderState
  <2>2. reader' \in [Readers -> ReaderState] BY <1>c, <2>a DEF Keep
  <2>3. \A u \in Readers : reader'[u].started = reader[u].started
    BY <1>c DEF Keep, ReaderState
  <2>4. keyring' \in [Key -> Value] BY <1>c DEF Keep
  <2>5. foreign' \subseteq Key BY <1>c DEF Keep
  <2> QED BY <1>c, <2>1, <2>2, <2>3, <2>4, <2>5 DEF Keep
<1>d. ASSUME NEW v \in Value
      PROVE  CacheAfter(c, v) \in [Key -> [at : 0 .. now, value : Value, there : BOOLEAN]]
  <2>1. Entry(v) \in [at : 0 .. now, value : Value, there : BOOLEAN] BY <1>d DEF Entry
  <2> QED BY <2>1 DEF CacheAfter
<1>1. CASE \E op \in {"set", "remove"}, p \in Provider, h \in Host, s \in Secret : Call(c, op, p, h, s)
  <2> PICK op \in {"set", "remove"}, p \in Provider, h \in Host, s \in Secret : Call(c, op, p, h, s)
    BY <1>1
  <2>1. [step |-> "load", op |-> op, provider |-> p, host |-> h, secret |-> s, key |-> <<p, h>>]
          \in Command
    BY DEF Command, Steps, Key
  <2>2. command' \in [Commander -> Command] BY <2>1 DEF Call
  <2> QED BY <2>2 DEF Call
<1>2. CASE Load(c)
  <2>1. accounts[command[c].host] \in Provider \cup {None} BY <1>a DEF Command
  <2>2. Replaces(c) => <<accounts[command[c].host], command[c].host>> \in Key
    BY <1>a, <2>1 DEF Replaces, Command, Key
  <2>3. command' \in [Commander -> Command]
    <3>1. CASE command[c].op = "remove" BY <1>2, <1>b, <3>1 DEF Load, Goto, Steps
    <3>2. CASE command[c].op # "remove" /\ Replaces(c)
      <4> DEFINE k == <<accounts[command[c].host], command[c].host>>
      <4>1. k \in Key BY <2>2, <3>2
      <4> HIDE DEF k
      <4>2. [command[c] EXCEPT !.step = "forget", !.key = k] \in Command
        BY <1>a, <4>1 DEF Command, Steps
      <4>3. command' = [command EXCEPT ![c] = [command[c] EXCEPT !.step = "forget", !.key = k]]
        BY <1>2, <3>2 DEF Load, k
      <4> QED BY <4>2, <4>3
    <3>3. CASE command[c].op # "remove" /\ ~Replaces(c)
      BY <1>2, <1>b, <3>3 DEF Load, Goto, Steps
    <3> QED BY <3>1, <3>2, <3>3
  <2> QED BY <1>2, <2>3 DEF Load
<1>3. CASE Forget(c)
  BY <1>3, <1>a, <1>c DEF Forget, Command, Value, Steps
<1>4. CASE Store(c)
  <2>1. <<command[c].provider, command[c].host>> \in Key /\ command[c].secret \in Value
    BY <1>a DEF Command, Key, Value
  <2> QED BY <1>4, <1>c, <2>1 DEF Store, Steps
<1>5. CASE Uncache(c)
  <2>1. command' \in [Commander -> Command] BY <1>5, <1>b DEF Uncache, Goto, Steps
  <2>2. cache' \in [Key -> [at : 0 .. now, value : Value, there : BOOLEAN]]
    BY <1>5, <1>d DEF Uncache, Value
  <2> QED BY <1>5, <2>1, <2>2 DEF Uncache
<1>6. CASE Recache(c)
  <2>1. command' \in [Commander -> Command] BY <1>6, <1>b DEF Recache, Goto, Steps
  <2>2. command[c].secret \in Value BY <1>a DEF Command, Value
  <2>3. cache' \in [Key -> [at : 0 .. now, value : Value, there : BOOLEAN]]
    BY <1>6, <1>d, <2>2 DEF Recache
  <2> QED BY <1>6, <2>1, <2>3 DEF Recache
<1>7. CASE Update(c)
  <2>1. command' \in [Commander -> Command] BY <1>7, <1>b DEF Update, Goto, Steps
  <2>2. Account(c) \in Provider \cup {None} BY <1>a DEF Account, Command
  <2>3. accounts' \in [Host -> Provider \cup {None}] BY <1>7, <2>2 DEF Update
  <2> QED BY <1>7, <2>1, <2>3 DEF Update
<1>8. CASE Fails(c)
  <2>1. command' \in [Commander -> Command] BY <1>8, <1>b DEF Fails, Goto, Steps
  <2>2. owed' \subseteq {"set", "remove"} \X Provider \X Host BY <1>8, WhatType DEF Fails
  <2> QED BY <1>8, <2>1, <2>2 DEF Fails
<1> QED BY <1>1, <1>2, <1>3, <1>4, <1>5, <1>6, <1>7, <1>8

LEMMA TypesInit == Init => TypeOK
<1> SUFFICES ASSUME Init PROVE TypeOK OBVIOUS
<1>2. Quiet(CHOOSE k \in Key : TRUE) \in ReaderState BY KeyExists, QuietType
<1>3. reader \in [Readers -> ReaderState] BY <1>2 DEF Init
<1>4. \A t \in Readers : reader[t].started <= now BY DEF Init, Quiet
<1>5. command \in [Commander -> Command] BY IdleType DEF Init
<1>6. cache \in [Key -> [at : 0 .. now, value : Value, there : BOOLEAN]]
  BY DEF Init, NoEntry, Value
<1> QED BY <1>3, <1>4, <1>5, <1>6 DEF Init, TypeOK

LEMMA TypesStep == TypeOK /\ [Next]_vars => TypeOK'
<1> SUFFICES ASSUME TypeOK, [Next]_vars PROVE TypeOK' OBVIOUS
<1>1. CASE \E t \in Readers : ReaderActions(t) BY <1>1, ReaderTypes
<1>2. CASE \E c \in Commander :
        \/ \E op \in {"set", "remove"}, p \in Provider, h \in Host, s \in Secret : Call(c, op, p, h, s)
        \/ Load(c) \/ Forget(c) \/ Store(c) \/ Uncache(c) \/ Recache(c) \/ Update(c) \/ Fails(c)
  BY <1>2, CommandTypes
<1>3. CASE Restart
  <2>2. Quiet(CHOOSE k \in Key : TRUE) \in ReaderState BY KeyExists, QuietType
  <2>3. reader' \in [Readers -> ReaderState] BY <1>3, <2>2 DEF Restart
  <2>4. \A t \in Readers : reader'[t].started <= now
    BY <1>3 DEF Restart, Quiet, TypeOK
  <2>5. command' \in [Commander -> Command]
    BY <1>3, IdleType DEF Restart, TypeOK, Commander
  <2>6. cache' \in [Key -> [at : 0 .. now, value : Value, there : BOOLEAN]]
    BY <1>3 DEF Restart, NoEntry, Value, TypeOK
  <2>7. owed' \subseteq {"set", "remove"} \X Provider \X Host
    BY <1>3, WhatType DEF Restart, TypeOK, UnderWay
  <2> QED BY <1>3, <2>3, <2>4, <2>5, <2>6, <2>7 DEF Restart, TypeOK
<1>4. CASE Tick
  <2>1. 0 .. now \subseteq 0 .. now' BY <1>4 DEF Tick, TypeOK
  <2>2. cache' \in [Key -> [at : 0 .. now', value : Value, there : BOOLEAN]]
    BY <1>4, <2>1 DEF Tick, TypeOK
  <2>3. \A t \in Readers : reader'[t].started <= now'
    BY <1>4 DEF Tick, TypeOK, ReaderState
  <2> QED BY <1>4, <2>2, <2>3 DEF Tick, TypeOK
<1>5. CASE UNCHANGED vars BY <1>5 DEF vars, TypeOK
<1> QED BY <1>1, <1>2, <1>3, <1>4, <1>5 DEF Next, ReaderActions

\* Every variable keeps its kind, for any number of readers, commands,
\* providers and hosts.
THEOREM CredentialTypes == Spec => []TypeOK
BY TypesInit, TypesStep, PTL DEF Spec

-----------------------------------------------------------------------------
(* The cache. *)

\* A read about to publish has the current value, or is overtaken.
Overtaken(t) ==
  LET r == reader[t]
  IN  r.step = "publish" /\ r.key \notin foreign
        => \/ r.value = keyring[r.key]
           \/ Writing(r.key)
           \/ cache[r.key].there /\ cache[r.key].at >= r.started

\* No write has begun under a read that counts as undisturbed.
KeptApart(t) ==
  LET r == reader[t]
  IN  r.undisturbed /\ r.key \notin foreign
        => /\ ~Writing(r.key)
           /\ r.step = "publish" => r.value = keyring[r.key]
           /\ r.step = "done" /\ r.source # "environment" => r.value = keyring[r.key]

\* What the form is about to put into the cache is in the keyring.
FormWrites ==
  LET m == command[Form]
  IN  m.key \notin foreign
        => /\ m.step = "uncache" => keyring[m.key] = None
           /\ m.step = "cache" => keyring[m.key] = m.secret

FreshInv ==
  /\ CacheIsFresh /\ FormWrites
  /\ \A t \in Readers : Overtaken(t) /\ KeptApart(t)

\* Whatever reads are left alone stay as good as they were.
LEMMA OtherReads ==
  ASSUME TypeOK, FreshInv, UNCHANGED <<keyring, command, foreign>>,
         \A k \in Key : cache'[k] = cache[k] \/ (cache'[k].there /\ cache'[k].at = now),
         NEW u \in Readers, reader'[u] = reader[u]
  PROVE  Overtaken(u)' /\ KeptApart(u)'
<1>1. reader[u] \in ReaderState /\ reader[u].started <= now BY DEF TypeOK
<1>2. reader[u].key \in Key /\ reader[u].started \in Nat /\ now \in Nat
  BY <1>1 DEF ReaderState, TypeOK
<1>3. Writing(reader[u].key)' <=> Writing(reader[u].key) BY DEF Writing
<1>4. Overtaken(u) /\ KeptApart(u) BY DEF FreshInv
<1>5. Overtaken(u)' BY <1>1, <1>2, <1>3, <1>4 DEF Overtaken
<1>6. KeptApart(u)' BY <1>3, <1>4 DEF KeptApart
<1> QED BY <1>5, <1>6

\* Reads.
LEMMA ReaderFresh ==
  ASSUME TypeOK, FreshInv, NEW t \in Readers, ReaderActions(t)
  PROVE  FreshInv'
<1>a. /\ reader[t] \in ReaderState /\ reader[t].key \in Key
      /\ reader[t].started \in Nat /\ reader[t].started <= now /\ now \in Nat
  BY DEF ReaderState, TypeOK
<1>c. UNCHANGED <<keyring, command, foreign, now>>
  BY DEF ReaderActions, Begin, Look, ReadKeyring, ReadFails, Publish
<1>d. \A k : Writing(k)' <=> Writing(k) BY <1>c DEF Writing
<1>e. FormWrites' BY <1>c DEF FreshInv, FormWrites
<1>f. \A u \in Readers \ {t} : reader'[u] = reader[u]
  BY DEF ReaderActions, Begin, Look, ReadKeyring, ReadFails, Publish, Got, TypeOK
<1>g. \A k \in Key : cache'[k] = cache[k] \/ (cache'[k].there /\ cache'[k].at = now)
  <2>1. CASE Publish(t) BY <1>a, <2>1 DEF Publish, Entry, TypeOK
  <2>2. CASE cache' = cache BY <2>2
  <2> QED BY <2>1, <2>2 DEF ReaderActions, Begin, Look, ReadKeyring, ReadFails
<1>h. SUFFICES CacheIsFresh' /\ Overtaken(t)' /\ KeptApart(t)'
  BY <1>c, <1>e, <1>f, <1>g, OtherReads DEF FreshInv
<1>i. CacheIsFresh /\ Overtaken(t) /\ KeptApart(t) BY DEF FreshInv
<1>j. cache' = cache => CacheIsFresh' BY <1>c, <1>d, <1>i DEF CacheIsFresh
<1>1. CASE \E k \in Key : Begin(t, k)
  <2> PICK k \in Key : Begin(t, k) BY <1>1
  <2>1. cache' = cache BY DEF Begin
  <2>2. \/ reader'[t].step = "done" /\ reader'[t].undisturbed = FALSE
        \/ /\ reader'[t].step = "look" /\ reader'[t].key = k
           /\ reader'[t].undisturbed = ~Writing(k)
    BY DEF Begin, Quiet, TypeOK
  <2>3. Overtaken(t)' BY <2>2 DEF Overtaken
  <2>4. KeptApart(t)' BY <2>2, <1>d DEF KeptApart
  <2> QED BY <1>j, <2>1, <2>3, <2>4
<1>2. CASE Look(t)
  <2>1. cache' = cache BY <1>2 DEF Look
  <2>2. /\ reader'[t].key = reader[t].key /\ reader'[t].undisturbed = reader[t].undisturbed
        /\ \/ reader'[t].step = "read"
           \/ /\ reader'[t].step = "done" /\ Recent(reader[t].key)
              /\ reader'[t].value = cache[reader[t].key].value
    BY <1>2, <1>a DEF Look, Got, ReaderState, TypeOK
  <2>3. Overtaken(t)' BY <2>2 DEF Overtaken
  <2>4. reader'[t].step = "done" /\ ~Writing(reader[t].key) /\ reader[t].key \notin foreign
          => reader'[t].value = keyring[reader[t].key]
    BY <1>a, <1>i, <2>2 DEF CacheIsFresh, Recent
  <2>5. KeptApart(t)' BY <1>c, <1>d, <1>i, <2>2, <2>4 DEF KeptApart
  <2> QED BY <1>j, <2>1, <2>3, <2>5
<1>3. CASE ReadKeyring(t)
  <2>1. cache' = cache BY <1>3 DEF ReadKeyring
  <2>2. /\ reader'[t].key = reader[t].key /\ reader'[t].undisturbed = reader[t].undisturbed
        /\ reader'[t].step = "publish" /\ reader'[t].value = keyring[reader[t].key]
    BY <1>3, <1>a DEF ReadKeyring, ReaderState, TypeOK
  <2>3. Overtaken(t)' BY <1>c, <2>2 DEF Overtaken
  <2>4. KeptApart(t)' BY <1>c, <1>d, <1>i, <2>2 DEF KeptApart
  <2> QED BY <1>j, <2>1, <2>3, <2>4
<1>4. CASE ReadFails(t)
  <2>1. cache' = cache BY <1>4 DEF ReadFails
  <2>2. reader'[t].step = "done" /\ reader'[t].undisturbed = FALSE
    BY <1>4, <1>a DEF ReadFails, ReaderState, TypeOK
  <2>3. Overtaken(t)' BY <2>2 DEF Overtaken
  <2>4. KeptApart(t)' BY <2>2 DEF KeptApart
  <2> QED BY <1>j, <2>1, <2>3, <2>4
<1>5. CASE Publish(t)
  <2>1. /\ reader'[t].key = reader[t].key /\ reader'[t].undisturbed = reader[t].undisturbed
        /\ reader'[t].step = "done" /\ reader'[t].value = reader[t].value
    BY <1>5, <1>a DEF Publish, Got, ReaderState, TypeOK
  <2>2. Overtaken(t)' BY <2>1 DEF Overtaken
  <2>3. KeptApart(t)' BY <1>5, <1>c, <1>d, <1>i, <2>1 DEF KeptApart, Publish
  <2>4. cache' = cache \/ (Fresh(t) /\ cache' = [cache EXCEPT ![reader[t].key] = Entry(reader[t].value)])
    BY <1>5 DEF Publish, TypeOK
  <2>5. CASE Fresh(t) /\ cache' = [cache EXCEPT ![reader[t].key] = Entry(reader[t].value)]
    <3> DEFINE k == reader[t].key
    <3>1. cache[k].at \in Nat BY <1>a DEF TypeOK
    <3>2. ~(cache[k].there /\ cache[k].at >= reader[t].started)
      BY <1>a, <2>5, <3>1 DEF Fresh
    <3>3. k \notin foreign /\ ~Writing(k) => reader[t].value = keyring[k]
      BY <1>5, <1>i, <3>2 DEF Overtaken, Publish
    <3>4. cache'[k].value = reader[t].value /\ \A j \in Key \ {k} : cache'[j] = cache[j]
      BY <1>a, <2>5 DEF Entry, TypeOK
    <3>5. CacheIsFresh' BY <1>c, <1>d, <1>i, <3>3, <3>4 DEF CacheIsFresh
    <3> QED BY <2>2, <2>3, <3>5
  <2> QED BY <1>j, <2>2, <2>3, <2>4, <2>5
<1> QED BY <1>1, <1>2, <1>3, <1>4, <1>5 DEF ReaderActions

\* A step of a command that touches neither keyring nor cache, and of the
\* form only outside of its writes.
LEMMA CommandAside ==
  ASSUME TypeOK, FreshInv, UNCHANGED <<keyring, cache, reader, foreign>>,
         \/ command'[Form] = command[Form]
         \/ {command[Form].step, command'[Form].step} \cap {"uncache", "cache"} = {}
  PROVE  FreshInv'
<1>1. \A k : Writing(k)' <=> Writing(k) BY DEF Writing
<1>2. CacheIsFresh' BY <1>1 DEF FreshInv, CacheIsFresh
<1>3. FormWrites' BY DEF FreshInv, FormWrites
<1>4. ASSUME NEW u \in Readers PROVE Overtaken(u)' /\ KeptApart(u)'
  BY <1>1 DEF FreshInv, Overtaken, KeptApart
<1> QED BY <1>2, <1>3, <1>4 DEF FreshInv

\* A write of the keyring.
LEMMA KeepFresh ==
  ASSUME TypeOK, FreshInv, NEW c \in Commander, NEW k \in Key, NEW v \in Value,
         NEW next, Keep(c, k, v, next), command[c].step \notin {"uncache", "cache"},
         \/ next = "uncache" /\ v = None
         \/ next = "cache" /\ v = command[c].secret
  PROVE  FreshInv'
<1>a. /\ command[c] \in Command /\ command' = [command EXCEPT ![c].step = next, ![c].key = k]
      /\ cache' = cache /\ keyring' = [keyring EXCEPT ![k] = v]
      /\ foreign' = IF c = Form THEN foreign ELSE foreign \cup {k}
  BY DEF Keep, TypeOK
<1>b. \A j \in Key \ {k} : keyring'[j] = keyring[j] BY <1>a DEF TypeOK
<1>c. keyring'[k] = v BY <1>a DEF TypeOK
<1>d. \A u \in Readers :
        /\ reader'[u].key = reader[u].key /\ reader'[u].step = reader[u].step
        /\ reader'[u].value = reader[u].value /\ reader'[u].started = reader[u].started
        /\ reader'[u].source = reader[u].source
        /\ reader'[u].undisturbed => reader[u].undisturbed /\ reader[u].key # k
  BY DEF Keep, ReaderState, TypeOK
<1>e. \A u \in Readers : reader[u].key \in Key BY DEF TypeOK, ReaderState
<1>1. CASE c = Form
  <2>1. command'[Form].step = next /\ command'[Form].key = k
        /\ command'[Form].secret = command[Form].secret
    BY <1>1, <1>a DEF Command, TypeOK
  <2>2. \A j : ~Writing(j) BY <1>1 DEF Writing
  <2>3. \A j : Writing(j)' <=> j = k BY <2>1 DEF Writing
  <2>4. CacheIsFresh' BY <1>1, <1>a, <1>b, <2>2, <2>3 DEF FreshInv, CacheIsFresh
  <2>5. FormWrites' BY <1>1, <1>c, <2>1 DEF FormWrites
  <2>6. ASSUME NEW u \in Readers PROVE Overtaken(u)'
    BY <1>1, <1>a, <1>b, <1>d, <1>e, <2>2, <2>3 DEF FreshInv, Overtaken
  <2>7. ASSUME NEW u \in Readers PROVE KeptApart(u)'
    BY <1>1, <1>a, <1>b, <1>d, <1>e, <2>2, <2>3 DEF FreshInv, KeptApart
  <2> QED BY <2>4, <2>5, <2>6, <2>7 DEF FreshInv
<1>2. CASE c # Form
  <2>1. command'[Form] = command[Form] BY <1>2, <1>a DEF TypeOK, Commander
  <2>2. \A j : Writing(j)' <=> Writing(j) BY <2>1 DEF Writing
  <2>3. foreign' = foreign \cup {k} BY <1>2, <1>a
  <2>4. CacheIsFresh' BY <1>a, <1>b, <2>2, <2>3 DEF FreshInv, CacheIsFresh
  <2>5. command[Form].key \in Key BY DEF TypeOK, Command, Commander
  <2>6. FormWrites' BY <1>b, <2>1, <2>3, <2>5 DEF FreshInv, FormWrites
  <2>7. ASSUME NEW u \in Readers PROVE Overtaken(u)'
    BY <1>a, <1>b, <1>d, <1>e, <2>2, <2>3 DEF FreshInv, Overtaken
  <2>8. ASSUME NEW u \in Readers PROVE KeptApart(u)'
    BY <1>b, <1>d, <1>e, <2>2, <2>3 DEF FreshInv, KeptApart
  <2> QED BY <2>4, <2>6, <2>7, <2>8 DEF FreshInv
<1> QED BY <1>1, <1>2

\* The form brings the cache up to date with what it has written.
LEMMA FormPublishes ==
  ASSUME TypeOK, FreshInv, NEW v \in Value, UNCHANGED <<keyring, reader, foreign>>,
         cache' = [cache EXCEPT ![command[Form].key] = Entry(v)],
         \/ command[Form].step = "uncache" /\ v = None
         \/ command[Form].step = "cache" /\ v = command[Form].secret,
         command'[Form].step \notin {"uncache", "cache"}
  PROVE  FreshInv'
<1> DEFINE k == command[Form].key
<1>1. k \in Key BY DEF TypeOK, Command, Commander
<1>2. /\ cache'[k].value = v /\ cache'[k].there /\ cache'[k].at = now
      /\ \A j \in Key \ {k} : cache'[j] = cache[j]
  BY <1>1 DEF Entry, TypeOK
<1>3. k \notin foreign => keyring[k] = v BY DEF FreshInv, FormWrites
<1>4. (\A j : Writing(j) <=> j = k) /\ (\A j : ~Writing(j)') BY DEF Writing
<1> HIDE DEF k
<1>5. CacheIsFresh' BY <1>2, <1>3, <1>4 DEF FreshInv, CacheIsFresh
<1>6. FormWrites' BY DEF FormWrites
<1>7. ASSUME NEW u \in Readers PROVE Overtaken(u)' /\ KeptApart(u)'
  <2>1. reader[u].key \in Key /\ reader[u].started <= now BY DEF TypeOK, ReaderState
  <2>2. reader[u].started \in Nat /\ now \in Nat BY DEF TypeOK, ReaderState
  <2>3. Overtaken(u)' BY <1>2, <1>4, <2>1, <2>2 DEF FreshInv, Overtaken
  <2>4. KeptApart(u)' BY <1>4 DEF FreshInv, KeptApart
  <2> QED BY <2>3, <2>4
<1> QED BY <1>5, <1>6, <1>7 DEF FreshInv

\* Commands.
LEMMA CommandFresh ==
  ASSUME TypeOK, FreshInv, NEW c \in Commander,
         \/ \E op \in {"set", "remove"}, p \in Provider, h \in Host, s \in Secret : Call(c, op, p, h, s)
         \/ Load(c) \/ Forget(c) \/ Store(c) \/ Uncache(c) \/ Recache(c) \/ Update(c) \/ Fails(c)
  PROVE  FreshInv'
<1>a. command[c] \in Command /\ command \in [Commander -> Command] /\ Form \in Commander
  BY DEF TypeOK, Commander
<1>1. CASE \E op \in {"set", "remove"}, p \in Provider, h \in Host, s \in Secret : Call(c, op, p, h, s)
  <2> PICK op \in {"set", "remove"}, p \in Provider, h \in Host, s \in Secret : Call(c, op, p, h, s)
    BY <1>1
  <2>1. command'[Form] = command[Form]
          \/ {command[Form].step, command'[Form].step} \cap {"uncache", "cache"} = {}
    BY <1>a DEF Call
  <2> QED BY <2>1, CommandAside DEF Call
<1>2. CASE Load(c)
  <2>1. command'[c].step \in {"forget", "store"} BY <1>2, <1>a DEF Load, Goto, Command
  <2>2. \A d \in Commander \ {c} : command'[d] = command[d] BY <1>2, <1>a DEF Load, Goto
  <2>3. command'[Form] = command[Form]
          \/ {command[Form].step, command'[Form].step} \cap {"uncache", "cache"} = {}
    BY <1>2, <1>a, <2>1, <2>2 DEF Load
  <2> QED BY <1>2, <2>3, CommandAside DEF Load
<1>3. CASE Forget(c)
  <2> SUFFICES ASSUME NEW v \in Value, v = None PROVE FreshInv' BY DEF Value
  <2>1. command[c].key \in Key BY <1>a DEF Command
  <2>2. Keep(c, command[c].key, v, "uncache") /\ command[c].step = "forget"
    BY <1>3 DEF Forget
  <2> QED BY <2>1, <2>2, KeepFresh
<1>4. CASE Store(c)
  <2>1. <<command[c].provider, command[c].host>> \in Key /\ command[c].secret \in Value
    BY <1>a DEF Command, Key, Value
  <2> QED BY <1>4, <2>1, KeepFresh DEF Store
<1>5. CASE Uncache(c)
  <2>1. command'[c].step \in {"update", "store"} BY <1>5, <1>a DEF Uncache, Goto, Command
  <2>2. CASE c = Form
    <3> SUFFICES ASSUME NEW v \in Value, v = None PROVE FreshInv' BY DEF Value
    <3>1. /\ command[Form].step = "uncache" /\ command'[Form].step \notin {"uncache", "cache"}
          /\ UNCHANGED <<keyring, reader, foreign>>
          /\ cache' = [cache EXCEPT ![command[Form].key] = Entry(v)]
      BY <1>5, <2>1, <2>2 DEF Uncache, CacheAfter
    <3> QED BY <3>1, FormPublishes
  <2>3. CASE c # Form
    BY <1>5, <1>a, <2>3, CommandAside DEF Uncache, CacheAfter, Goto
  <2> QED BY <2>2, <2>3
<1>6. CASE Recache(c)
  <2>1. command'[c].step = "update" BY <1>6, <1>a DEF Recache, Goto, Command
  <2>2. command[c].secret \in Value BY <1>a DEF Command, Value
  <2>3. CASE c = Form
    BY <1>6, <2>1, <2>2, <2>3, FormPublishes DEF Recache, CacheAfter
  <2>4. CASE c # Form
    BY <1>6, <1>a, <2>4, CommandAside DEF Recache, CacheAfter, Goto
  <2> QED BY <2>3, <2>4
<1>7. CASE Update(c)
  <2>1. command'[Form] = command[Form]
          \/ {command[Form].step, command'[Form].step} \cap {"uncache", "cache"} = {}
    BY <1>7, <1>a DEF Update, Goto, Command
  <2> QED BY <1>7, <2>1, CommandAside DEF Update
<1>8. CASE Fails(c)
  <2>1. command'[Form] = command[Form]
          \/ {command[Form].step, command'[Form].step} \cap {"uncache", "cache"} = {}
    BY <1>8, <1>a DEF Fails, Goto, Command
  <2> QED BY <1>8, <2>1, CommandAside DEF Fails
<1> QED BY <1>1, <1>2, <1>3, <1>4, <1>5, <1>6, <1>7, <1>8

LEMMA FreshInit == Init => FreshInv
<1> SUFFICES ASSUME Init PROVE FreshInv OBVIOUS
<1>1. CacheIsFresh BY DEF Init, CacheIsFresh, NoEntry
<1>2. command[Form].step = "idle" BY DEF Init, Idle, Commander
<1>3. FormWrites BY <1>2 DEF FormWrites
<1>4. \A t \in Readers : reader[t].step = "idle" /\ reader[t].undisturbed = FALSE
  BY DEF Init, Quiet
<1>5. \A t \in Readers : Overtaken(t) /\ KeptApart(t) BY <1>4 DEF Overtaken, KeptApart
<1> QED BY <1>1, <1>3, <1>5 DEF FreshInv

LEMMA FreshStep == TypeOK /\ FreshInv /\ [Next]_vars => FreshInv'
<1> SUFFICES ASSUME TypeOK, FreshInv, [Next]_vars PROVE FreshInv' OBVIOUS
<1>1. CASE \E t \in Readers : ReaderActions(t) BY <1>1, ReaderFresh
<1>2. CASE \E c \in Commander :
        \/ \E op \in {"set", "remove"}, p \in Provider, h \in Host, s \in Secret : Call(c, op, p, h, s)
        \/ Load(c) \/ Forget(c) \/ Store(c) \/ Uncache(c) \/ Recache(c) \/ Update(c) \/ Fails(c)
  BY <1>2, CommandFresh
<1>3. CASE Restart
  <2>1. CacheIsFresh' BY <1>3 DEF Restart, CacheIsFresh, NoEntry
  <2>2. command'[Form].step = "idle" BY <1>3 DEF Restart, Idle, Commander, TypeOK
  <2>3. FormWrites' BY <2>2 DEF FormWrites
  <2>4. \A t \in Readers : reader'[t].step = "idle" /\ reader'[t].undisturbed = FALSE
    BY <1>3 DEF Restart, Quiet
  <2>5. \A t \in Readers : Overtaken(t)' /\ KeptApart(t)' BY <2>4 DEF Overtaken, KeptApart
  <2> QED BY <2>1, <2>3, <2>5 DEF FreshInv
<1>4. CASE Tick BY <1>4, CommandAside DEF Tick
<1>5. CASE UNCHANGED vars BY <1>5, CommandAside DEF vars
<1> QED BY <1>1, <1>2, <1>3, <1>4, <1>5 DEF Next, ReaderActions

\* The cache of the dashboard never holds anything but what the keyring holds,
\* for any number of reads and commands and any time to live, but for what
\* other processes have written and a write that is half done.
THEOREM CacheStaysFresh == Spec => []CacheIsFresh
<1>1. FreshInv => CacheIsFresh BY DEF FreshInv
<1> QED BY <1>1, TypesInit, TypesStep, FreshInit, FreshStep, PTL DEF Spec

\* A read that no write of its key overlaps finds what the form wrote last.
THEOREM OwnWritesAreRead == Spec => []ReadsOwnWrites
<1>1. FreshInv => ReadsOwnWrites BY DEF FreshInv, KeptApart, ReadsOwnWrites
<1> QED BY <1>1, TypesInit, TypesStep, FreshInit, FreshStep, PTL DEF Spec

-----------------------------------------------------------------------------
(* Secrets and accounts. *)

\* What may be between keyring and accounts: the commands that failed, and the
\* one that is under way, as if it failed now.
Open == owed \cup {What(c) : c \in UnderWay}

\* What each step of a command c relies on: which secret goes, that the one of
\* the provider it replaces is gone, and that its own is there, or gone.
Phase(c) ==
  LET m == command[c]
      replaced == accounts[m.host] \notin {None, m.provider}
  IN
  /\ m.step = "load" => m.key = <<m.provider, m.host>>
  /\ m.step \in {"forget", "uncache"} =>
       /\ m.op = "remove" => m.key = <<m.provider, m.host>>
       /\ m.op = "set" => replaced /\ m.key = <<accounts[m.host], m.host>>
  /\ m.step = "uncache" => keyring[m.key] = None
  /\ m.step \in {"store", "cache"} => m.op = "set"
  /\ m.step \in {"store", "cache", "update"} /\ m.op = "set" /\ replaced =>
       keyring[<<accounts[m.host], m.host>>] = None
  /\ m.step \in {"cache", "update"} /\ m.op = "set" => keyring[<<m.provider, m.host>>] # None
  /\ m.step = "update" /\ m.op = "remove" => keyring[<<m.provider, m.host>>] = None

SecretsInv ==
  ~disturbed =>
    /\ \A c, d \in UnderWay : c = d
    /\ \A c \in Commander : Phase(c)
    /\ NoOrphans(Open) /\ NoneMissing(Open)

\* A step of command c alone that goes on with it: what has to be shown is its
\* next phase, and what it does to keyring and accounts.
LEMMA SecretsOf ==
  ASSUME TypeOK, SecretsInv, NEW c \in Commander, c \in UnderWay, c \in UnderWay',
         \A d \in Commander \ {c} : command'[d] = command[d],
         What(c)' = What(c), UNCHANGED <<owed, disturbed>>,
         ~disturbed => /\ Phase(c)'
                       /\ NoOrphans(Open)' /\ NoneMissing(Open)'
  PROVE  SecretsInv'
<1> SUFFICES ASSUME ~disturbed' PROVE
      /\ \A e, d \in UnderWay' : e = d
      /\ \A d \in Commander : Phase(d)'
      /\ NoOrphans(Open)' /\ NoneMissing(Open)'
  BY DEF SecretsInv
<1>1. \A d \in Commander \ {c} : command'[d].step = "idle" BY DEF SecretsInv, UnderWay
<1>2. \A d \in Commander \ {c} : Phase(d)' BY <1>1 DEF Phase
<1> QED BY <1>1, <1>2 DEF UnderWay

\* While c goes on, what is open stays.
LEMMA OpenStays ==
  ASSUME NEW c \in Commander, c \in UnderWay, c \in UnderWay',
         \A d \in Commander \ {c} : command'[d] = command[d],
         What(c)' = What(c), UNCHANGED owed
  PROVE  Open' = Open /\ What(c) \in Open
<1>1. UnderWay' = UnderWay BY DEF UnderWay
<1>2. \A d \in Commander : What(d)' = What(d) BY DEF What
<1>3. UnderWay \subseteq Commander BY DEF UnderWay
<1> QED BY <1>1, <1>2, <1>3 DEF Open

\* A step that leaves keyring and accounts alone, and the commands up to what an
\* idle one holds.
LEMMA SecretsAside ==
  ASSUME SecretsInv, UNCHANGED <<keyring, accounts, owed, disturbed>>,
         \A c \in Commander :
           command'[c] = command[c] \/ (command[c].step = "idle" /\ command'[c].step = "idle")
  PROVE  SecretsInv'
<1>1. UnderWay' = UnderWay BY DEF UnderWay
<1>2. \A c \in UnderWay : What(c)' = What(c) BY DEF UnderWay, What
<1>3. Open' = Open BY <1>1, <1>2 DEF Open
<1>4. ASSUME ~disturbed PROVE \A d \in Commander : Phase(d)'
  <2> TAKE d \in Commander
  <2>1. CASE command'[d].step = "idle" BY <2>1 DEF Phase
  <2>2. CASE command'[d] = command[d]
    <3>1. Phase(d) BY <1>4 DEF SecretsInv
    <3> QED BY <2>2, <3>1 DEF Phase
  <2> QED BY <2>1, <2>2
<1> QED BY <1>1, <1>3, <1>4 DEF SecretsInv, NoOrphans, NoneMissing

\* A command that stops before its end leaves what was open.
LEMMA SecretsStop ==
  ASSUME SecretsInv, NEW c \in Commander, UNCHANGED <<keyring, accounts, disturbed>>,
         command'[c].step = "idle",
         \A d \in Commander \ {c} : command'[d] = command[d],
         owed' = owed \cup {What(d) : d \in {c} \cap UnderWay}
  PROVE  SecretsInv'
<1>1. UnderWay' = UnderWay \ {c} BY DEF UnderWay
<1>2. \A d \in UnderWay' : What(d)' = What(d) BY <1>1 DEF What, UnderWay
<1>3. Open' = Open BY <1>1, <1>2 DEF Open
<1>4. ASSUME ~disturbed PROVE \A d \in Commander : Phase(d)'
  <2> TAKE d \in Commander
  <2>1. CASE d = c BY <2>1 DEF Phase
  <2>2. CASE d # c
    <3>1. Phase(d) BY <1>4 DEF SecretsInv
    <3> QED BY <2>2, <3>1 DEF Phase
  <2> QED BY <2>1, <2>2
<1> QED BY <1>1, <1>3, <1>4 DEF SecretsInv, NoOrphans, NoneMissing

LEMMA CallSecrets ==
  ASSUME TypeOK, SecretsInv, NEW c \in Commander, NEW op \in {"set", "remove"},
         NEW p \in Provider, NEW h \in Host, NEW s \in Secret, Call(c, op, p, h, s)
  PROVE  SecretsInv'
<1> SUFFICES ASSUME ~disturbed' PROVE
      /\ \A e, d \in UnderWay' : e = d
      /\ \A d \in Commander : Phase(d)'
      /\ NoOrphans(Open)' /\ NoneMissing(Open)'
  BY DEF SecretsInv
<1>1. ~disturbed /\ \A d \in Commander : command[d].step = "idle" BY DEF Call, Alone
<1>2. /\ command'[c].step = "load"
      /\ command'[c].key = <<command'[c].provider, command'[c].host>>
      /\ \A d \in Commander \ {c} : command'[d] = command[d]
  BY DEF Call, TypeOK
<1>3. UNCHANGED <<keyring, accounts, owed>> BY DEF Call
<1>4. Phase(c)' BY <1>2 DEF Phase
<1>5. \A d \in Commander \ {c} : Phase(d)' BY <1>1, <1>2 DEF Phase
<1>6. Open = owed /\ Open \subseteq Open'
  BY <1>1, <1>3 DEF Open, UnderWay
<1>7. NoOrphans(Open)' /\ NoneMissing(Open)'
  BY <1>1, <1>3, <1>6 DEF SecretsInv, NoOrphans, NoneMissing
<1> QED BY <1>1, <1>2, <1>4, <1>5, <1>7 DEF UnderWay

LEMMA CommandSecrets ==
  ASSUME TypeOK, SecretsInv, NEW c \in Commander,
         Load(c) \/ Forget(c) \/ Store(c) \/ Uncache(c) \/ Recache(c)
  PROVE  SecretsInv'
<1> DEFINE m == command[c]
           n == command'[c]
<1>a. /\ m \in Command /\ command \in [Commander -> Command]
      /\ keyring \in [Key -> Value] /\ accounts \in [Host -> Provider \cup {None}]
  BY DEF TypeOK
<1>b. /\ m.provider \in Provider /\ m.host \in Host /\ m.secret \in Secret /\ m.key \in Key
      /\ m.op \in {"set", "remove"} /\ m.secret # None
      /\ \A p \in Provider, h \in Host : <<p, h>> \in Key
  BY <1>a, CredentialsAssumption DEF Command, Key
<1>c. ~disturbed => Phase(c) /\ NoOrphans(Open) /\ NoneMissing(Open) BY DEF SecretsInv
\* What every step keeps.
<1>d. /\ n.op = m.op /\ n.provider = m.provider /\ n.host = m.host
      /\ \A d \in Commander \ {c} : command'[d] = command[d]
      /\ UNCHANGED <<accounts, owed, disturbed>>
      /\ m.step # "idle" /\ n.step # "idle"
  <2>1. CASE Load(c) BY <1>a, <1>b, <2>1 DEF Load, Goto, Command
  <2>2. CASE Forget(c) BY <1>a, <1>b, <2>2 DEF Forget, Keep, Command
  <2>3. CASE Store(c) BY <1>a, <1>b, <2>3 DEF Store, Keep, Command
  <2>4. CASE Uncache(c) BY <1>a, <1>b, <2>4 DEF Uncache, Goto, Command
  <2>5. CASE Recache(c) BY <1>a, <1>b, <2>5 DEF Recache, Goto, Command
  <2> QED BY <2>1, <2>2, <2>3, <2>4, <2>5
<1>e. c \in UnderWay /\ c \in UnderWay' /\ What(c)' = What(c) BY <1>d DEF UnderWay, What
<1>f. Open' = Open /\ What(c) \in Open /\ What(c) = <<m.op, m.provider, m.host>>
  BY <1>d, <1>e, OpenStays DEF What
<1>g. SUFFICES ASSUME ~disturbed
               PROVE  Phase(c)' /\ NoOrphans(Open)' /\ NoneMissing(Open)'
  BY <1>d, <1>e, SecretsOf
<1>2. CASE Load(c)
  <2>1. /\ m.step = "load" /\ UNCHANGED keyring
        /\ \/ m.op = "remove" /\ n.step = "forget" /\ n.key = m.key
           \/ /\ m.op = "set" /\ Replaces(c) /\ n.step = "forget"
              /\ n.key = <<accounts[m.host], m.host>>
           \/ m.op = "set" /\ ~Replaces(c) /\ n.step = "store"
    BY <1>2, <1>a, <1>b DEF Load, Goto, Command
  <2>2. Phase(c)' BY <1>c, <1>d, <1>g, <2>1 DEF Phase, Replaces
  <2> QED BY <1>c, <1>d, <1>f, <1>g, <2>1, <2>2 DEF NoOrphans, NoneMissing
<1>3. CASE Forget(c)
  <2>1. m.step = "forget" /\ n.step = "uncache" /\ n.key = m.key
    BY <1>3, <1>a, <1>b DEF Forget, Keep, Command
  <2>2. /\ keyring'[m.key] = None
        /\ \A k \in Key \ {m.key} : keyring'[k] = keyring[k]
    BY <1>3, <1>a, <1>b DEF Forget, Keep
  <2>3. Phase(c)' BY <1>c, <1>d, <1>g, <2>1, <2>2 DEF Phase
  <2>4. NoOrphans(Open)'
    <3> SUFFICES ASSUME NEW p \in Provider, NEW h \in Host,
                        keyring'[<<p, h>>] # None, accounts[h] # p
                 PROVE  <<"set", p, h>> \in Open
      BY <1>d, <1>f DEF NoOrphans
    <3>1. keyring[<<p, h>>] # None BY <1>b, <2>2
    <3> QED BY <1>c, <1>g, <3>1 DEF NoOrphans
  <2>5. NoneMissing(Open)'
    <3> SUFFICES ASSUME NEW p \in Provider, NEW h \in Host,
                        accounts[h] = p, keyring'[<<p, h>>] = None
                 PROVE  \/ <<"remove", p, h>> \in Open
                        \/ \E q \in Provider \ {p} : <<"set", q, h>> \in Open
      BY <1>d, <1>f DEF NoneMissing
    <3>1. CASE <<p, h>> # m.key
      BY <1>b, <1>c, <1>g, <2>2, <3>1 DEF NoneMissing
    <3>2. CASE <<p, h>> = m.key /\ m.op = "remove"
      <4>1. p = m.provider /\ h = m.host BY <1>c, <1>g, <2>1, <3>2 DEF Phase
      <4> QED BY <1>f, <3>2, <4>1
    <3>3. CASE <<p, h>> = m.key /\ m.op = "set"
      <4>1. h = m.host /\ p # m.provider BY <1>c, <1>g, <2>1, <3>3 DEF Phase
      <4> QED BY <1>b, <1>f, <3>3, <4>1
    <3> QED BY <1>b, <3>1, <3>2, <3>3
  <2> QED BY <2>3, <2>4, <2>5
<1>4. CASE Store(c)
  <2> DEFINE k == <<m.provider, m.host>>
  <2>1. m.step = "store" /\ n.step = "cache" BY <1>4, <1>a, <1>b DEF Store, Keep, Command
  <2>2. /\ keyring'[k] = m.secret
        /\ \A l \in Key \ {k} : keyring'[l] = keyring[l]
    BY <1>4, <1>a, <1>b DEF Store, Keep
  <2>3. m.op = "set" BY <1>c, <1>g, <2>1 DEF Phase
  <2>4. accounts[m.host] \notin {None, m.provider} =>
          /\ <<accounts[m.host], m.host>> \in Key \ {k}
          /\ keyring[<<accounts[m.host], m.host>>] = None
    BY <1>a, <1>b, <1>c, <1>g, <2>1, <2>3 DEF Phase
  <2>5. Phase(c)' BY <1>b, <1>d, <2>1, <2>2, <2>3, <2>4 DEF Phase
  <2>6. NoOrphans(Open)'
    <3> SUFFICES ASSUME NEW p \in Provider, NEW h \in Host,
                        keyring'[<<p, h>>] # None, accounts[h] # p
                 PROVE  <<"set", p, h>> \in Open
      BY <1>d, <1>f DEF NoOrphans
    <3>1. CASE <<p, h>> = k BY <1>f, <2>3, <3>1
    <3>2. CASE <<p, h>> # k BY <1>b, <1>c, <1>g, <2>2, <3>2 DEF NoOrphans
    <3> QED BY <3>1, <3>2
  <2>7. NoneMissing(Open)'
    <3> SUFFICES ASSUME NEW p \in Provider, NEW h \in Host,
                        accounts[h] = p, keyring'[<<p, h>>] = None
                 PROVE  \/ <<"remove", p, h>> \in Open
                        \/ \E q \in Provider \ {p} : <<"set", q, h>> \in Open
      BY <1>d, <1>f DEF NoneMissing
    <3>1. <<p, h>> # k BY <1>b, <2>2
    <3> QED BY <1>b, <1>c, <1>g, <2>2, <3>1 DEF NoneMissing
  <2> QED BY <2>5, <2>6, <2>7
<1>5. CASE Uncache(c)
  <2>1. /\ m.step = "uncache" /\ UNCHANGED keyring /\ n.key = m.key
        /\ n.step = IF m.op = "remove" THEN "update" ELSE "store"
    BY <1>5, <1>a, <1>b DEF Uncache, Goto, Command
  <2>2. Phase(c)' BY <1>b, <1>c, <1>d, <1>g, <2>1 DEF Phase
  <2> QED BY <1>c, <1>d, <1>f, <1>g, <2>1, <2>2 DEF NoOrphans, NoneMissing
<1>6. CASE Recache(c)
  <2>1. m.step = "cache" /\ n.step = "update" /\ UNCHANGED keyring
    BY <1>6, <1>a, <1>b DEF Recache, Goto, Command
  <2>2. Phase(c)' BY <1>c, <1>d, <1>g, <2>1 DEF Phase
  <2> QED BY <1>c, <1>d, <1>f, <1>g, <2>1, <2>2 DEF NoOrphans, NoneMissing
<1> QED BY <1>2, <1>3, <1>4, <1>5, <1>6

\* The last step of a command settles what it may have left open before.
LEMMA UpdateSecrets ==
  ASSUME TypeOK, SecretsInv, NEW c \in Commander, Update(c) PROVE SecretsInv'
<1> DEFINE m == command[c]
<1> SUFFICES ASSUME ~disturbed' PROVE
      /\ \A e, d \in UnderWay' : e = d
      /\ \A d \in Commander : Phase(d)'
      /\ NoOrphans(Open)' /\ NoneMissing(Open)'
  BY DEF SecretsInv
<1>a. /\ m \in Command /\ accounts \in [Host -> Provider \cup {None}]
      /\ m.provider \in Provider /\ m.host \in Host /\ m.op \in {"set", "remove"}
  BY DEF TypeOK, Command
<1>1. /\ m.step = "update" /\ command'[c].step = "idle"
      /\ \A d \in Commander \ {c} : command'[d] = command[d]
      /\ UNCHANGED <<keyring, disturbed>> /\ owed' = owed \ {What(c)}
      /\ accounts'[m.host] = Account(c)
      /\ \A h \in Host \ {m.host} : accounts'[h] = accounts[h]
  BY <1>a DEF Update, Goto, TypeOK, Command
<1>2. Phase(c) /\ NoOrphans(Open) /\ NoneMissing(Open) BY <1>1 DEF SecretsInv
<1>3. UnderWay = {c} BY <1>1 DEF SecretsInv, UnderWay
<1>4. UnderWay' = {} BY <1>1, <1>3 DEF UnderWay
<1>5. \A d \in Commander : Phase(d)' BY <1>4 DEF Phase, UnderWay
<1>6. Open = owed \cup {What(c)} /\ Open' = Open \ {What(c)} BY <1>1, <1>3, <1>4 DEF Open
<1>7. What(c) = <<m.op, m.provider, m.host>> BY DEF What
<1>8. NoOrphans(Open)'
  <2> SUFFICES ASSUME NEW p \in Provider, NEW h \in Host,
                      keyring[<<p, h>>] # None, accounts'[h] # p
               PROVE  <<"set", p, h>> \in Open /\ <<"set", p, h>> # What(c)
    BY <1>1, <1>6 DEF NoOrphans
  <2>1. <<"set", p, h>> # What(c) BY <1>1, <1>7 DEF Account
  <2>2. accounts[h] # p
    <3>1. CASE h # m.host BY <1>1, <3>1
    <3>2. CASE h = m.host /\ m.op = "set"
      BY <1>1, <1>2, <1>a, <3>2, CredentialsAssumption DEF Account, Phase
    <3>3. CASE h = m.host /\ m.op = "remove" BY <1>1, <1>2, <3>3 DEF Account, Phase
    <3> QED BY <1>a, <3>1, <3>2, <3>3
  <2> QED BY <1>2, <2>1, <2>2 DEF NoOrphans
<1>9. NoneMissing(Open)'
  <2> SUFFICES ASSUME NEW p \in Provider, NEW h \in Host,
                      accounts'[h] = p, keyring[<<p, h>>] = None
               PROVE  \/ <<"remove", p, h>> \in Open \ {What(c)}
                      \/ \E q \in Provider \ {p} : <<"set", q, h>> \in Open \ {What(c)}
    BY <1>1, <1>6 DEF NoneMissing
  <2>1. accounts[h] = p /\ (h = m.host => m.op = "remove" /\ p # m.provider)
    <3>1. CASE h # m.host BY <1>1, <3>1
    <3>2. CASE h = m.host /\ m.op = "set" BY <1>1, <1>2, <3>2 DEF Account, Phase
    <3>3. CASE h = m.host /\ m.op = "remove"
      BY <1>1, <3>3, CredentialsAssumption DEF Account
    <3> QED BY <1>a, <3>1, <3>2, <3>3
  <2>2. \/ <<"remove", p, h>> \in Open
        \/ \E q \in Provider \ {p} : <<"set", q, h>> \in Open
    BY <1>2, <2>1 DEF NoneMissing
  <2>3. What(c) # <<"remove", p, h>> BY <1>7, <2>1
  <2>4. \A q \in Provider : What(c) # <<"set", q, h>> BY <1>7, <2>1
  <2> QED BY <2>2, <2>3, <2>4
<1> QED BY <1>4, <1>5, <1>8, <1>9

LEMMA SecretsInit == Init => SecretsInv
<1> SUFFICES ASSUME Init PROVE SecretsInv OBVIOUS
<1>1. UnderWay = {} BY DEF Init, Idle, UnderWay
<1>2. \A c \in Commander : Phase(c) BY DEF Init, Idle, Phase
<1>3. NoOrphans(Open) /\ NoneMissing(Open) BY DEF Init, NoOrphans, NoneMissing
<1> QED BY <1>1, <1>2, <1>3 DEF SecretsInv

LEMMA SecretsStep == TypeOK /\ SecretsInv /\ [Next]_vars => SecretsInv'
<1> SUFFICES ASSUME TypeOK, SecretsInv, [Next]_vars PROVE SecretsInv' OBVIOUS
<1>1. CASE \E t \in Readers : ReaderActions(t)
  <2>1. UNCHANGED <<keyring, accounts, command, owed, disturbed>>
    BY <1>1 DEF ReaderActions, Begin, Look, ReadKeyring, ReadFails, Publish
  <2> QED BY <2>1, SecretsAside
<1>2. CASE \E c \in Commander :
        \/ \E op \in {"set", "remove"}, p \in Provider, h \in Host, s \in Secret : Call(c, op, p, h, s)
        \/ Load(c) \/ Forget(c) \/ Store(c) \/ Uncache(c) \/ Recache(c) \/ Update(c) \/ Fails(c)
  <2> PICK c \in Commander :
        \/ \E op \in {"set", "remove"}, p \in Provider, h \in Host, s \in Secret : Call(c, op, p, h, s)
        \/ Load(c) \/ Forget(c) \/ Store(c) \/ Uncache(c) \/ Recache(c) \/ Update(c) \/ Fails(c)
    BY <1>2
  <2>1. CASE Fails(c)
    <3>1. /\ command'[c].step = "idle" /\ c \in UnderWay
          /\ \A d \in Commander \ {c} : command'[d] = command[d]
      BY <2>1 DEF Fails, Goto, TypeOK, Command, UnderWay
    <3>2. owed' = owed \cup {What(d) : d \in {c} \cap UnderWay} BY <2>1, <3>1 DEF Fails
    <3> QED BY <2>1, <3>1, <3>2, SecretsStop DEF Fails
  <2> QED BY <2>1, CallSecrets, CommandSecrets, UpdateSecrets
<1>3. CASE Restart
  <2>1. /\ Form \in Commander /\ command'[Form].step = "idle"
        /\ \A c \in Commander \ {Form} : command'[c] = command[c]
    BY <1>3 DEF Restart, Idle, Commander, TypeOK
  <2> QED BY <1>3, <2>1, SecretsStop DEF Restart
<1>4. CASE Tick BY <1>4, SecretsAside DEF Tick
<1>5. CASE UNCHANGED vars BY <1>5, SecretsAside DEF vars
<1> QED BY <1>1, <1>2, <1>3, <1>4, <1>5 DEF Next, ReaderActions

\* Commands one after the other leave keyring and accounts apart only by what
\* failed commands have done that were not repeated to their end.
THEOREM SecretsAreThoseOfAccounts == Spec => []SecretsMatchAccounts
<1>1. SecretsInv => SecretsMatchAccounts
  <2> SUFFICES ASSUME SecretsInv, ~disturbed, UnderWay = {} PROVE NoOrphans(owed) /\ NoneMissing(owed)
    BY DEF SecretsMatchAccounts
  <2>1. Open = owed BY DEF Open
  <2> QED BY <2>1 DEF SecretsInv
<1> QED BY <1>1, TypesInit, TypesStep, SecretsInit, SecretsStep, PTL DEF Spec

=============================================================================
