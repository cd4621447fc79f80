---------------------------- MODULE MCCredentials ----------------------------
(* Two situations for TLC: two reads that overlap the commands on one key, for  *)
(* long enough that cached secrets expire; and commands for two providers of    *)
(* one host, one of which replaces the other, beside one read.                  *)
EXTENDS Credentials

CONSTANTS Sole,    \* the provider of the first situation
          Second   \* the read that the second one does without

VARIABLE situation

Inside ==
  CASE situation = "one key" ->
         /\ \A h \in Host : accounts[h] \in {Sole, None}
         /\ \A c \in Commander : command[c].step # "idle" => command[c].provider = Sole
         /\ \A t \in Readers : reader[t].step # "idle" => reader[t].key[1] = Sole
    [] situation = "two providers" -> reader[Second].step = "idle" /\ now < TTL

MCInit == Init /\ situation \in {"one key", "two providers"} /\ Inside
MCSpec == MCInit /\ [][Next /\ UNCHANGED situation /\ Inside']_<<vars, situation>>
=============================================================================
