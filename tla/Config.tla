------------------------------- MODULE Config -------------------------------
(***************************************************************************)
(* web.Config (config.go) as operators: a configuration is a function from *)
(* its fields to a number or Unset, Unset being the nil pointer (and, for  *)
(* the host, the empty string).  An environment gives each field that has  *)
(* an override name a number, Unset for an absent or empty variable, or    *)
(* Malformed for one that does not parse.                                  *)
(***************************************************************************)
EXTENDS Integers, Sequences

CONSTANTS
  Unset,      \* a field nobody has set
  Malformed,  \* an override that does not parse
  Default     \* the default of every field that has one

Timeouts  == {"readTimeout", "readHeaderTimeout", "writeTimeout", "idleTimeout"}
Defaulted == {"host", "port", "transferRate"} \cup Timeouts
Fields    == Defaulted \cup {"maxHeaderBytes"}

ASSUME ConfigAssumption ==
  /\ Unset \notin Int
  /\ Malformed \notin Int
  /\ Default \in [Defaulted -> Int]

NewConfig == [f \in Fields |-> Unset]

\* Mutated Merge: a zero in the source reads as omitted.
MergeNonzero(c, src) ==
  [f \in Fields |-> IF src[f] \in {Unset, 0} THEN c[f] ELSE src[f]]

\* The source's set fields overlay the receiver's.
Merge(c, src) == [f \in Fields |-> IF src[f] = Unset THEN c[f] ELSE src[f]]

applyDefaults(c) ==
  [f \in Fields |-> IF c[f] = Unset /\ f \in Defaulted THEN Default[f] ELSE c[f]]

\* The overrides are read in this order, and the first that does not parse
\* ends the reading.
EnvOrder == << "host", "port", "readTimeout", "readHeaderTimeout",
               "writeTimeout", "idleTimeout", "transferRate" >>

EnvParses(env) == \A f \in Defaulted : env[f] # Malformed

EnvRead(env) ==
  {EnvOrder[i] : i \in {i \in DOMAIN EnvOrder :
                          \A j \in 1 .. i : env[EnvOrder[j]] # Malformed}}

\* Mutated applyEnv: an override that does not parse is stored.
applyEnvUnparsed(c, env) ==
  [f \in Fields |-> IF f \in Defaulted /\ env[f] # Unset THEN env[f] ELSE c[f]]

applyEnv(c, env) ==
  [f \in Fields |-> IF f \in EnvRead(env) /\ env[f] # Unset THEN env[f] ELSE c[f]]

validate(c) ==
  /\ c["port"] \in 0 .. 65535
  /\ \A f \in Timeouts : c[f] >= 0
  /\ c["maxHeaderBytes"] = Unset \/ c["maxHeaderBytes"] >= 0
  /\ c["transferRate"] > 0

\* FinalizeBlock returns nil only when every override parses and the result
\* is valid; the receiver keeps what was applied either way.
Finalize(c, env) ==
  LET applied == applyEnv(applyDefaults(c), env)
  IN [cfg |-> applied, ok |-> EnvParses(env) /\ validate(applied)]

\* What NewServer and Transfer ask for: no pointer they follow is nil.
finalized(c) == \A f \in Defaulted \ {"host"} : c[f] # Unset
=============================================================================
