----------------------------- MODULE MCTransfer -----------------------------
(***************************************************************************)
(* An instance of Transfer for TLC.  The layers and environments leave     *)
(* each timeout set, disabled or defaulted, some after a Finalize that     *)
(* fails; the sizes lie on both sides of the limits and of what saturates. *)
(***************************************************************************)
EXTENDS Transfer

MCDefault ==
  [f \in Defaulted |-> CASE f = "readTimeout"  -> 2
                         [] f = "writeTimeout" -> 3
                         [] f = "port"         -> 8080
                         [] OTHER              -> 1]

Set(field, value) == [NewConfig EXCEPT ![field] = value]

MCLayers ==
  { Set("readTimeout", 0), Set("writeTimeout", 0), Set("idleTimeout", 0),
    [Set("readTimeout", 3) EXCEPT !["writeTimeout"] = 1, !["readHeaderTimeout"] = 0,
                                  !["maxHeaderBytes"] = 1] }

NoEnv == [f \in Defaulted |-> Unset]

MCEnvs ==
  { NoEnv, [NoEnv EXCEPT !["readTimeout"] = 0, !["transferRate"] = 2],
    [NoEnv EXCEPT !["port"] = 0, !["writeTimeout"] = Malformed, !["idleTimeout"] = 3],
    [NoEnv EXCEPT !["writeTimeout"] = -1] }

\* No rate of the Config's, nor the second of these, leaves a fraction of a tick.
MCDirect == {[rate |-> 3, grace |-> 0], [rate |-> 1, grace |-> 1]}
MCSizes  == {-1, 0, 2, 4, 5}
=============================================================================
