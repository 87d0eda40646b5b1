---------------------------- MODULE MCDocuments ----------------------------
(***************************************************************************)
(* The instance of Documents for TLC: two probes over one check and a      *)
(* handler beside them.  notReady's Extras hold members that the probe     *)
(* replaces and standard members in two spellings; those of the other      *)
(* problem, which has no status, an id and a member of their own.          *)
(***************************************************************************)
EXTENDS Documents, TLC

MCOrder == <<"database">>

MCMembers == Standard \cup {"checks", "request_id", "quota", "Status", "Title"}

MCFolded ==
  [k \in MCMembers |-> CASE k = "Status" -> "status" [] k = "Title" -> "title" [] OTHER -> k]

MCBytes == <<"Status", "Title", "checks", "detail", "instance", "quota", "request_id",
             "status", "title", "type">>

MCBefore(j, k) ==
  \E a, b \in DOMAIN MCBytes : a < b /\ MCBytes[a] = j /\ MCBytes[b] = k

MCTexts == {Empty, "blank", "failed", "internal", "unavailable", "theirs", "down", "files",
            "readyz", "orders", "a"}

MCStatuses == {0, 418, 500, 503}

MCStatusText ==
  [n \in MCStatuses |-> CASE n = 500 -> "internal" [] n = 503 -> "unavailable" [] OTHER -> Empty]

Bare(status, members) ==
  [type |-> Empty, title |-> Empty, status |-> status, detail |-> Empty,
   instance |-> Empty, extras |-> members]

MCDeclared ==
  [notReady |-> Bare(418, [checks |-> Text("theirs"), status |-> Number(200),
                           Status |-> Number(200), Title |-> <<"null", Empty>>,
                           type |-> Text("down")]),
   gone     |-> Bare(0, [request_id |-> Text("theirs"), quota |-> Text("files")])]

MCPathOf == [r \in Requests |-> IF r \in Probes THEN "readyz" ELSE "orders"]

MCSymmetry == Permutations(Probes)
=============================================================================
