--------------------------- MODULE CampProjectMC ----------------------------
(***************************************************************************)
(* A small repository for TLC: a project web in a directory shop, padded   *)
(* spellings of names and secrets, a rotation from s1 to s2, options that  *)
(* are rejected, and the queries and filters agents are looked up with.    *)
(***************************************************************************)
EXTENDS CampProject

CONSTANTS i1, i2, t1, t2

Names == {"web", "shop", "main", "dev", "unknown", "agent", "observer", "watch",
          "default", "camp-web", "camp-shop", "bob", "uuid", "s1", "s2",
          "plan", "sync", "note", "v1", "en0", "ipv6", "10.0.0.1",
          DefaultServiceType}
         \cup Statuses \cup ReservedKeys
Padded == {" web ", " s2", " plan", " note", " Busy", " busy"}
AllTexts == Names \cup Padded \cup {" ", "Busy", "plan,sync", "v", "no", "x["}
TrimAll == [t \in AllTexts |->
              CASE t = " web " -> "web" [] t = " s2" -> "s2"
                [] t = " plan" -> "plan" [] t = " note" -> "note"
                [] t = " Busy" -> "Busy" [] t = " busy" -> "busy"
                [] t = " " -> Empty [] OTHER -> t]
LowerAll == [t \in AllTexts |-> CASE t = "Busy" -> "busy" [] t = " Busy" -> " busy"
                                  [] OTHER -> t]
Prefixes2 == [t \in AllTexts |-> {t, Empty} \cup
                (IF t \in {"v1", "v"} THEN {"v"} ELSE {})
                \cup (IF t \in {"note", "no"} THEN {"no"} ELSE {})]
Patterns == [p \in {"v", "x["} |-> IF p = "v" THEN {"v1", "v", "dev"} ELSE Invalid]
Commas == {"plan,sync"}
Types == {DefaultServiceType}
Ips == {"10.0.0.1"}
NoIndexes == {}
SlugAll == [p \in AllTexts, b \in AllTexts |->
              IF TrimAll[p] = "web" THEN "camp-web" ELSE "camp-shop"]

Symmetry == Permutations(Inits) \cup Permutations(Slots)

Pair(k, v) == [key |-> k, value |-> v]
Selector(k, v) == [kind |-> k, value |-> v]

\* All defaults: the id, project and branch are inferred.
Inferred ==
    [id |-> Unset, role |-> Unset, project |-> Unset, branch |-> Unset,
     port |-> Unset, status |-> "idle", capabilities |-> <<>>,
     metadata |-> <<>>, service_type |-> DefaultServiceType,
     mdns_port |-> DefaultMdnsPort, heartbeat_ms |-> 30000,
     ttl_ms |-> 120000, shared_secret |-> "s1", shared_secret_accept |-> <<>>,
     shared_secret_mode |-> "sign-and-verify", enable_interface |-> <<>>,
     disable_interface |-> <<>>]
Rotating ==
    [Inferred EXCEPT !.id = "bob", !.project = " web ", !.branch = "dev", !.port = 7001,
        !.status = "busy", !.capabilities = <<" plan", "sync">>,
        !.metadata = <<Pair("note", "v"), Pair("note", "v1")>>,
        !.shared_secret = " s2", !.shared_secret_accept = <<"s1">>,
        !.enable_interface = <<Selector(Unset, "en0"), Selector("addr", "10.0.0.1")>>,
        !.disable_interface = <<Selector(Unset, "ipv6")>>]
Rejected == [Rotating EXCEPT !.metadata = <<Pair("status", "v")>>]
AllCommands == {Inferred, Rotating, Rejected}

Repository == {[package |-> "web", directory |-> "shop", branch |-> Unset],
               [package |-> " ", directory |-> "shop", branch |-> "dev"]}

\* What camp list and GET /agents are asked for: one filter or two, a status
\* that is not spelt as it is stored, a pattern that is no regex.
AskedFor ==
    {[AnyAgent EXCEPT !.id = "bob"],
     [AnyAgent EXCEPT !.id = "camp-web", !.role = "agent"],
     [AnyAgent EXCEPT !.project = "web", !.branch = "main"],
     [AnyAgent EXCEPT !.status = "busy"], [AnyAgent EXCEPT !.status = "Busy"],
     [AnyAgent EXCEPT !.capability = "plan", !.metadata_keys = {"note"}],
     [AnyAgent EXCEPT !.metadata = {Pair(" note", "v1")}],
     [AnyAgent EXCEPT !.metadata = {Pair("note", "v")}],
     [AnyAgent EXCEPT !.metadata_key_prefixes = {"no"},
                      !.metadata_prefixes = {Pair("note", "v")}],
     [AnyAgent EXCEPT !.metadata_regexes = {Pair("current_branch", "v")}],
     [AnyAgent EXCEPT !.metadata_regexes = {Pair("note", "x[")}]}
=============================================================================
