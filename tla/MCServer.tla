-------------------------------- MODULE MCServer --------------------------------
(* A small instance of Server for TLC: an environment with nothing but its  *)
(* database set, and those that differ from it in one variable.            *)
EXTENDS Server

Plain == [s \in Settings |-> IF s = "DATABASE_URL" THEN "postgres" ELSE Unset]

Origin == [scheme |-> "https", host |-> "clip.example", extra |-> {}]

Tried(s) ==
  CASE s = "DATABASE_URL"    -> {Unset, Empty}
    [] s = "MIGRATIONS_DIR"  -> {Empty, "elsewhere"}
    [] s = "TRUSTED_PROXY"   -> {Empty, Malformed, "10.0.0.1"}
    [] s = "PUBLIC_BASE_URL" -> {Empty, Malformed, Origin, [Origin EXCEPT !.scheme = "http"],
                                 [Origin EXCEPT !.host = ""], [Origin EXCEPT !.extra = {"path"}]}
    [] s = "PORT"            -> {Empty, Malformed, 0, 1, 65535, 65536}
    [] s = "IPV6_PREFIX"     -> {Empty, Malformed, -1, 0, 128, 129}
    [] OTHER                 -> {Empty, Malformed, 0, 1}

MCEnvironments == {Plain} \cup UNION {{[Plain EXCEPT ![s] = v] : v \in Tried(s)} : s \in Settings}
================================================================================
