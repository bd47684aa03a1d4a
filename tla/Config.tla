--------------------------------- MODULE Config ---------------------------------
(***************************************************************************)
(* How internal/config reads the environment of a process.  An environment *)
(* maps the name of each variable to what it holds: an unset or an empty    *)
(* one, a number, an address, a URL, or text that does not parse as what    *)
(* it should be.  Durations are numbers here: the code looks at their sign. *)
(***************************************************************************)
EXTENDS Integers

CONSTANTS Unset, Empty, Malformed  \* what a variable may hold instead of a value

Rates     == {"RATELIMIT_CREATE_RATE", "RATELIMIT_AVAIL_RATE", "RATELIMIT_MAX_KEYS"}
Durations == {"SWEEP_INTERVAL", "RATELIMIT_CREATE_WINDOW", "RATELIMIT_AVAIL_WINDOW"}
Numeric   == Rates \cup Durations \cup {"PORT", "IPV6_PREFIX"}
Settings  == Numeric \cup {"DATABASE_URL", "MIGRATIONS_DIR", "TRUSTED_PROXY",
                           "PUBLIC_BASE_URL"}

(* Of a URL: its scheme, its host name, and whatever else it has beside an *)
(* origin - userinfo, path, query, fragment, an unusual spelling.          *)
Urls == [scheme : {"https", "http"}, host : {"", "clip.example"},
         extra : SUBSET {"userinfo", "path", "query", "fragment", "spelling"}]

(* What the environment of a process may be.                               *)
Environment(env) ==
  /\ \A s \in Numeric : env[s] \in Int \cup {Unset, Empty, Malformed}
  /\ env["PUBLIC_BASE_URL"] \in Urls \cup {Unset, Empty, Malformed}

Left(env, s) == env[s] \in {Unset, Empty}

--------------------------------------------------------------------------------
MaxPort == 65535

Default(s) ==
  IF s = "PORT" THEN 8080
  ELSE IF s = "IPV6_PREFIX" THEN 64
  ELSE IF s = "RATELIMIT_CREATE_RATE" THEN 10
  ELSE IF s = "RATELIMIT_AVAIL_RATE" THEN 30
  ELSE IF s = "RATELIMIT_MAX_KEYS" THEN 10000
  ELSE 60

(* Mutant: a zero passes.                                                  *)
InRangeZero(s, n) ==
  n >= 0 /\ (s = "PORT" => n <= MaxPort) /\ (s = "IPV6_PREFIX" => n <= 128)

InRange(s, n) ==
  /\ n >= IF s = "IPV6_PREFIX" THEN 0 ELSE 1
  /\ s = "PORT" => n <= MaxPort
  /\ s = "IPV6_PREFIX" => n <= 128

NumberRefused(env, s) == ~Left(env, s) /\ (env[s] = Malformed \/ ~InRange(s, env[s]))

Number(env, s) == IF Left(env, s) THEN Default(s) ELSE env[s]

(* Any text is a directory: whether it exists is seen when it is opened.    *)
MigrationsDir(env) ==
  IF Left(env, "MIGRATIONS_DIR") THEN "db/migrations" ELSE env["MIGRATIONS_DIR"]

(* Unset means the proxy of a developer's machine; empty means nobody.     *)
loadTrustedProxy(env) ==
  IF env["TRUSTED_PROXY"] = Unset THEN "127.0.0.1" ELSE env["TRUSTED_PROXY"]

(* Exactly one absolute HTTPS origin.                                      *)
BaseURLRefused(env) ==
  LET url == env["PUBLIC_BASE_URL"]
  IN /\ ~Left(env, "PUBLIC_BASE_URL")
     /\ url = Malformed \/ url.scheme # "https" \/ url.host = "" \/ url.extra # {}

TLSHostname(env) ==
  IF Left(env, "PUBLIC_BASE_URL") THEN Empty ELSE env["PUBLIC_BASE_URL"].host

(* One bad variable refuses the environment.                               *)
LoadFails(env) ==
  \/ Left(env, "DATABASE_URL")
  \/ \E s \in Numeric : NumberRefused(env, s)
  \/ env["TRUSTED_PROXY"] = Malformed
  \/ BaseURLRefused(env)

LoadFromEnv(env) ==
  [numbers       |-> [s \in Numeric |-> Number(env, s)],
   migrationsDir |-> MigrationsDir(env),
   trustedProxy  |-> loadTrustedProxy(env),
   tlsHostname   |-> TLSHostname(env)]

(* What the rest of the program needs of its configuration: a ticker        *)
(* panics unless its interval is positive, a limiter without a positive cap *)
(* keeps every key and without a positive window limits nobody, an address *)
(* is masked to a part of its length, the proxy is an address or nobody,   *)
(* the migrations are looked for somewhere.                                *)
Usable(conf) ==
  /\ \A s \in Numeric \ {"IPV6_PREFIX"} : conf.numbers[s] > 0
  /\ conf.numbers["PORT"] <= MaxPort
  /\ conf.numbers["IPV6_PREFIX"] \in 0..128
  /\ conf.migrationsDir \notin {Unset, Empty}
  /\ conf.trustedProxy \notin {Unset, Malformed}
  /\ conf.tlsHostname # ""
================================================================================
