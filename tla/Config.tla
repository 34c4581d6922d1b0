------------------------------- MODULE Config -------------------------------
(***************************************************************************)
(* The collector's configuration (internal/config/config.go): every knob   *)
(* read from the environment over the documented defaults, and refused     *)
(* with all its problems at once.  Pure operators.                         *)
(*                                                                         *)
(* LISTEN_ADDR and STORAGE_DSN are left out: the empty string stands for   *)
(* the default, so that neither can be refused.                            *)
(***************************************************************************)
EXTENDS Integers

CONSTANTS
    Minute,     \* a minute in the units of a time.Duration
    Half,       \* 2^63 there: a duration has this many values of either sign
    Unset,      \* a variable that is empty
    Malformed   \* one that strconv.Atoi or time.ParseDuration refuses

ASSUME ConfigAssumption ==
    /\ Minute \in Nat \ {0} /\ Half \in Nat \ {0}
    /\ {Unset, Malformed} \cap Int = {} /\ Unset # Malformed

Counts    == {"STORAGE_MAX_MB", "INCIDENT_POD_THRESHOLD", "INCIDENT_NS_THRESHOLD"}
Retention == {"RETENTION_EVENTS", "RETENTION_CHANGES", "RETENTION_SNAPSHOTS"}
InMinutes == {"INCIDENT_WINDOW_MIN", "BASELINE_STABLE_MIN"}
Names     == {"STORAGE_BACKEND", "LOG_LEVEL"}

Numbers == Counts \cup Retention \cup InMinutes

\* Defaults: "a bare helm install must run on these alone".
Default(k) ==
    CASE k = "STORAGE_MAX_MB"         -> 4096
      [] k = "INCIDENT_POD_THRESHOLD" -> 3
      [] k = "INCIDENT_NS_THRESHOLD"  -> 2
      [] k \in {"RETENTION_EVENTS", "RETENTION_CHANGES"} -> 43200 * Minute
      [] k = "RETENTION_SNAPSHOTS"    -> 10080 * Minute
      [] k = "INCIDENT_WINDOW_MIN"    -> 10 * Minute
      [] k = "BASELINE_STABLE_MIN"    -> 15 * Minute
      [] k = "STORAGE_BACKEND"        -> "sqlite"
      [] k = "LOG_LEVEL"              -> "info"

\* What a variable may hold, as far as parse and validate tell it apart.
Environment(env) ==
    /\ \A k \in Numbers : env[k] \in Int \cup {Unset, Malformed}
    /\ \A k \in Names :
        env[k] \in {Unset, "sqlite", "postgres", "debug", "info", "warn", "error", "other"}

\* The product of an int and time.Minute wraps around.
Minutes(n) == ((n * Minute + Half) % (2 * Half)) - Half

\* parse: a malformed number leaves the default, and an error.
Setting(env, k) ==
    IF env[k] \in {Unset, Malformed} THEN Default(k)
    ELSE IF k \in InMinutes THEN Minutes(env[k]) ELSE env[k]

Least(k) == IF k = "STORAGE_MAX_MB" THEN 16 ELSE 1

Allowed(k) ==
    IF k = "STORAGE_BACKEND" THEN {"sqlite"} ELSE {"debug", "info", "warn", "error"}

\* The errors of parse and those of validate, which runs in any case.
Problems(env) ==
    {k \in Numbers : env[k] = Malformed \/ Setting(env, k) < Least(k)}
    \cup {k \in Names : Setting(env, k) \notin Allowed(k)}

Accepted(env) == Problems(env) = {}
=============================================================================
