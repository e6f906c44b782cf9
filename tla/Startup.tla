-------------------------------- MODULE Startup --------------------------------
(***************************************************************************)
(* What an environment becomes: AppConfig::from_env (src/src/config.rs),   *)
(* build_state (src/src/lib.rs) and the constructors it calls.             *)
(***************************************************************************)
EXTENDS Integers

CONSTANTS
  Unset,       \* a variable that is not set
  DefaultSkew  \* 300 in the code

\* env::var with its default, compared in lower case; what is not known is not
\* an error but the default.
AuthMode(env) == IF env.auth_mode = "hmac" THEN "hmac" ELSE "disabled"

SignerMode(env) ==
  CASE env.signer_mode \in {"local", "local-dev", "local_dev"} -> "local_dev"
    [] env.signer_mode \in {"remote-mtls", "remote_mtls", "remote"} -> "remote_mtls"
    [] OTHER -> "mock"

\* A number that does not parse counts as unset.
MaxSkew(env) == IF env.max_skew = Unset THEN DefaultSkew ELSE env.max_skew

\* The remote signer needs its url and three readable PEM files; Postgres must
\* answer, and it must let the gateway create its table.
SignerBuilds(env) == SignerMode(env) = "remote_mtls" => env.signer_files = "readable"
AuditBuilds(env) == env.database # "unreachable"

\* Fault: without credentials the check is switched off.
AuthBuilds_Lenient(env) == TRUE

\* hmac needs a key and a secret; a variable that is set to nothing is set.
AuthBuilds(env) == AuthMode(env) = "hmac" => env.key # Unset /\ env.secret # Unset

\* Any error is a panic of main: there is no gateway then.
Builds(env) == SignerBuilds(env) /\ AuditBuilds(env) /\ AuthBuilds(env)

\* The verifier; with a development build its arithmetic is checked.
ApiAuth(env) ==
  [mode |-> AuthMode(env), key |-> env.key, secret |-> env.secret,
   max_skew |-> MaxSkew(env), checks_overflow |-> env.build = "dev"]

\* What GET /v1/info says of a gateway that was built.
Info(env) ==
  [status |-> "Info",
   auth_mode |-> AuthMode(env),
   audit_backend |-> IF env.database = Unset THEN "memory" ELSE "postgres",
   signer_mode |-> IF SignerMode(env) = "mock" THEN "mock" ELSE "isolated-signer"]
=============================================================================
