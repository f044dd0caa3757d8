--------------------------- MODULE Configuration ---------------------------
(***************************************************************************)
(* core/config: how the defaults, the embedded YAML and the environment    *)
(* make the configuration of the process.  Of the fields of Config one     *)
(* stands for those that are treated alike:                                *)
(*   job_name    text without a default                                    *)
(*   chunk_size  numbers with a default (retries, limits, buffers too)     *)
(*   level       text with a default (executor, timezone, repository too)  *)
(*   format      the text the merge leaves out                             *)
(*   exceptions  lists (exception classes, masked keys)                    *)
(* Zero is "", 0 and nil.                                                  *)
(***************************************************************************)
EXTENDS FiniteSets

CONSTANTS Sources \* the embedded YAML files and environments: [yaml, env]

Zero    == "zero"
Unset   == "unset"    \* of a variable of the environment
Garbled == "garbled"  \* text where a number is due

Texts   == {"job_name", "level", "format"}
Numbers == {"chunk_size"}
Lists   == {"exceptions"}
Fields  == Texts \cup Numbers \cup Lists

\* NewConfig.  The classes of the default lists are not all registered.
NewConfig == [f \in Fields |-> IF f = "job_name" THEN Zero ELSE "default"]

\* The embedded YAML has a value for every field: "$" is a reference to a variable of
\* the environment, "ref".  The environment is what godotenv.Load leaves.
ASSUME SourceAssumption ==
  \A c \in Sources : DOMAIN c.yaml = Fields /\ DOMAIN c.env = Fields \cup {"ref"}

\* OsEnvironmentExpander.Expand: a variable that is not set is replaced by nothing.
Expand(y, v) ==
  [f \in Fields |-> IF y[f] # "$" THEN y[f] ELSE IF v.ref = Unset THEN Zero ELSE v.ref]

\* yaml.Unmarshal of the expanded text
Unmarshals(y) == \A f \in Numbers : y[f] # Garbled

\* mergeConfig, mergeSurfinConfig and the merges it calls: what is not zero wins;
\* mergeSystemConfig has no line for the format.
MergeConfig(dest, source) ==
  [f \in Fields |-> IF f # "format" /\ source[f] # Zero THEN source[f] ELSE dest[f]]

\* loadStructFromEnv with setField: a list is left alone, a number must parse.
EnvParses(v) == \A f \in Numbers : v[f] \notin {Garbled, Zero}
LoadStructFromEnv(cfg, v) ==
  [f \in Fields |-> IF f \in Lists \/ v[f] = Unset THEN cfg[f] ELSE v[f]]

\* loadConfig.  resolveSecrets finds no field of a Secret type in Config.
Loads(y, v) == Unmarshals(Expand(y, v)) /\ EnvParses(v)
LoadConfig(y, v) == LoadStructFromEnv(MergeConfig(NewConfig, Expand(y, v)), v)

\* validateExceptionClasses, of NewConfigProvider only.
ClassesRegistered(cfg) == cfg.exceptions = "yaml"
=============================================================================
