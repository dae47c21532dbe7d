---------------------------- MODULE Configuration ----------------------------
(***************************************************************************)
(* Where a process has its configuration from: aegis.yaml, the environment *)
(* and the flags of the command line (Config::from_yaml_str,               *)
(* apply_env_overrides and validate, and load_config and                   *)
(* apply_bundle_overrides of the command line).  Of a configuration the    *)
(* model keeps what decides which rules may be used; that the rest of it   *)
(* passes validate is the field `sane`.                                    *)
(***************************************************************************)
EXTENDS Sequences

\* What an operator has set up: file is <<cfg>>, or <<>> if there is no file or it is
\* not YAML; env and flags give values to some of the fields of a configuration.
CONSTANT Settings

NoKey == "none"

Configs == [required : BOOLEAN, bundle : BOOLEAN, key : STRING, sane : BOOLEAN]

ASSUME SettingsAssumption ==
  \A s \in Settings : s.file = <<>> \/ (Len(s.file) = 1 /\ s.file[1] \in Configs)

Default == [required |-> FALSE, bundle |-> FALSE, key |-> NoKey, sane |-> TRUE]

\* Each variable, and each flag, replaces the field it is about.
Overridden(cfg, by) == [f \in DOMAIN cfg |-> IF f \in DOMAIN by THEN by[f] ELSE cfg[f]]

Valid(cfg) == cfg.sane /\ (cfg.required => cfg.bundle /\ cfg.key # NoKey)

\* The file is read and valid, with the environment over it.
Accepted(s) == s.file # <<>> /\ Valid(Overridden(s.file[1], s.env))

\* Anything wrong with the file, or with the environment over it, gives the defaults:
\* without the file and without the environment.
LoadConfig(s) == IF Accepted(s) THEN Overridden(s.file[1], s.env) ELSE Default

\* Faulty variant of Effective: a file that is accepted wins over the flags.
EffectiveFileWins(s) ==
  IF Accepted(s) THEN LoadConfig(s) ELSE Overridden(Default, s.flags)

\* What the process is started with, if it is valid once more.
Effective(s) == Overridden(LoadConfig(s), s.flags)

\* What the operator has written, in file, environment and flags.
Wanted(s) ==
  Overridden(Overridden(IF s.file = <<>> THEN Default ELSE s.file[1], s.env), s.flags)
=============================================================================
