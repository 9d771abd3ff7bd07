------------------------------ MODULE Settings ------------------------------
(***************************************************************************)
(* The configuration layer of the command line (wc-cli/src/config.rs,      *)
(* wc-cli/src/args.rs and dispatch in wc-cli/src/main.rs): what a command  *)
(* runs with, out of its arguments, the configuration file and the         *)
(* environment, while operators edit the last two between commands.        *)
(***************************************************************************)
EXTENDS Naturals, Sequences, FiniteSets

CONSTANTS
    CommandFlags,  \* [command -> the flags it accepts], the global ones among them
    Table,     \* [section key -> flag]: MAPPINGS
    RefusedKeys,   \* keys that are documented and not implemented
    Typo,      \* keys nobody knows
    Owned,     \* keys of the sections listed as another loader's
    Switches,  \* flags a command reads a second time as a switch of the environment
    Rereads,   \* flags a command looks up in the environment when nothing is in force
    Later,     \* pairs of keys for one flag, the one that is read last second
    Value,     \* values a key, a flag or a variable may have
    Unset,     \* a setting nobody made
    LockedFile, \* a file that is there and cannot be read
    MaxKeys    \* bound on the keys of a file

VARIABLES
    conf,      \* the file: Unset, LockedFile, or [its keys -> lists of values]
    environ,   \* [flags -> a value, "" or Unset]
    ran        \* the command that was run, [command, argv, eff, on, used]: no
               \* command changes the settings, so one is enough

settingsVars == <<conf, environ, ran>>

Flag == UNION {CommandFlags[c] : c \in DOMAIN CommandFlags}
Key == DOMAIN Table \cup RefusedKeys \cup Typo \cup Owned
ValueLists == {<<v>> : v \in Value} \cup {<<>>, <<"a", "b">>}

\* MAPPINGS is a list: of the keys for one flag that a file has, one is read last.
ASSUME LaterAssumption ==
    \A keys \in SUBSET DOMAIN Table :
        keys # {} /\ (\A j, k \in keys : Table[j] = Table[k]) =>
            \E k \in keys : \A j \in keys \ {k} : <<j, k>> \in Later
\* A setting somebody made is not Unset.
ASSUME UnsetAssumption ==
    /\ Unset \notin ValueLists /\ Unset # LockedFile
    /\ Unset \notin Value \cup {"true", "false", "a"}
\* GLOBAL_FLAGS: every command accepts the tenant and the root.
ASSUME RereadsAssumption == \A c \in DOMAIN CommandFlags : Rereads \subseteq CommandFlags[c]

-----------------------------------------------------------------------------
(* args.rs. *)

\* Args::get and Args::has over what is in force.
Get(eff, f) == IF eff[f] = Unset \/ eff[f] = <<>> THEN Unset ELSE eff[f][1]
Has(eff, f) == Get(eff, f) \notin {Unset, "false"}

\* What the command makes of it (main.rs): external_signing_required is on when
\* the flag or the variable is, and tenant_id and paths_checked ask the
\* environment again, which here may say "".
Switched(eff, f) ==
    \/ Has(eff, f)
    \/ f \in Switches /\ environ[f] \notin {Unset, "0", "false"}
Used(eff, f) ==
    IF Get(eff, f) = Unset /\ f \in Rereads THEN environ[f] ELSE Get(eff, f)

-----------------------------------------------------------------------------
(* config.rs. *)

\* Config::load_default, or Config::load when --config names the file.
Loads(named) == IF named THEN conf \notin {Unset, LockedFile} ELSE TRUE
Loaded == IF conf \in {Unset, LockedFile} THEN [k \in {} |-> <<>>] ELSE conf

\* Config::parse and absorb.
FileParses(c) == DOMAIN c \cap (RefusedKeys \cup Typo) = {}

\* The value the file holds for a flag: that of the last key that maps to it.
FromFile(c, f) ==
    LET keys == {k \in DOMAIN c \cap DOMAIN Table : Table[k] = f}
    IN IF keys = {} THEN Unset
       ELSE c[CHOOSE k \in keys : \A j \in keys \ {k} : <<j, k>> \in Later]

FromEnv(f) == IF environ[f] \in {Unset, ""} THEN Unset ELSE <<environ[f]>>

\* apply.  Mutant: the environment before the file.
ApplyEnvFirst(argv, c, known) ==
    [f \in Flag |-> IF argv[f] # Unset THEN argv[f]
                    ELSE IF f \notin known THEN Unset
                    ELSE IF FromEnv(f) # Unset THEN FromEnv(f) ELSE FromFile(c, f)]
Apply(argv, c, known) ==
    [f \in Flag |-> IF argv[f] # Unset THEN argv[f]
                    ELSE IF f \notin known THEN Unset
                    ELSE IF FromFile(c, f) # Unset THEN FromFile(c, f) ELSE FromEnv(f)]

\* check_flags, after apply.
Checked(eff, known) == \A f \in Flag \ known : eff[f] = Unset

-----------------------------------------------------------------------------

SettingsInit ==
    /\ conf = Unset
    /\ environ = [f \in Flag |-> Unset]
    /\ ran = Unset

WriteKey(k, values) ==
    /\ conf # LockedFile /\ Cardinality(DOMAIN Loaded \cup {k}) <= MaxKeys
    /\ conf' = [j \in DOMAIN Loaded \cup {k} |-> IF j = k THEN values ELSE Loaded[j]]
    /\ UNCHANGED <<environ, ran>>
DropFile ==
    /\ conf' = Unset /\ UNCHANGED <<environ, ran>>
\* The file is there and the process may not read it.
LockFile ==
    /\ conf # Unset /\ conf' = LockedFile /\ UNCHANGED <<environ, ran>>
SetVariable(f, v) ==
    /\ environ' = [environ EXCEPT ![f] = v] /\ UNCHANGED <<conf, ran>>

\* dispatch, up to the command itself.
RunCommand(command, argv, named) ==
    /\ Loads(named) /\ FileParses(Loaded)
    /\ LET eff == Apply(argv, Loaded, CommandFlags[command])
       IN /\ Checked(eff, CommandFlags[command])
          /\ ran' = [command |-> command, argv |-> argv, eff |-> eff,
                     on |-> {f \in Flag : Switched(eff, f)},
                     used |-> [f \in Flag |-> Used(eff, f)]]
    /\ UNCHANGED <<conf, environ>>
\* The command is refused before it starts.
Refuse(command, argv, named) ==
    /\ \/ ~ Loads(named) \/ ~ FileParses(Loaded)
       \/ ~ Checked(Apply(argv, Loaded, CommandFlags[command]), CommandFlags[command])
    /\ UNCHANGED settingsVars

Argv == {[f \in Flag |-> IF f = g THEN a ELSE Unset] : g \in Flag, a \in {Unset, <<"true">>, <<"false">>}}

SettingsNext ==
    /\ ran = Unset
    /\ \/ \E k \in Key, values \in ValueLists : WriteKey(k, values)
       \/ DropFile \/ LockFile
       \/ \E f \in Flag, v \in Value \cup {Unset, ""} : SetVariable(f, v)
       \/ \E c \in DOMAIN CommandFlags, argv \in Argv, named \in BOOLEAN :
            RunCommand(c, argv, named) \/ Refuse(c, argv, named)

SettingsSpec == SettingsInit /\ [][SettingsNext]_settingsVars

-----------------------------------------------------------------------------
(* Properties. *)

\* A command runs with what was written for it: a flag it does not accept never
\* reaches it; what is in force, the strongest source that names the setting said,
\* flag over file over environment (config.rs), so a switch one source turns off
\* is not turned on by a weaker one, and what the command uses is what is in force;
\* and a file with a key that is refused or unknown stops every command.  Excepted:
\* the switch for external signing, which the environment turns on whatever flag
\* and file say, even by an empty variable (main.rs, external_signing_required);
\* the tenant and the root, for which an empty variable counts where flag and file
\* give no value (tenant_id, paths_checked); the keys of sections listed as another
\* loader's, which resolve to nothing and stop nobody; and a default file that is
\* there and cannot be read, which counts as none (load_default).
RunsAsWritten ==
    ran # Unset => \A f \in Flag :
        LET said == {Loaded[k] : k \in {j \in DOMAIN Loaded \cap DOMAIN Table : Table[j] = f}}
        IN /\ f \notin CommandFlags[ran.command] => ran.eff[f] = Unset
           /\ ran.argv[f] # Unset => ran.eff[f] = ran.argv[f]
           /\ ran.argv[f] = Unset /\ f \in CommandFlags[ran.command] /\ said # {} => ran.eff[f] \in said
           /\ f \in ran.on => \/ Has(ran.argv, f)
                              \/ \E s \in said : s # <<>> /\ s[1] # "false"
                              \/ said = {} /\ environ[f] \notin {Unset, "", "false"}
                              \/ f \in Switches /\ environ[f] \notin {Unset, "false"}
           /\ ran.used[f] # Get(ran.eff, f) =>
                f \in Rereads /\ Get(ran.argv, f) = Unset /\ (said = {} \/ <<>> \in said)
           /\ DOMAIN Loaded \cap (RefusedKeys \cup Typo) = {}
=============================================================================
