------------------------------- MODULE Config -------------------------------
(***************************************************************************)
(* The files the configuration of a project is kept in.  Processes migrate *)
(* the older forms of the files while they load, commands change single    *)
(* settings and secrets under locks, people edit, and anything may fail or *)
(* stop between two steps.                                                 *)
(***************************************************************************)
EXTENDS Option, Integers, SequencesExt, FiniteSetsExt

CONSTANTS
  Processes,
  Keys, Values,      \* of settings
  LegacySettings,    \* key -> value, of a configuration in the older form
  LegacySecrets,
  Secrets,           \* names, those of the older form among them
  Default, Broken,
  MaxCommands

\* A file has a value for each of the keys it has; that is never None or Broken.
SettingValues == Values \cup {Default} \cup {LegacySettings[k] : k \in DOMAIN LegacySettings}
Settings == UNION {[keys -> SettingValues] : keys \in SUBSET Keys}

ASSUME ConfigAssumption ==
  /\ None \notin Settings /\ Broken \notin Settings /\ None \notin Processes
  /\ None \notin {"flat", "tmp", "dotenv", "bak"}

VARIABLES
  legacy,     \* where the file of the older form is: "flat", "tmp", "dotenv", "bak" or None
  yaml,       \* config.yaml: settings, Broken or None
  env,        \* names in .markdownvdb/.env
  lock,       \* file -> the process that holds its lock or None
  process,
  commands,   \* started so far
  intent,     \* key -> value of the last command that set it, while no one else wrote the file
  forgotten   \* secrets that commands removed or wrote over

configVars == <<legacy, yaml, env, lock, process, commands, intent, forgotten>>

-----------------------------------------------------------------------------
(* Steps of processes *)

Resting == [step |-> "idle"]
Goes(p, next) == process' = [process EXCEPT ![p] = next]
To(p, step) == Goes(p, [step |-> step])
At(p, step) == process[p].step = step
Starts(p, next) == At(p, "idle") /\ commands < MaxCommands /\ commands' = commands + 1 /\ Goes(p, next)

Free(file) == lock[file] = None
Lock(p, file) == lock' = [lock EXCEPT ![file] = p]
Unlock(file) == lock' = [lock EXCEPT ![file] = None]
\* There is no folder for the files next to a flat file of the same name.
HasFolder == legacy # "flat"

\* Config::load reads the secrets first.
Load(p) ==
  /\ Starts(p, [step |-> "detect"])
  /\ UNCHANGED <<legacy, yaml, env, lock, intent, forgotten>>

Detect(p) ==
  /\ At(p, "detect")
  /\ Goes(p, IF yaml # None \/ legacy \notin {"dotenv", "flat"} THEN Resting
             ELSE [step |-> IF legacy = "dotenv" THEN "migrate" ELSE "flat"])
  /\ UNCHANGED <<legacy, yaml, env, lock, commands, intent, forgotten>>

\* The flat file steps aside for the folder it moves into.
MoveAside(p) ==
  /\ At(p, "flat")
  /\ \/ legacy = "flat" /\ legacy' = "tmp" /\ To(p, "folder")
     \/ UNCHANGED legacy /\ Goes(p, Resting)
  /\ UNCHANGED <<yaml, env, lock, commands, intent, forgotten>>
MoveIn(p) ==
  /\ At(p, "folder")
  /\ \/ legacy = "tmp" /\ legacy' = "dotenv" /\ To(p, "migrate")
     \/ UNCHANGED legacy /\ Goes(p, Resting)
     \* The folder could not be made: back to where it was.
     \/ legacy = "tmp" /\ yaml = None /\ env = {} /\ legacy' = "flat" /\ Goes(p, Resting)
  /\ UNCHANGED <<yaml, env, lock, commands, intent, forgotten>>

-----------------------------------------------------------------------------
(* migrate_dotenv_to_yaml; errors are ignored by the load *)

ReadDotenv(p) ==
  /\ At(p, "migrate")
  /\ Goes(p, IF legacy = "dotenv" THEN [step |-> "convert"] ELSE Resting)
  /\ UNCHANGED <<legacy, yaml, env, lock, commands, intent, forgotten>>

\* What the older form sets and can be parsed, and the defaults of all else.
Migrated == [k \in Keys |-> IF k \in DOMAIN LegacySettings THEN LegacySettings[k] ELSE Default]

\* Every setting is written; whatever there was by now is gone.
WriteYamlConfig(p) ==
  /\ At(p, "convert") /\ Free("config")
  /\ \/ /\ yaml' = Migrated /\ intent' = <<>> /\ To(p, "secrets")
     \/ UNCHANGED <<yaml, intent>> /\ Goes(p, Resting)
  /\ UNCHANGED <<legacy, env, lock, commands, forgotten>>

\* The file is read and written without its lock.
ReadSecrets(p) ==
  /\ At(p, "secrets")
  /\ Goes(p, [step |-> "preserve", names |-> env])
  /\ UNCHANGED <<legacy, yaml, env, lock, commands, intent, forgotten>>

\* What a process found in the file and what another wrote meanwhile is gone with its write.
Replaces(names) == env' = names /\ forgotten' = (forgotten \cup (env \ names)) \ (names \ env)

\* Mutant: a secret that cannot be written does not stop the migration.
PreserveOrNot(p) ==
  /\ At(p, "preserve")
  /\ \/ Replaces(process[p].names \cup LegacySecrets) \/ UNCHANGED <<env, forgotten>>
  /\ To(p, "rename")
  /\ UNCHANGED <<legacy, yaml, lock, commands, intent>>
Preserve(p) ==
  /\ At(p, "preserve")
  /\ \/ Replaces(process[p].names \cup LegacySecrets) /\ To(p, "rename")
     \/ UNCHANGED <<env, forgotten>> /\ Goes(p, Resting)
  /\ UNCHANGED <<legacy, yaml, lock, commands, intent>>

RenameToBak(p) ==
  /\ At(p, "rename")
  /\ legacy' \in (IF legacy = "dotenv" THEN {"bak", legacy} ELSE {legacy})
  /\ Goes(p, Resting)
  /\ UNCHANGED <<yaml, env, lock, commands, intent, forgotten>>

-----------------------------------------------------------------------------
(* Commands *)

\* init checks for the files and then writes one, without the lock.
StartInit(p) ==
  /\ yaml = None /\ legacy \notin {"dotenv", "flat"}
  /\ Starts(p, [step |-> "init"])
  /\ UNCHANGED <<legacy, yaml, env, lock, intent, forgotten>>
InitProject(p) ==
  /\ At(p, "init")
  /\ IF HasFolder THEN yaml' = [k \in Keys |-> Default] /\ intent' = <<>> ELSE UNCHANGED <<yaml, intent>>
  /\ Goes(p, Resting)
  /\ UNCHANGED <<legacy, env, lock, commands, forgotten>>

\* Setting a key and removing it; value None removes it.
StartMutate(p, key, value) ==
  /\ Starts(p, [step |-> "mutate", key |-> key, value |-> value])
  /\ UNCHANGED <<legacy, yaml, env, lock, intent, forgotten>>

\* What is read of the file goes with the process.
ToWrite(p) ==
  [step |-> "write", key |-> process[p].key, value |-> process[p].value,
   root |-> IF yaml = None THEN <<>> ELSE yaml]

\* Mutant: the file is read before the lock is taken, and the lock is not waited for.
ReadUnlocked(p) ==
  /\ At(p, "mutate") /\ HasFolder /\ yaml # Broken
  /\ Goes(p, ToWrite(p))
  /\ UNCHANGED <<legacy, yaml, env, lock, commands, intent, forgotten>>
ReadYaml(p) ==
  /\ At(p, "mutate") /\ HasFolder /\ Free("config") /\ yaml # Broken
  /\ Lock(p, "config")
  /\ Goes(p, ToWrite(p))
  /\ UNCHANGED <<legacy, yaml, env, commands, intent, forgotten>>

Updated(root, key, value) ==
  IF value # None THEN [k \in DOMAIN root \cup {key} |-> IF k = key THEN value ELSE root[k]]
  ELSE [k \in DOMAIN root \ {key} |-> root[k]]
\* A key that is not there is not removed.
WriteYaml(p) ==
  LET do == process[p] IN
  /\ At(p, "write")
  /\ IF do.value = None /\ do.key \notin DOMAIN do.root THEN UNCHANGED yaml
     ELSE yaml' = Updated(do.root, do.key, do.value)
  /\ intent' = Updated(intent, do.key, do.value)
  /\ Unlock("config") /\ Goes(p, Resting)
  /\ UNCHANGED <<legacy, env, commands, forgotten>>

StartSecret(p, name, stored) ==
  /\ Starts(p, [step |-> "secret", name |-> name, stored |-> stored])
  /\ UNCHANGED <<legacy, yaml, env, lock, intent, forgotten>>
ReadEnv(p) ==
  /\ At(p, "secret") /\ HasFolder /\ Free("env")
  /\ Lock(p, "env")
  /\ Goes(p, [step |-> "store", name |-> process[p].name, stored |-> process[p].stored, names |-> env])
  /\ UNCHANGED <<legacy, yaml, env, commands, intent, forgotten>>
WriteEnv(p) ==
  LET do == process[p] IN
  /\ At(p, "store")
  /\ Replaces(IF do.stored THEN do.names \cup {do.name} ELSE do.names \ {do.name})
  /\ Unlock("env") /\ Goes(p, Resting)
  /\ UNCHANGED <<legacy, yaml, commands, intent>>

\* A file that cannot be read, made or written, a lock that stays taken for half a second,
\* or a process that is stopped: what it held is free again.
Fail(p) ==
  /\ process[p] # Resting
  /\ lock' = [file \in DOMAIN lock |-> IF lock[file] = p THEN None ELSE lock[file]]
  /\ Goes(p, Resting)
  /\ UNCHANGED <<legacy, yaml, env, commands, intent, forgotten>>

\* People replace the file, leave one that does not parse, or remove it.
EditConfig ==
  /\ HasFolder /\ commands < MaxCommands /\ commands' = commands + 1
  /\ \/ yaml' \in {None, Broken}
     \/ \E k \in Keys, v \in Values : yaml' = [only \in {k} |-> v]
  /\ intent' = <<>>
  \* Not in the moment in which a command replaces it: no lock keeps people out.
  /\ Free("config")
  /\ UNCHANGED <<legacy, env, lock, process, forgotten>>

-----------------------------------------------------------------------------

ConfigInit ==
  /\ \/ legacy = "flat" /\ yaml = None /\ env = {}
     \/ legacy \in {None, "dotenv"} /\ yaml = None /\ env \in SUBSET (Secrets \ LegacySecrets)
  /\ lock = [file \in {"config", "env"} |-> None]
  /\ process = [p \in Processes |-> Resting] /\ commands = 0 /\ intent = <<>> /\ forgotten = {}

ConfigNext ==
  \/ EditConfig
  \/ \E p \in Processes :
       \/ Load(p) \/ Detect(p) \/ MoveAside(p) \/ MoveIn(p)
       \/ ReadDotenv(p) \/ WriteYamlConfig(p) \/ ReadSecrets(p) \/ Preserve(p) \/ RenameToBak(p)
       \/ StartInit(p) \/ InitProject(p) \/ ReadYaml(p) \/ WriteYaml(p) \/ ReadEnv(p) \/ WriteEnv(p) \/ Fail(p)
       \/ \E k \in Keys, v \in Values \cup {None} : StartMutate(p, k, v)
       \/ \E s \in Secrets, stored \in BOOLEAN : StartSecret(p, s, stored)

ConfigSpec == ConfigInit /\ [][ConfigNext]_configVars

-----------------------------------------------------------------------------
(* Properties *)

\* What a command set stays until another command sets or removes it, whatever commands run
\* next to it and wherever they fail; only people, init and a migration write over it.
SettingsKept == yaml \notin {None, Broken} => \A k \in DOMAIN intent : k \in DOMAIN yaml /\ yaml[k] = intent[k]

\* Once the file of the older form is put away, its secrets are in .env, but for what a
\* command removed or wrote over.
SecretsPreserved == legacy = "bak" => LegacySecrets \subseteq env \cup forgotten

\* Neither settings nor secrets are lost between processes; see the two.
NothingIsLost == SettingsKept /\ SecretsPreserved
=============================================================================
