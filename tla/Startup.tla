------------------------------ MODULE Startup ------------------------------
(***************************************************************************)
(* signerd from its environment to its first request (the top level of     *)
(* src/src/signerd.ts), with the policy file that may be replaced at any   *)
(* moment and the keystore it may have to open.                            *)
(*                                                                         *)
(* Each stage is what happens between two points where somebody else can   *)
(* act: the passphrase prompt, the replay of the log and the opening of    *)
(* the channels are awaited, and the policy is read and then stat'ed by    *)
(* two system calls.                                                       *)
(***************************************************************************)
EXTENDS StartRules, Keystore, Integers

CONSTANTS
    Environments,   \* the configurations tried
    Policies,       \* what the policy file may say, Unreadable included
    MaxEdits        \* bound: how often the policy file is replaced

ASSUME StartupAssumption == MaxEdits \in Nat /\ Environments \subseteq Configurations

VARIABLES
    stage,      \* where the process is
    env,        \* what it was started with
    modes,      \* the mode of each file now
    notes,      \* permissionNotes
    file,       \* the policy file: [policy, mtime]
    cached,     \* policy and policyMtimeMs
    balance,    \* hotBalance against the ceiling
    raced       \* history: the file was replaced between start's read and stat

startvars == <<stage, env, modes, notes, file, cached, balance, raced>>

NoPolicy == [policy |-> Unreadable, mtime |-> -1]

StartupInit ==
    /\ KeystoreInit
    /\ stage = "off"
    /\ env = Nothing
    /\ modes = << >>
    /\ notes = {}
    /\ file \in [policy : Policies, mtime : {0}]
    /\ cached = NoPolicy
    /\ balance = "unknown"
    /\ raced = FALSE

Up == stage \in {"listening", "stopping"}

To(next) == stage' = next

(***************************************************************************)
(* The operator starts the daemon, pointing it at the keystore once they   *)
(* have made one.                                                          *)
(***************************************************************************)
Configure(e) ==
    /\ writing = Nothing
    /\ "keystore" \in e.keys <=> store # Nothing
    /\ To("settings")
    /\ env' = e
    /\ modes' = e.modes
    /\ UNCHANGED <<notes, file, cached, balance, raced, kvars>>

(***************************************************************************)
(* The settings, then the modes of the secrets, before any is read.        *)
(***************************************************************************)
CheckSettings ==
    /\ stage = "settings"
    /\ LET found == IF SettingsRefused(env) THEN {} ELSE NotesOn(env, SecretFiles(env), modes)
       IN  /\ To(IF SettingsRefused(env) \/ Fatal(found) THEN "refused" ELSE "key")
           /\ notes' = found
    /\ UNCHANGED <<env, modes, file, cached, balance, raced, kvars>>

(***************************************************************************)
(* loadMnemonic, the passphrase being read from its file or typed; then    *)
(* the agents' tokens.                                                     *)
(***************************************************************************)
Passphrase(typed) ==
    IF env.passphrase = "right" THEN meant
    ELSE IF env.passphrase = "typed" THEN typed ELSE Nothing

HasKey(typed) ==
    IF KeySource(env) = "keystore"
    THEN env.passphrase # "none" /\ Decrypted(store, Passphrase(typed)) # Nothing
    ELSE KeySource(env) # "none"

LoadKey(typed) ==
    /\ To(IF HasKey(typed) /\ ~TokensRefused(env) THEN "policy" ELSE "refused")
    /\ UNCHANGED <<env, modes, notes, file, cached, balance, raced, kvars>>

ReadPolicy ==
    /\ stage = "policy"
    /\ IF PolicyRefused(env, file.policy)
       THEN To("refused") /\ UNCHANGED cached
       ELSE To("stat") /\ cached' = [cached EXCEPT !.policy = file.policy]
    /\ UNCHANGED <<env, modes, notes, file, balance, raced, kvars>>

(***************************************************************************)
(* Its mtime, then the modes of the policy and the log.                    *)
(***************************************************************************)
StatPolicy ==
    /\ stage = "stat"
    /\ cached' = [cached EXCEPT !.mtime = file.mtime]
    /\ LET found == NotesOn(env, {"policy", "audit"}, modes)
       IN  /\ To(IF Fatal(found) THEN "refused" ELSE "replay")
           /\ notes' = notes \cup found
    /\ UNCHANGED <<env, modes, file, balance, raced, kvars>>

(* The checkpoint, the log, and the log opened for appending. *)
Replay ==
    /\ stage = "replay"
    /\ To(IF LogRefused(env) THEN "refused" ELSE "ledger")
    /\ modes' = IF LogRefused(env) \/ modes["audit"] # "absent" THEN modes
                ELSE [modes EXCEPT !["audit"] = "private"]
    /\ UNCHANGED <<env, notes, file, cached, balance, raced, kvars>>

(***************************************************************************)
(* The ledger's mode is looked at before the checkpoint is written, which  *)
(* renames a fresh private file over it.                                   *)
(***************************************************************************)
Checkpointed == [modes EXCEPT !["ledger"] = "private"]

(* Mutant: the checkpoint is written first. *)
ModesAfterCheckpoint == Checkpointed

ModesBeforeCheckpoint == modes

CheckLedger ==
    /\ stage = "ledger"
    /\ LET found == NotesOn(env, {"ledger"}, ModesBeforeCheckpoint)
       IN  /\ To(IF Fatal(found) THEN "refused" ELSE "channels")
           /\ notes' = notes \cup found
           /\ modes' = IF Fatal(found) THEN modes ELSE Checkpointed
    /\ UNCHANGED <<env, file, cached, balance, raced, kvars>>

(***************************************************************************)
(* openChannels, on preprod only, and the listening socket.                *)
(***************************************************************************)
OpenChannels ==
    /\ stage = "channels"
    /\ IF Names[env.network] # "preprod"
       THEN To("listening") /\ UNCHANGED notes
       ELSE /\ notes' = notes \cup NotesOn(env, {"channel index"}, modes)
            /\ To(IF env.index THEN "listening" ELSE "refused")
    /\ UNCHANGED <<env, modes, file, cached, balance, raced, kvars>>

(***************************************************************************)
(* refreshBalance: a read that fails leaves the last one.                  *)
(***************************************************************************)
RefreshBalance ==
    /\ Up
    /\ balance' \in {"under", "over"}
    /\ UNCHANGED <<stage, env, modes, notes, file, cached, raced, kvars>>

(***************************************************************************)
(* The operator replaces the policy file: between the read and the stat of *)
(* the start, or later.  Before the read it is another file to start with, *)
(* and between the stat and the first request nothing looks at it.         *)
(***************************************************************************)
ReplacePolicy(p) ==
    /\ stage = "stat" \/ Up
    /\ file.mtime < MaxEdits
    /\ file' = [policy |-> p, mtime |-> file.mtime + 1]
    /\ raced' = (raced \/ stage = "stat")
    /\ UNCHANGED <<stage, env, modes, notes, cached, balance, kvars>>

StartupNext ==
    \/ stage = "off" /\ KeystoreNext /\ UNCHANGED startvars
    \/ stage = "off" /\ \E e \in Environments : Configure(e)
    \/ CheckSettings
    \/ stage = "key" /\ \E typed \in Passphrases : LoadKey(typed)
    \/ ReadPolicy
    \/ StatPolicy
    \/ Replay
    \/ CheckLedger
    \/ OpenChannels

-----------------------------------------------------------------------------
(***************************************************************************)
(* A file of the wallet that others could read or write when the process   *)
(* started is noted for the operator, or the process is not running: none  *)
(* is looked at too late, after the daemon itself has made it private.     *)
(***************************************************************************)
FilesLookedAt ==
    SecretFiles(env) \cup {"policy", "audit", "ledger"}
      \cup IF Names[env.network] = "preprod" THEN {"channel index"} ELSE {}

LooseFilesAreSeen ==
    Up => \A f \in FilesLookedAt :
             ModeProblem(f, env.modes[f]) => <<f, "warn">> \in notes

(***************************************************************************)
(* A testnet wallet that preflight has nothing to say against would start  *)
(* on mainnet with the same files and settings and, its policy naming      *)
(* mainnet, fail none of preflight's checks there: what is fatal on        *)
(* mainnet is nowhere silent.                                              *)
(***************************************************************************)
OnMainnet(e) == [e EXCEPT !.network = "cardano:mainnet"]

PolicyOnMainnet(p) ==
    IF p = Unreadable \/ p.network = "none" THEN p
    ELSE [p EXCEPT !.network = "cardano:mainnet", !.channels = "off"]

StartsOn(e, p) ==
    /\ ~SettingsRefused(e) /\ ~PolicyRefused(e, p)
    /\ ~LogRefused(e) /\ ~TokensRefused(e)
    /\ ~Fatal(NotesOn(e, SecretFiles(e) \cup {"policy", "audit", "ledger"}, e.modes))

Clean(checks) == \A c \in checks : c[2] = "ok"

CleanHereStartsThere ==
    /\ Up
    /\ ~IsMainnet(env)
    /\ Clean(Preflight(env, file.policy, notes, balance))
    => LET there == OnMainnet(env)
           p     == PolicyOnMainnet(file.policy)
       IN  /\ StartsOn(there, p)
           /\ \A c \in Preflight(there, p, NotesOn(there, {}, modes), balance) : c[2] # "fail"
=============================================================================
