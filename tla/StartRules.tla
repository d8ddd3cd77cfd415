----------------------------- MODULE StartRules -----------------------------
(***************************************************************************)
(* The rules signerd starts under (src/src/signerd.ts, hardening.ts,       *)
(* network.ts) and what preflight says of them, as operators on an         *)
(* environment e and a policy p.                                           *)
(*                                                                         *)
(*   e.network    CARDANO_NETWORK                                          *)
(*   e.settings   every number is within its bounds                        *)
(*   e.token      SIGNERD_TOKEN: "none", "short" or "long"                 *)
(*   e.tokens     AGENT_TOKENS_FILE: "unset", "sound" or "bad"             *)
(*   e.keys       the sources set: "keystore", "environment", "file"       *)
(*   e.passphrase "right", "wrong", "typed" or "none"                      *)
(*   e.beside     its file is next to the keystore                         *)
(*   e.modes      the mode of each file                                    *)
(*   e.windows    modes say nothing here                                   *)
(*   e.log        the checkpoint and the log: "sound", "broken" (the chain *)
(*                or the checkpoint's place in it) or "unreadable"         *)
(*   e.waived     ALLOW_UNVERIFIED_AUDIT                                   *)
(*   e.index      the channel index can be read                            *)
(*   e.blockfrost a project id is set                                      *)
(*   e.ceiling    MAX_HOT_BALANCE_LOVELACE is set                          *)
(*                                                                         *)
(* A policy is Unreadable or [network, agents, gated, assets, anyone,      *)
(* heavy, channels, lovelaceCaps]: the agents it names, whether each asset *)
(* has an approval threshold, the kinds of token it caps, whether an       *)
(* allowlist is open, whether it allows a transfer method whose collateral *)
(* or datum rides along, how it allows batch settlement, whether it caps   *)
(* ADA.                                                                    *)
(***************************************************************************)
CONSTANT Unreadable

(***************************************************************************)
(* networkName, with the CIP-34 aliases.                                   *)
(***************************************************************************)
Names ==
    [id \in {"cardano:mainnet", "cip34:1-764824073", "cardano:preprod", "cardano:preview"} |->
        IF id = "cardano:preprod" THEN "preprod"
        ELSE IF id = "cardano:preview" THEN "preview" ELSE "mainnet"]

IsMainnet(e) == Names[e.network] = "mainnet"

(***************************************************************************)
(* File modes: "private" is 0600, "readable" lets others read, "writable"  *)
(* lets them write.                                                        *)
(***************************************************************************)
Secrets == {"mnemonic", "agent tokens", "keystore", "passphrase"}

ModeProblem(label, mode) == mode = "writable" \/ (label \in Secrets /\ mode = "readable")

(***************************************************************************)
(* What an environment and a policy may be; "elsewhere" is any network     *)
(* that networkName does not know.                                         *)
(***************************************************************************)
Networks == DOMAIN Names \cup {"elsewhere"}

Files == Secrets \cup {"policy", "audit", "ledger", "channel index"}

Configurations ==
    [network : Networks, settings : BOOLEAN, token : {"none", "short", "long"},
     tokens : {"unset", "sound", "bad"}, keys : SUBSET {"keystore", "environment", "file"},
     passphrase : {"right", "wrong", "typed", "none"}, beside : BOOLEAN,
     modes : [Files -> {"private", "readable", "writable", "absent"}], windows : BOOLEAN,
     log : {"sound", "broken", "unreadable"}, waived : BOOLEAN, index : BOOLEAN,
     blockfrost : BOOLEAN, ceiling : BOOLEAN]

PolicyFiles(ids) ==
    [network : Networks \cup {"none"}, agents : SUBSET ids, gated : BOOLEAN,
     assets : SUBSET {"known", "lookalike", "unknown"}, anyone : BOOLEAN, heavy : BOOLEAN,
     channels : {"off", "bounded", "unbounded"}, lovelaceCaps : BOOLEAN]

(***************************************************************************)
(* checkFileMode: what it notes of a file, if there is one; "fatal" ends   *)
(* the process.                                                            *)
(***************************************************************************)
Level(e, label, mode) ==
    IF e.windows THEN "warn"
    ELSE IF ~ModeProblem(label, mode) THEN "ok"
    ELSE IF IsMainnet(e) THEN "fatal" ELSE "warn"

NotesOn(e, labels, modes) ==
    {<<label, Level(e, label, modes[label])>> : label \in {f \in labels : modes[f] # "absent"}}

Fatal(found) == \E note \in found : note[2] = "fatal"

OperatorTokenProblem(e) == e.token = "short"

AgentIdentityProblem(e) == e.tokens = "unset"

(***************************************************************************)
(* Before anything is read or decrypted.                                   *)
(***************************************************************************)
SettingsRefused(e) ==
    \/ e.token = "none"
    \/ ~e.settings
    \/ e.network \notin DOMAIN Names
    \/ IsMainnet(e) /\ (OperatorTokenProblem(e) \/ AgentIdentityProblem(e))

SecretFiles(e) ==
    (IF "file" \in e.keys THEN {"mnemonic"} ELSE {})
      \cup (IF e.tokens # "unset" THEN {"agent tokens"} ELSE {})
      \cup (IF "keystore" \in e.keys THEN {"keystore"} ELSE {})
      \cup (IF e.passphrase \in {"right", "wrong"} THEN {"passphrase"} ELSE {})

(* The source loadMnemonic takes. *)
KeySource(e) ==
    IF "keystore" \in e.keys THEN "keystore"
    ELSE IF "environment" \in e.keys THEN "environment"
    ELSE IF "file" \in e.keys THEN "file" ELSE "none"

(***************************************************************************)
(* AGENT_TOKENS_FILE: every token long enough, naming an agent and not the *)
(* operator's, and at least one of them.                                   *)
(***************************************************************************)
TokensRefused(e) == e.tokens = "bad"

(* parsePolicy and assertPolicyNetwork. *)
PolicyRefused(e, p) ==
    IF p = Unreadable THEN TRUE
    ELSE \/ p.network \notin {"none", e.network}
         \/ IsMainnet(e) /\ p.network = "none"

(* readCheckpoint, and what replay found against it. *)
LogRefused(e) == e.log = "unreadable" \/ (e.log = "broken" /\ ~e.waived)

-----------------------------------------------------------------------------
(***************************************************************************)
(* preflight: a level for each check.  What is fatal or missing on mainnet *)
(* fails there and warns elsewhere; a choice that is the operator's warns. *)
(***************************************************************************)
Graded(e, problem) == IF ~problem THEN "ok" ELSE IF IsMainnet(e) THEN "fail" ELSE "warn"

Warned(problem) == IF problem THEN "warn" ELSE "ok"

(* Mutant: an operator token that is too short is not repeated. *)
ForgetfulChecks(e, found) ==
    { <<"key at rest", Graded(e, KeySource(e) # "keystore")>>,
      <<"agent identity", Graded(e, AgentIdentityProblem(e))>> } \cup found

DeploymentChecks(e, found) ==
    { <<"key at rest", Graded(e, KeySource(e) # "keystore")>>,
      <<"keystore passphrase", Warned(KeySource(e) = "keystore" /\ e.beside)>>,
      <<"agent identity", Graded(e, AgentIdentityProblem(e))>>,
      <<"operator token", Graded(e, OperatorTokenProblem(e))>>,
      <<"audit chain enforcement", Warned(e.waived)>>,
      <<"chain provider", Warned(IsMainnet(e) /\ ~e.blockfrost)>> }
    \cup found

(***************************************************************************)
(* The wallet and what its channels hold against the ceiling; the balance  *)
(* is "under", "over", or "unknown" until refreshBalance has read it.      *)
(***************************************************************************)
CeilingCheck(e, balance) ==
    <<"hot wallet ceiling",
      IF ~e.ceiling THEN Graded(e, TRUE)
      ELSE IF balance = "unknown" THEN "warn" ELSE Graded(e, balance = "over")>>

(***************************************************************************)
(* A token the wallet knows, one named like it under another policy id, or *)
(* neither.                                                                *)
(***************************************************************************)
AssetCheck(e, kind) ==
    <<"asset", IF kind = "known" THEN "ok"
               ELSE IF kind = "lookalike" THEN Graded(e, TRUE) ELSE "warn">>

AgentChecks(e, p) ==
    { <<"allowlists", Warned(p.anyone)>>,
      <<"human approval", Warned(~p.gated)>>,
      <<"asset transfer methods", Warned(p.heavy)>>,
      <<"lovelace caps for token payments", Graded(e, p.assets # {} /\ ~p.lovelaceCaps)>>,
      <<"channel provider keys and deposits", Warned(p.channels = "unbounded")>>,
      <<"batch-settlement", Warned(p.channels # "off" /\ Names[e.network] # "preprod")>> }
    \cup {AssetCheck(e, kind) : kind \in p.assets}

Preflight(e, p, found, balance) ==
    {CeilingCheck(e, balance)} \cup DeploymentChecks(e, found)
      \cup IF PolicyRefused(e, p)
           THEN {<<"policy readable", "fail">>, <<"policy declares its network", Graded(e, TRUE)>>}
           ELSE {<<"policy declares its network", Graded(e, p.network = "none")>>}
                  \cup AgentChecks(e, p)
=============================================================================
