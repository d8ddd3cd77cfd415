------------------------------- MODULE MCDaemon -------------------------------
(***************************************************************************)
(* A small instance of Daemon: a wallet set up soundly for mainnet or      *)
(* preprod, and what departs from that in one setting, or on Windows; two  *)
(* requests in the sound preprod wallet, with agents' tokens and without.  *)
(***************************************************************************)
EXTENDS Daemon, TLC

CONSTANTS a, b, r1, r2, w1, mistyped, p1, p2

Private == [f \in Files |-> "private"]

Sound(network) ==
    [network |-> network, settings |-> TRUE, token |-> "long", tokens |-> "sound",
     keys |-> {"keystore"}, passphrase |-> "right", beside |-> FALSE, modes |-> Private,
     windows |-> FALSE, log |-> "sound", waived |-> FALSE, index |-> TRUE,
     blockfrost |-> TRUE, ceiling |-> TRUE]

(* One setting changed; the second set is the wallets with a plain key. *)
Changed(e) ==
    {e}
      \cup {[e EXCEPT !.settings = FALSE], [e EXCEPT !.windows = TRUE],
            [e EXCEPT !.beside = TRUE], [e EXCEPT !.waived = TRUE],
            [e EXCEPT !.index = FALSE], [e EXCEPT !.blockfrost = FALSE],
            [e EXCEPT !.ceiling = FALSE]}
      \cup {[e EXCEPT !.token = t] : t \in {"none", "short"}}
      \cup {[e EXCEPT !.tokens = t] : t \in {"unset", "bad"}}
      \cup {[e EXCEPT !.passphrase = t] : t \in {"wrong", "typed", "none"}}
      \cup {[e EXCEPT !.log = t] : t \in {"broken", "unreadable"}}
      \cup {[e EXCEPT !.modes[f] = m] : f \in Files, m \in {"readable", "writable"}}
      \cup {[e EXCEPT !.modes["ledger"] = "absent"], [e EXCEPT !.modes["audit"] = "absent"]}

PlainKeys(e) == {[e EXCEPT !.keys = k] : k \in {{"file"}, {"environment", "file"}, {}}}

Preprod == Sound("cardano:preprod")

MCBusy ==
    {[Preprod EXCEPT !.keys = {"file"}, !.tokens = t] : t \in {"sound", "unset"}}

MCEnvironments ==
    Changed(Preprod)
      \cup Changed([Preprod EXCEPT !.windows = TRUE])
      \cup Changed(Sound("cardano:mainnet"))
      \cup PlainKeys(Preprod)
      \cup PlainKeys(Sound("cardano:mainnet"))
      \cup {Sound("cip34:1-764824073"), Sound("cardano:preview"), Sound("elsewhere")}
      \cup MCBusy

Rules(network, agents, gated) ==
    [network |-> network, agents |-> agents, gated |-> gated, assets |-> {"known"},
     anyone |-> FALSE, heavy |-> FALSE, channels |-> "off", lovelaceCaps |-> TRUE]

Gated == Rules("cardano:preprod", {a, b}, TRUE)

MCServed == {Gated, Rules("cardano:preprod", {a}, FALSE), Unreadable}

MCPolicies ==
    MCServed
      \cup {Rules("none", {a, b}, FALSE), Rules("cardano:mainnet", {a}, TRUE),
            [Gated EXCEPT !.assets = {"lookalike"}, !.channels = "unbounded"],
            [Gated EXCEPT !.lovelaceCaps = FALSE, !.heavy = TRUE, !.anyone = TRUE]}

Symmetry == Permutations(Requests) \cup Permutations(Passphrases)
=============================================================================
