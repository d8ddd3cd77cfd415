------------------------------ MODULE Keystore ------------------------------
(***************************************************************************)
(* The passphrase-encrypted mnemonic: the `keystore create` and `keystore  *)
(* verify` commands (src/src/keystoreCli.ts), what a keystore file opens   *)
(* onto (src/src/keystore.ts), and the operator who deletes the plaintext  *)
(* once told the keystore works.                                           *)
(*                                                                         *)
(* Sealing is a record of the words and the passphrase they were sealed    *)
(* under: it opens with that passphrase and no other, and not once the     *)
(* file is torn or its shape is not a keystore's.                          *)
(***************************************************************************)
CONSTANTS
    Wallets,      \* mnemonics of 24 words that derive an address
    NotWords,     \* what is not a usable mnemonic
    Passphrases,  \* those of at least 12 characters
    Nothing       \* no file, no wallet

ASSUME KeystoreAssumption ==
    Wallets \cap NotWords = {} /\ Nothing \notin Wallets \cup NotWords \cup Passphrases

VARIABLES
    plain,      \* the mnemonic files on disk
    store,      \* the keystore file: Nothing, torn, or a sealed wallet
    writing,    \* the keystore being written over it, or Nothing
    meant,      \* the passphrase the operator keeps
    trusted,    \* the wallet whose plaintext is gone because of the keystore
    forced      \* history: --force replaced a keystore

kvars == <<plain, store, writing, meant, trusted, forced>>

Sealed(w, pass) == [words |-> w, pass |-> pass, torn |-> FALSE, costly |-> TRUE]

Torn == [words |-> Nothing, pass |-> Nothing, torn |-> TRUE, costly |-> FALSE]

(***************************************************************************)
(* assertKeystore: the shape, and a key derivation worth its cost.         *)
(***************************************************************************)
IsKeystore(k) == k # Nothing /\ ~k.torn /\ k.costly

(* decryptMnemonic: the words, or Nothing for a passphrase that is wrong.  *)
Decrypted(k, pass) == IF IsKeystore(k) /\ k.pass = pass THEN k.words ELSE Nothing

KeystoreInit ==
    /\ plain \in {{w} : w \in Wallets}
    /\ store = Nothing
    /\ writing = Nothing
    /\ meant = Nothing
    /\ trusted = Nothing
    /\ forced = FALSE

(* Mutant: the second prompt is not compared with the first. *)
TypedOnce(first, second, tty) == TRUE

(***************************************************************************)
(* A terminal asks twice and a pipe once, as it cannot mistype.            *)
(***************************************************************************)
TypedAlike(first, second, tty) == tty => first = second

(* Mutant: the keystore is replaced without --force. *)
AlwaysFree(force) == TRUE

MayWrite(force) == store = Nothing \/ force

(***************************************************************************)
(* create, up to the write: the mnemonic from a file or typed, checked by  *)
(* deriving its address, sealed, and opened again before anything is       *)
(* written.  The operator means the passphrase kept and mistypes it at     *)
(* most once.                                                              *)
(***************************************************************************)
Create(words, keep, first, second, tty, force) ==
    /\ writing = Nothing
    /\ MayWrite(force)
    /\ words \in plain \/ tty
    /\ words \notin NotWords
    /\ first \in Passphrases
    /\ IF tty THEN keep \in {first, second} ELSE keep = first
    /\ TypedAlike(first, second, tty)
    /\ Decrypted(Sealed(words, first), first) = words
    /\ writing' = Sealed(words, first)
    /\ store' = Torn
    /\ meant' = keep
    /\ forced' = (forced \/ (force /\ store # Nothing))
    /\ UNCHANGED <<plain, trusted>>

(* The file is whole, its mode 0600, and the operator told so.             *)
Created ==
    /\ writing # Nothing
    /\ store' = writing
    /\ writing' = Nothing
    /\ UNCHANGED <<plain, meant, trusted, forced>>

(* The process is killed, or the disk is full, in the middle of the write. *)
CutShort ==
    /\ writing # Nothing
    /\ writing' = Nothing
    /\ UNCHANGED <<plain, store, meant, trusted, forced>>

(***************************************************************************)
(* The operator deletes the plaintext of the wallet whose address create   *)
(* printed.                                                                *)
(***************************************************************************)
DeletePlain ==
    /\ writing = Nothing
    /\ IsKeystore(store)
    /\ store.words \in plain
    /\ plain' = plain \ {store.words}
    /\ trusted' = store.words
    /\ UNCHANGED <<store, writing, meant, forced>>

KeystoreNext ==
    \/ \E words \in Wallets \cup NotWords, keep, first, second \in Passphrases,
          tty, force \in BOOLEAN :
             Create(words, keep, first, second, tty, force)
    \/ Created
    \/ CutShort
    \/ DeletePlain

(***************************************************************************)
(* A wallet whose plaintext was deleted on the tool's word still opens     *)
(* with the passphrase the operator keeps: through a mistyped passphrase,  *)
(* words that are not a mnemonic and a write cut short, as long as nobody  *)
(* forced another keystore over it.                                        *)
(***************************************************************************)
WordsAreNeverLost ==
    trusted # Nothing /\ ~forced => Decrypted(store, meant) = trusted
=============================================================================
