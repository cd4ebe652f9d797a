---------------------------- MODULE SigningKeys ----------------------------
(***************************************************************************)
(* The key a container signs and verifies tokens with, from its settings   *)
(* (core/config.py, core/security.py).  Settings are read once, at start,  *)
(* and are the same for every container of a deployment; containers come   *)
(* and go (a deploy, a crash, the hosting plan's sleep).                   *)
(***************************************************************************)
EXTENDS Naturals

CONSTANTS
  Containers,      \* the places a container of the service can run in
  StartSettings,   \* the settings to look at
  MaxKeys          \* bound on the keys generated

(* What a key path names: nothing, a file that is not there, the pasted    *)
(* key, or a file with one of two keys.                                    *)
KeyPath == {"unset", "missing", "pasted", "a", "b"}

(* others: what validate asks of the settings that have nothing to do with *)
(* the keys (root path, email, reset minutes, CORS) is so.                 *)
Settings ==
  [production : BOOLEAN, algorithm : {"RS256", "HS256", "other"},
   secret : {"development", "own"}, private : KeyPath, public : KeyPath, others : BOOLEAN]

ASSUME KeyAssumption ==
  /\ StartSettings \subseteq Settings
  /\ MaxKeys \in Nat

VARIABLES
  settings,    \* what get_settings reads
  key,         \* get_signing_keys() of each container, None where none serves
  generated    \* how many keys were generated

keys == <<settings, key, generated>>

Keys ==
  {<<"secret", s>> : s \in {"development", "own"}}
    \cup {<<"file", p>> : p \in KeyPath} \cup {<<"generated", n>> : n \in 1 .. MaxKeys}

SigningKey == [sign : Keys, verify : Keys]

None == [sign |-> <<>>, verify |-> <<>>]

Serving == {c \in Containers : key[c] # None}

(* jwks: what a container publishes at /.well-known/jwks.json.             *)
Published(c) == IF settings.algorithm = "HS256" THEN {} ELSE {key[c].verify}

-----------------------------------------------------------------------------
(* Faulty variant: production does not insist on key files.                *)
ValidWithoutFiles(s) ==
  /\ s.algorithm \in {"RS256", "HS256"}
  /\ "pasted" \notin {s.private, s.public}
  /\ s.others
  /\ s.production /\ s.algorithm = "HS256" => s.secret # "development"

(* Settings.validate.                                                      *)
Valid(s) ==
  /\ s.algorithm \in {"RS256", "HS256"}
  /\ "pasted" \notin {s.private, s.public}
  /\ s.others
  /\ s.production =>
       /\ s.algorithm = "HS256" => s.secret # "development"
       /\ s.algorithm = "RS256" => "unset" \notin {s.private, s.public}

Secret(s) == [sign |-> <<"secret", s.secret>>, verify |-> <<"secret", s.secret>>]

(* _rsa_keys_from_files.                                                   *)
Files(s) == [sign |-> <<"file", s.private>>, verify |-> <<"file", s.public>>]

(* _ephemeral_rsa_keys.                                                    *)
Ephemeral(n) == [sign |-> <<"generated", n>>, verify |-> <<"generated", n>>]

KeysInit ==
  /\ settings \in StartSettings
  /\ key = [c \in Containers |-> None]
  /\ generated = 0

(* main.py and get_signing_keys: a container serves only if its settings   *)
(* are valid and the files it names can be read.                           *)
StartContainer(c) ==
  /\ key[c] = None
  /\ Valid(settings)
  /\ \/ /\ settings.algorithm = "HS256"
        /\ key' = [key EXCEPT ![c] = Secret(settings)]
        /\ UNCHANGED generated
     \/ /\ settings.algorithm = "RS256"
        /\ {"unset", "missing"} \cap {settings.private, settings.public} = {}
        /\ key' = [key EXCEPT ![c] = Files(settings)]
        /\ UNCHANGED generated
     \/ /\ settings.algorithm = "RS256"
        /\ "unset" \in {settings.private, settings.public}
        /\ generated < MaxKeys
        /\ generated' = generated + 1
        /\ key' = [key EXCEPT ![c] = Ephemeral(generated')]
  /\ UNCHANGED settings

(* A container stops or dies, and its keys with it.                        *)
StopContainer(c) ==
  /\ key[c] # None
  /\ key' = [key EXCEPT ![c] = None]
  /\ UNCHANGED <<settings, generated>>

KeysTypeOK ==
  /\ settings \in StartSettings
  /\ key \in [Containers -> SigningKey \cup {None}]
  /\ generated \in 0 .. MaxKeys
=============================================================================
