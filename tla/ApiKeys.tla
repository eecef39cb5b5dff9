------------------------------- MODULE ApiKeys -------------------------------
(***************************************************************************)
(* The API keys: made once, shown once, kept as a hash, and what a request *)
(* proves by presenting one.                                               *)
(*                                                                         *)
(* A secret is a number, given in the order secrets are made; 0 is a text  *)
(* that is no key.  A key keeps its row when it is revoked, since its name *)
(* still signs what it published.  A name is looked for in one statement   *)
(* and the row written in another, so two administrators may race; the     *)
(* unique index of the table settles it, for the letters SQLite folds.     *)
(* The use of a key is dated by its id after its secret was looked up.     *)
(*                                                                         *)
(* Left out: the prefix the page shows, the wording of the answers.        *)
(***************************************************************************)
EXTENDS Naturals, Sequences

CONSTANTS Admins, Calls, KeyNames,
          Lower(_),      \* a text in lower case, accents included
          AsciiLower(_), \* a text in lower case, ASCII letters only
          MaxKeys,       \* bound on the keys made
          MaxSecrets     \* bound on the secrets made

VARIABLES
  keys,    \* the rows of api_keys, by id
  making,  \* the name each administrator's form is creating, or NoName
  secrets, \* how many secrets were made
  stopped, \* the secrets that were replaced or revoked
  calls    \* the requests presenting a key

keyring == <<keys, making, secrets, stopped>>

NoName == "none"
NoCall == [at |-> "none", key |-> 0, due |-> FALSE, late |-> FALSE]

Key == [name : KeyNames, secret : 1..MaxSecrets, inUse : BOOLEAN,
        lately : BOOLEAN]  \* used in the last minute
Call == [at : {"none", "found", "in", "busy"}, key : 0..MaxKeys, due : BOOLEAN, late : BOOLEAN]

KeysTypeOK ==
  /\ keys \in Seq(Key) /\ Len(keys) <= MaxKeys
  /\ making \in [Admins -> KeyNames \cup {NoName}]
  /\ secrets \in 0..MaxSecrets
  /\ stopped \subseteq 1..secrets
  /\ calls \in [Calls -> Call]
  /\ \A k \in DOMAIN keys : keys[k].inUse <=> keys[k].secret \notin stopped

KeysInit ==
  /\ keys = <<>> /\ secrets = 0 /\ stopped = {}
  /\ making = [a \in Admins |-> NoName]
  /\ calls = [c \in Calls |-> NoCall]

InUse == {k \in DOMAIN keys : keys[k].inUse}

NameInUse(name) == \E k \in InUse : Lower(keys[k].name) = Lower(name)

(* The unique index on the names of the keys in use folds ASCII only.      *)
Conflict(name) == \E k \in InUse : AsciiLower(keys[k].name) = AsciiLower(name)

NewSecret == secrets + 1

(* The rows after a key is created, given another secret, revoked.         *)
Created(name) ==
  Append(keys, [name |-> name, secret |-> NewSecret, inUse |-> TRUE, lately |-> FALSE])
ReplaceSecret(k) == [keys EXCEPT ![k].secret = NewSecret, ![k].lately = FALSE]
RevokedRow(k) == [keys EXCEPT ![k].inUse = FALSE]

(* An administrator's form: the name is free when it is read.              *)
CreateKeyStart(a, name) ==
  /\ making[a] = NoName
  /\ ~NameInUse(name)
  /\ making' = [making EXCEPT ![a] = name]
  /\ UNCHANGED <<keys, secrets, stopped, calls>>

(* The row is written, or the name was taken meanwhile.                    *)
CreateKeyFinish(a) ==
  /\ making[a] # NoName /\ Len(keys) < MaxKeys /\ secrets < MaxSecrets
  /\ making' = [making EXCEPT ![a] = NoName]
  /\ IF Conflict(making[a])
     THEN UNCHANGED <<keys, secrets>>
     ELSE secrets' = NewSecret /\ keys' = Created(making[a])
  /\ UNCHANGED <<stopped, calls>>

(* A new secret under the same name, for a key in use.                     *)
Regenerate(k) ==
  /\ k \in InUse /\ secrets < MaxSecrets
  /\ secrets' = NewSecret
  /\ stopped' = stopped \cup {keys[k].secret}
  /\ keys' = ReplaceSecret(k)
  /\ UNCHANGED <<making, calls>>

Revoke(k) ==
  /\ k \in InUse
  /\ keys' = RevokedRow(k)
  /\ stopped' = stopped \cup {keys[k].secret}
  /\ UNCHANGED <<making, secrets, calls>>

(* The key whose secret this is.                                           *)
FindByHash(secret) == {k \in InUse : keys[k].secret = secret}

UseIsDue(key) == ~key.lately

(* A request presents a secret; one that finds no key is refused.          *)
Present(c, secret) ==
  /\ calls[c].at = "none"
  /\ \E k \in FindByHash(secret) :
       calls' = [calls EXCEPT ![c] = [at |-> "found", key |-> k, due |-> UseIsDue(keys[k]),
                                      late |-> secret \in stopped]]
  /\ UNCHANGED keyring

(* The use is dated by the key's id, unless one was a minute ago.          *)
Touch(c) ==
  LET k == calls[c].key IN
  /\ calls[c].at = "found"
  /\ keys' = IF calls[c].due /\ UseIsDue(keys[k])
             THEN [keys EXCEPT ![k].lately = TRUE] ELSE keys
  /\ calls' = [calls EXCEPT ![c].at = "in"]
  /\ UNCHANGED <<making, secrets, stopped>>

(* A minute passes.                                                        *)
MinutePasses ==
  /\ \E k \in DOMAIN keys : keys[k].lately
  /\ keys' = [k \in DOMAIN keys |-> [keys[k] EXCEPT !.lately = FALSE]]
  /\ UNCHANGED <<making, secrets, stopped, calls>>

-----------------------------------------------------------------------------
(* Two keys in use never answer to one name, whatever two administrators   *)
(* send at once (api_key_service.rs: create).                              *)
KeysInUseAreTold ==
  \A k, l \in InUse : AsciiLower(keys[k].name) = AsciiLower(keys[l].name) => k = l
=============================================================================
