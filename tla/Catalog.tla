------------------------------ MODULE Catalog ------------------------------
(***************************************************************************)
(* What the credentials service promises: a catalogue of named             *)
(* credentials, each of its operations at once.                            *)
(***************************************************************************)
CONSTANTS Credentials, Names, None

VARIABLE catalog

Stored == {c \in Credentials : catalog[c] # None}

Add(c, n) == c \notin Stored /\ catalog' = [catalog EXCEPT ![c] = n]
Rename(c, n) == c \in Stored /\ catalog' = [catalog EXCEPT ![c] = n]
Delete(c) == c \in Stored /\ catalog' = [catalog EXCEPT ![c] = None]
DeleteAll == Stored # {} /\ catalog' = [c \in Credentials |-> None]
=============================================================================
