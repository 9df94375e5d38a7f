--------------------------- MODULE MCCredentials ---------------------------
(* Credentials for TLC: windows and credentials are interchangeable.  A     *)
(* behaviour is followed up to its first flaw of the history: what comes    *)
(* after it differs in the log only.                                        *)
EXTENDS Credentials, TLC

Healthy == ~flawed

Symmetric == Permutations(Windows) \cup Permutations(Credentials)
=============================================================================
