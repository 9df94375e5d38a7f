------------------------------- MODULE Ledger -------------------------------
(***************************************************************************)
(* What the stores of the wallet promise to whoever uses them.             *)
(*                                                                         *)
(* While the wallet is open, an operation changes the entries of one key   *)
(* in one store: it puts an entry there or drops it.  A store can be wiped *)
(* as a whole.  Nothing else changes a store: opening, locking, restarts   *)
(* and failed operations leave every entry alone.  What an operation that  *)
(* failed would have done is in doubt: it may still happen, together with  *)
(* the next change of the same store.                                      *)
(***************************************************************************)
CONSTANTS Services, Entries,
  Key(_)        \* the key of an entry in its store

VARIABLES
  contents,     \* contents[s]: the entries of store s
  doubtful,     \* doubtful[s]: entries that failed operations meant to put or drop
  open

ledgerVars == <<contents, doubtful, open>>

LedgerInit ==
  /\ contents = [s \in Services |-> {}]
  /\ doubtful = [s \in Services |-> {}]
  /\ open = FALSE

Change(s, e) ==
  /\ open /\ open'
  /\ contents' \in [Services -> SUBSET Entries]
  /\ \A t \in Services \ {s} : contents'[t] = contents[t]
  /\ \A f \in Entries :
       \/ f \in contents'[s] <=> f \in contents[s]
       \/ \E g \in doubtful[s] \cup {e} : Key(f) = Key(g)
  /\ doubtful' = [doubtful EXCEPT ![s] = {}]

Wipe(s) ==
  /\ contents' = [contents EXCEPT ![s] = {}]
  /\ doubtful' = [doubtful EXCEPT ![s] = {}]
  /\ UNCHANGED open

Fail(s, e) ==
  /\ doubtful' = [doubtful EXCEPT ![s] = @ \cup {e}]
  /\ UNCHANGED <<contents, open>>

\* Opening reads the stores, locking and restarting forget what was in doubt.
OpenOrClose ==
  /\ open' \in BOOLEAN
  /\ doubtful' \in [Services -> SUBSET Entries]
  /\ \A s \in Services : doubtful'[s] \subseteq doubtful[s]
  /\ UNCHANGED contents

LedgerNext ==
  \/ \E s \in Services :
       \/ \E e \in Entries : Change(s, e) \/ Fail(s, e)
       \/ Wipe(s)
  \/ OpenOrClose

LedgerSpec == LedgerInit /\ [][LedgerNext]_ledgerVars
=============================================================================
