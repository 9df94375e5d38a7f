------------------------------ MODULE Provider ------------------------------
(***************************************************************************)
(* The injected provider of a site, its Handler, and the content script:   *)
(* requests carry a nonce to the background page, and the reply with that  *)
(* nonce settles the promise.                                              *)
(***************************************************************************)
EXTENDS Naturals, FiniteSets

CONSTANTS
  Sites,                    \* origins, with one tab each
  Kinds,                    \* external actions
  MaxRequests, MaxRemounts

ASSUME ProviderAssumption == MaxRequests \in Nat /\ MaxRemounts \in Nat

VARIABLES
  providers,   \* providers[s]: how many providers the tab made, and the nonce of the last one
  promises,    \* requestsPromises of all providers
  wire,        \* messages between the content scripts and the background page
  crossed,     \* history: a promise was settled with the reply of another request
  requests     \* requests so far

providerVars == <<providers, promises, wire, crossed, requests>>

-----------------------------------------------------------------------------

Ids == 1..MaxRequests

Promise == [site: Sites, nonce: Nat, id: Ids, settled: BOOLEAN]
Message == [site: Sites, nonce: Nat, id: Ids, kind: Kinds, pc: {"sent", "handling", "ok", "err"}]

ProviderTypeOK ==
  /\ providers \in [Sites -> [made: 1..(MaxRemounts + 1), nonce: 0..MaxRequests]]
  /\ promises \subseteq Promise /\ wire \subseteq Message
  /\ Cardinality(wire) <= requests
  /\ crossed \in BOOLEAN /\ requests \in 0..MaxRequests

ProviderInit ==
  /\ providers = [s \in Sites |-> [made |-> 1, nonce |-> 0]]
  /\ promises = {} /\ wire = {} /\ crossed = FALSE /\ requests = 0

-----------------------------------------------------------------------------

\* Mutant: the nonce is not counted up.
RequestSameNonce(s, kind) ==
  /\ requests < MaxRequests /\ requests' = requests + 1
  /\ LET nonce == providers[s].nonce
     IN  /\ wire' = wire \cup {[site |-> s, nonce |-> nonce, id |-> requests', kind |-> kind, pc |-> "sent"]}
         /\ promises' = promises \cup {[site |-> s, nonce |-> nonce, id |-> requests', settled |-> FALSE]}
         /\ UNCHANGED providers
  /\ UNCHANGED crossed

\* Handler.request
Request(s, kind) ==
  /\ requests < MaxRequests /\ requests' = requests + 1
  /\ LET nonce == providers[s].nonce
     IN  /\ wire' = wire \cup {[site |-> s, nonce |-> nonce, id |-> requests', kind |-> kind, pc |-> "sent"]}
         /\ promises' = promises \cup {[site |-> s, nonce |-> nonce, id |-> requests', settled |-> FALSE]}
         /\ providers' = [providers EXCEPT ![s].nonce = @ + 1]
  /\ UNCHANGED crossed

\* initializeCryptKeeper once more: the page that mounts again makes a second provider,
\* whose nonces start over, while the first one goes on listening.
Remount(s) ==
  /\ providers[s].made <= MaxRemounts
  /\ providers' = [providers EXCEPT ![s] = [made |-> @.made + 1, nonce |-> 0]]
  /\ UNCHANGED <<promises, wire, crossed, requests>>

\* eventResponser: a reply settles the promises of its nonce, in every provider of the
\* tab.  A promise that was rejected stays in the map.
Reply(m) ==
  /\ m \in wire /\ m.pc \in {"ok", "err"}
  /\ LET own == {p \in promises : p.site = m.site /\ p.nonce = m.nonce}
     IN  /\ promises' = IF m.pc = "ok" THEN promises \ own
                        ELSE (promises \ own) \cup {[p EXCEPT !.settled = TRUE] : p \in own}
         /\ crossed' = (crossed \/ \E p \in own : ~p.settled /\ p.id # m.id)
  /\ wire' = wire \ {m}
  /\ UNCHANGED <<providers, requests>>

\* The background page goes on with a message.
Advance(m, pc) == wire' = (wire \ {m}) \cup {[m EXCEPT !.pc = pc]}

\* The content script hears nothing of a message that was being handled when the worker
\* stopped, and its promise is left as it is.
Dropped == {m \in wire : m.pc = "handling"}

-----------------------------------------------------------------------------

\* A promise is settled with the reply of its own request, in whatever order replies
\* come, as long as the page made one provider.
RepliesMatch == crossed => \E s \in Sites : providers[s].made > 1
=============================================================================
