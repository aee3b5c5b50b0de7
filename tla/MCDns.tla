------------------------------- MODULE MCDns -------------------------------
(***************************************************************************)
(* Instances of Dns for TLC.                                               *)
(***************************************************************************)
EXTENDS Dns, FiniteSets, TLC

Symmetry == Permutations(Clients) \cup Permutations(Threads) \cup Permutations(Hosts)

\* Bound: either two clients ask for two hosts, and the stores for channel 0 are seen in
\* any order, or all ask for all; the other stores are seen in their turn.  Among the few,
\* a lookup that finds nothing reports an error.
VARIABLES who, what

Few == Cardinality(who) = 2 /\ Cardinality(what) = 2

MCInit == /\ Init
          /\ who \in SUBSET Clients /\ what \in SUBSET Hosts
          /\ Few \/ (who = Clients /\ what = Hosts)

NothingFound(t) == /\ thread[t].pc = "lookup" /\ thread'[t].pc = "store"
                   /\ thread'[t].hosts = NULL
                   /\ dns_server'[thread[t].channel].status = "ok"

StateFirst(t) == thread'[t].todo = {"addr_list"}

MCNext == /\ Next
          /\ \A k \in Clients : asked'[k] # NULL => k \in who /\ asked'[k] \in what
          /\ \A t \in Threads : StateFirst(t) => Few /\ thread'[t].channel = 0
          /\ Few => \A t \in Threads : ~NothingFound(t)
          /\ UNCHANGED <<who, what>>

MCSpec == MCInit /\ [][MCNext]_<<vars, who, what>>

\* Every store is seen in its turn.
MCFairInit == MCInit /\ ~Few

MCFairSpec == MCFairInit /\ [][MCNext]_<<vars, who, what>> /\ Fairness
============================================================================
