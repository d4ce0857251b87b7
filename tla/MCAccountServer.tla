-------------------------- MODULE MCAccountServer --------------------------
(* Instances of AccountServer for TLC. *)
EXTENDS AccountServer, TLC

\* The three parts share the browsers' sessions and the restart alone.  The
\* last two only ask who is signed in, so that they are explored where every
\* user is, while the other parts are at rest.
AccountsRest ==
    /\ \A b \in Browsers : ceremony[b] = None /\ verifying[b] = None
    /\ SignedIn = Users /\ codes = Cardinality(Users)
DevicesRest == asked = {} /\ \A b \in Bindings : binding[b] = None
PairingsRest == \A p \in Pairings : pairing[p] = "new"
OnePart ==
    \/ DevicesRest /\ PairingsRest
    \/ AccountsRest /\ PairingsRest
    \/ AccountsRest /\ DevicesRest

Symmetric == Permutations(Passkeys) \cup Permutations(Users) \cup Permutations(Browsers)
=============================================================================
