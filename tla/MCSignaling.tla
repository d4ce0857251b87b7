---------------------------- MODULE MCSignaling ----------------------------
(* Signaling on small sets of connections and session objects.             *)
EXTENDS Signaling, TLC

Symmetry == Permutations(ManagedSockets) \cup Permutations(ClientSockets)
              \cup Permutations(Sessions)
=============================================================================
