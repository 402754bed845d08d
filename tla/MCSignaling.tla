----------------------------- MODULE MCSignaling -----------------------------
(* TLC instance of Signaling; the constants come from the .cfg files.      *)
EXTENDS Signaling, TLC

\* Sockets, rooms and peers are only compared for equality: safety runs
\* identify states that differ by a renaming of them.
Symmetry == Permutations(Sockets) \cup Permutations(Rooms) \cup Permutations(Peers)

\* Clients that stay until they disconnect: no room.leave is ever handled, so
\* that a room empties only when a socket closes.
StayingSpec == Init /\ [][Next /\ \A i \in DOMAIN micro' : micro'[i].step # "leave"]_vars
=============================================================================
