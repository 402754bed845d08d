---------------------------- MODULE RoomDirectory ----------------------------
(***************************************************************************)
(* What the room service promises its callers, without its data structures *)
(* (domain/room/room-service.ts): every peer id enters at most one room,   *)
(* once, and never comes back; a room is listed from the moment it is      *)
(* created or first entered until its last occupant is gone.               *)
(***************************************************************************)

CONSTANTS Rooms,   \* room ids
          Peers    \* peer ids that randomUUID() may hand out

VARIABLES where,   \* "new", the room the peer is in, or "gone"
          listed   \* the rooms GET /rooms reports

dirVars == <<where, listed>>

Occupants(r) == {p \in Peers : where[p] = r}

Init == /\ where = [p \in Peers |-> "new"]
        /\ listed = {}

\* POST /rooms
Create(r) == /\ r \notin listed
             /\ listed' = listed \cup {r}
             /\ UNCHANGED where

\* A fresh peer enters a room, which is listed from then on.
Enter(p, r) == /\ where[p] = "new"
               /\ where' = [where EXCEPT ![p] = r]
               /\ listed' = listed \cup {r}

\* One peer goes; the room goes with its last occupant.
Exit(p) == /\ where[p] \in Rooms
           /\ where' = [where EXCEPT ![p] = "gone"]
           /\ listed' = IF Occupants(where[p]) = {p} THEN listed \ {where[p]} ELSE listed

\* Shutdown: everybody who is in a room goes, and so do all the rooms.
Clear == /\ where' = [p \in Peers |-> IF where[p] \in Rooms THEN "gone" ELSE where[p]]
         /\ listed' = {}

Next == \/ \E r \in Rooms : Create(r)
        \/ \E p \in Peers, r \in Rooms : Enter(p, r)
        \/ \E p \in Peers : Exit(p)
        \/ Clear

Spec == Init /\ [][Next]_dirVars
=============================================================================
