------------------------------- MODULE PeerMgr -------------------------------
(***************************************************************************)
(* src/demo/peer_mgr: the ids that the demo server gives to the addresses  *)
(* of its clients.  next_user_id_ starts at 100000 in the code, at First   *)
(* here.                                                                   *)
(***************************************************************************)
EXTENDS Naturals

CONSTANTS Peers,  \* client addresses, ip and port
          First   \* the first id given out

ASSUME PeerAssumption == First \in Nat \ {0}

VARIABLES peer_map,      \* the addresses that have an id
          free_peer_id,  \* ids given back
          next_user_id

peerVars == <<peer_map, free_peer_id, next_user_id>>

PeerInit == /\ peer_map = [p \in {} |-> First]
            /\ free_peer_id = {}
            /\ next_user_id = First

\* The id that an unknown address would get: any free one, since
\* free_peer_id_ is unordered, or a new one.
FreeIds == IF free_peer_id = {} THEN {next_user_id} ELSE free_peer_id

\* Mutant: the id that is given again stays free.
add_peer_KeepsFree(p) ==
  IF p \in DOMAIN peer_map
  THEN UNCHANGED peerVars
  ELSE \E id \in FreeIds :
         /\ peer_map' = [q \in DOMAIN peer_map \cup {p} |-> IF q = p THEN id ELSE peer_map[q]]
         /\ UNCHANGED free_peer_id
         /\ next_user_id' = IF free_peer_id = {} THEN next_user_id + 1 ELSE next_user_id

add_peer(p) ==
  IF p \in DOMAIN peer_map
  THEN UNCHANGED peerVars
  ELSE \E id \in FreeIds :
         /\ peer_map' = [q \in DOMAIN peer_map \cup {p} |-> IF q = p THEN id ELSE peer_map[q]]
         /\ free_peer_id' = free_peer_id \ {id}
         /\ next_user_id' = IF free_peer_id = {} THEN next_user_id + 1 ELSE next_user_id

get_peer_id(p) == IF p \in DOMAIN peer_map THEN peer_map[p] ELSE 0

remove_peer(p) ==
  IF p \in DOMAIN peer_map
  THEN /\ peer_map' = [q \in DOMAIN peer_map \ {p} |-> peer_map[q]]
       /\ free_peer_id' = free_peer_id \cup {peer_map[p]}
       /\ UNCHANGED next_user_id
  ELSE UNCHANGED peerVars

\* Two clients never share an id, and an id is either in use or free.
PeerIdsDistinct ==
  /\ \A p, q \in DOMAIN peer_map : peer_map[p] = peer_map[q] => p = q
  /\ \A p \in DOMAIN peer_map : peer_map[p] \notin free_peer_id
  /\ First..(next_user_id - 1) = free_peer_id \cup {peer_map[p] : p \in DOMAIN peer_map}
=============================================================================
