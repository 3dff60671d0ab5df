--------------------------- MODULE MCCollabRooms -----------------------------
(* The instance of CollabRooms for TLC. *)
EXTENDS CollabRooms
=============================================================================
