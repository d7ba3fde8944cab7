--------------------------- MODULE MCSessionDriver ---------------------------
(***************************************************************************)
(* Small instances of SessionDriver for TLC.                               *)
(***************************************************************************)
EXTENDS SessionProperties

(* Every kind of frame, in one seat or another, from a server that may     *)
(* violate the protocol at any point; one late status stands for both.     *)
HostileFrame ==
       [kind : {"start"}, seat : Seats]
  \cup [kind : {"request"}, id : RequestIds, timed : BOOLEAN]
  \cup [kind : {"ack"}, id : RequestIds, status : {"stale", "rejected"}]
  \cup [kind : {"end", "other", "malformed"}]

(* The frames of a game in one seat where the server alone decides that a  *)
(* request is late.                                                        *)
GameFrame ==
       [kind : {"start"}, seat : Seats]
  \cup [kind : {"request"}, id : RequestIds, timed : {FALSE}]
  \cup [kind : {"ack"}, id : RequestIds, status : {"defaulted"}]
  \cup [kind : {"end"}]

(* The frames that move the loop: enough to ask what eventually happens.   *)
LiveFrame ==
       [kind : {"start"}, seat : Seats]
  \cup [kind : {"request"}, id : RequestIds, timed : BOOLEAN]
  \cup [kind : {"ack"}, id : RequestIds, status : {"defaulted"}]
  \cup [kind : {"end"}]
=============================================================================
