---------------------------- MODULE MCGameRecord ----------------------------
(***************************************************************************)
(* A small instance of GameRecord for TLC.                                 *)
(***************************************************************************)
EXTENDS GameRecord

(* A game in one seat, every request with a time budget, from a server     *)
(* that acknowledges what it likes; for the loader "stale" is another      *)
(* "accepted", a status that speaks of a reply.                            *)
RecordFrame ==
       [kind : {"start"}, seat : Seats]
  \cup [kind : {"request"}, id : RequestIds, timed : {TRUE}]
  \cup [kind : {"ack"}, id : RequestIds, status : {"accepted", "defaulted"}]
  \cup [kind : {"end"}]
=============================================================================
