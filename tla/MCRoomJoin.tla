----------------------------- MODULE MCRoomJoin -----------------------------
(* A small room: attendees who share initials, one of them a fixed voter's number. *)
EXTENDS RoomJoin

RoomFixedVoters == {<<"strict", "1">>}
=============================================================================
