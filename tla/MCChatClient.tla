---------------------------- MODULE MCChatClient ----------------------------
(* What users enter, for the run of ChatClient. *)
EXTENDS ChatClient

CONSTANTS games, study, news

RoomLists == {<<games>>, <<NoName>>, <<study, games, study>>, <<games, study, news>>,
              <<games, NoName, study, news, games>>}
=============================================================================
