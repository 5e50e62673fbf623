SPECIFICATION FairSpec
CONSTANTS
  games = games
  study = study
  news = news
  Rooms = {games, study, news}
  NoName = none
  RoomChoices <- RoomLists
  MaxAsks = 3
  MaxSaid = 2
  MaxChats = 1
  MaxCopies = 2
  MaxBatch = 2
INVARIANTS TypeOK WaitsForAnAnswer EntryAfterLogin OneLatePrompt RoomsAsTold
PROPERTIES ImplementsRole WaitEnds ExitEnds
