SPECIFICATION RecordsSpec
CONSTANTS
  StateIds = {state1, state2}
  ClientTypes = {web, mobile}
  Mobile = mobile
  StateTtl = 2
  MaxMade = 2
  MaxSignInClock = 3
  TeacherIds = {teacher1, teacher2}
  RoomIds = {room1, room2}
  StudentIds = {student}
  Names = {name1, name2}
  FirstName = name1
  Editors = {editor1}
  FirstRows = {teacher1, room1}
  Gone = Gone
  MaxWrites = 3
  RowCount = 2
  Committers = {commit1, commit2}
  NoToken = NoToken
  LockTimeout = 1
  MaxTicks = 2
  TeamIds = {team1, team2, team3}
  Classes = {class1, class2}
  FirstClasses = {class1}
  Titles = {title}
  Deleting = Deleting
  Admins = {admin1, admin2}
  NoTeam = NoTeam
  MaxScore = 1
  MaxAsks = 2
  Gatherings = {gathering1}
  People = {member1, member2}
  FirstMembers = {member1}
  Puts = {put1, put2}
  venue = venue
  spot = spot
  image1 = image1
  image2 = image2
  image3 = image3
  image4 = image4
  Venues = {venue}
  Spots = {spot}
  Events = {event}
  EventNames = {eventName1, eventName2}
  Images = {image1, image2, image3, image4}
  PathOf <- PathDef
  FirstPlaces = {venue, event}
  ImageRequests = {request1, request2}
  NoImage = NoImage
  MaxTurns = 3
  MaxFaults = 1
  NoteIds = {1, 2}
  SchedIds = {1, 2}
  Readers = {reader1}
  Tokens = {token1, token2}
  SendTimes = {2, 3}
  PerSecond = 2
  Listings <- ListingsDef
  HistoryPages <- HistoryPagesDef
  NowAt = 3
  MaxChanges = 4
  Sends = {send1, send2}
  TokenTtl = 4
  Margin = 2
  FetchTime = 2
  MaxClock = 7
INVARIANTS
  ExchangedAsMade FreshCommitIsExclusive CommittedMeansImported RosterBetween
  ImagesMatchRows ViewsAgree TokenInTime
PROPERTIES MastersSavedAsRead ScoredTeamKept RowSavedAsRead
CHECK_DEADLOCK FALSE
