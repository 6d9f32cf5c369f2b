SPECIFICATION MembersSpec
CONSTANTS
  u1 = u1 u2 = u2 p1 = p1 p2 = p2 id1 = id1 n1 = n1 n2 = n2 s1 = s1
  f1 = f1 f2 = f2 f3 = f3 st1 = st1 st2 = st2 m1 = m1 c1 = c1 c2 = c2 pl1 = pl1 pl2 = pl2
  None = None
  UserPks <- TwoUsers
  Procs <- TwoProcs
  UserIds <- TypedIds
  Nicknames <- TwoNicknames
  Socials <- OneSocial
  Backends <- Postgres
  Traffic <- OnlySocial
  FavoriteIds <- ThreeFavorites
  Stations <- TwoStations
  Memos <- OneMemo
  MaxFavorites = 1
  CarIds <- TwoCars
  Plates <- TwoPlates
SYMMETRY Interchangeable
INVARIANT OneAccountPerSocial
CHECK_DEADLOCK FALSE
