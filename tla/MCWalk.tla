-------------------------------- MODULE MCWalk --------------------------------
(* Two sports with a league each, one of them listed with its playoffs: the *)
(* values of LeagueWalk's constants.                                        *)
EXTENDS LeagueWalk, TLC

MCListing(regular, playoffs) ==
  "nba" :> regular @@ "nba-playoffs" :> playoffs @@ "epl" :> 1
MCSeasons == {MCListing(1, None), MCListing(0, 1), MCListing(1, 0)}
MCSportOf == "nba" :> "basketball" @@ "epl" :> "soccer"
MCLeagueOf == "nba" :> "nba" @@ "nba-playoffs" :> "nba" @@ "epl" :> "epl"
MCBase == "nba" :> "nba" @@ "epl" :> "epl"
MCListOrder == <<"nba", "nba-playoffs", "epl">>
===============================================================================
