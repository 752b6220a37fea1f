------------------------- MODULE MCAntivirusServer -------------------------
EXTENDS AntivirusServer

MCClientTexts == {<<CMD_REGISTER_CLIENT>>}
MCLevelTexts ==
  {<<CMD_SET_LOG_LEVEL, SP, "DEBUG">>, <<CMD_SET_LOG_LEVEL, SP, "OTHER">>,
   <<CMD_SET_LOG_LEVEL>>, <<CMD_GET_STATS, NL>>, <<CMD_SHUTDOWN_SERVER>>}
MCStatsTexts == {<<CMD_GET_STATS>>}

MCNoTexts == {}

MCSymmetry == Permutations(Client) \cup Permutations(Admin)
=============================================================================
