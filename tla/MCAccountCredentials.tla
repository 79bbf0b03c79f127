------------------------ MODULE MCAccountCredentials ------------------------
(* AccountCredentials for TLC: the CLI of a chat and that of a translation.  *)
EXTENDS AccountCredentials, TLC

CONSTANTS chat, translation

\* Once a token is lost nothing is claimed of what follows.
NothingLost == slips = {}
=============================================================================
