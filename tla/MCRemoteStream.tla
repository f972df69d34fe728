--------------------------- MODULE MCRemoteStream ---------------------------
EXTENDS RemoteStream

MCRequests == {}
=============================================================================
