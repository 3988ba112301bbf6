----------------------------- MODULE MCJoining ------------------------------
EXTENDS UnixJoining

TwoConnections == {1, 2}

\* One id for two tedomaris, so that one may be turned away, and so that the id
\* passes from one client to another
OneId == {2}
=============================================================================
