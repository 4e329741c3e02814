--------------------------- MODULE MCStoredArtifact ---------------------------
\* The recording of a session, two requests that replace it, the maintenance job and
\* the deletion of the session.
EXTENDS StoredArtifact
CONSTANTS first, second, third, cron, nobody
MCPubs == {first, second, third}
MCUploads == {first, second}
MCCleaners == {cron}
=============================================================================
