---------------------------- MODULE MCRemoteApi ----------------------------
EXTENDS RemoteApi

CONSTANTS status, groups
MCTopics == {status, groups}
=============================================================================
