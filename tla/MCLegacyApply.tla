--------------------------- MODULE MCLegacyApply ---------------------------
\* One domain; a server that runs v1 applications and the v2 issuer, a
\* command-line v1 application and a lifecycle command in processes of their own.
EXTENDS LegacyApply

MCLocked  == {"server", "cli"}
MCFree    == {"worker", "admin"}
MCProcess == {{"server", "worker"}, {"cli"}, {"admin"}}
=============================================================================
