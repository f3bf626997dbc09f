---------------------------- MODULE MCSwarmInbox ----------------------------
\* SwarmInbox on small instances: a message for the inbox, an internal one
\* (a receipt) and one that does not decode; one relay, the daemon.
EXTENDS SwarmInbox

CONSTANTS text, text2, receipt, garbled, r1, daemon

MCMsg == {text, receipt, garbled}
MCText == {text}
MCTwo == {text, text2}
MCGarbled == {garbled}
MCNone == {}
MCOneRelay == {r1}
MCOneTask == {daemon}
=============================================================================
