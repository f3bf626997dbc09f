----------------------------- MODULE MCCliRecv -----------------------------
\* `cipher-cli recv` on a small instance, with the daemon beside it.
EXTENDS CliRecv, TLC

CONSTANTS text, receipt, garbled, r1, r2, daemon, caller

MCMsg == {text, receipt, garbled}
MCShown == {text}
MCOpaque == {garbled}
MCNone == {}
MCRelay == {r1, r2}
MCWithDaemon == {daemon, caller}
=============================================================================
