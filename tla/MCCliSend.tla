----------------------------- MODULE MCCliSend -----------------------------
\* `cipher-cli send` on a small instance, with a receipt that the daemon
\* sends to another peer.
EXTENDS CliSend, TLC

CONSTANTS mine, receipt, alice, bob, r1, r2, daemon, caller

MCBusy == {mine, receipt}
MCBusyTo == (mine :> alice) @@ (receipt :> bob)
MCRecipient == {alice, bob}
MCRelay == {r1, r2}
MCTask == {daemon, caller}
=============================================================================
