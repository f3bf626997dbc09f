-------------------------- MODULE MCConversations --------------------------
\* Conversations on a small instance: alice sends a file of two chunks, bob
\* sends a text, and opens the conversation; he has two workers.
EXTENDS Conversations, TLC

CONSTANTS text, file, alice, bob, wa, wb, wb2

MCClient == {alice, bob}
MCItem == {text, file}
MCFile == {file}
MCPieces == file :> 2
MCAuthor == (text :> bob) @@ (file :> alice)
MCReader == (text :> alice) @@ (file :> bob)
MCWorker == {wa, wb, wb2}
MCOpener == {bob}
MCOwner == (wa :> alice) @@ (wb :> bob) @@ (wb2 :> bob)
=============================================================================
