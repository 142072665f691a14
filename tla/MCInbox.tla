------------------------------- MODULE MCInbox -------------------------------
EXTENDS Inbox, TLC

Symmetric == Permutations(Handlers) \union Permutations(Bodies) \union
             Permutations(Tokens) \union Permutations(Keys)
=============================================================================
