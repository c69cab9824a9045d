--------------------------- MODULE MCConnectFlow ---------------------------
EXTENDS ConnectFlow, TLC

\* Consents and requests are told apart by nothing, nor are senders.
Alike == Permutations(Consent) \cup Permutations(Request) \cup Permutations(Requester)

=============================================================================
