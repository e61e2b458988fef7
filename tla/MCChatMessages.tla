--------------------------- MODULE MCChatMessages ---------------------------
EXTENDS ChatMessages, TLC
Symmetry == Permutations(Msgs) \cup Permutations(Texts)
=============================================================================
