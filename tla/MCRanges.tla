------------------------------ MODULE MCRanges ------------------------------
EXTENDS Ranges

User == [who |-> "user", size |-> 4, prot |-> FALSE, call |-> NoCall]
Reply == [who |-> "assistant", size |-> 8, prot |-> FALSE, call |-> NoCall]
Pair == [who |-> "assistant", size |-> 4, prot |-> FALSE, call |-> 1]
Kept == [who |-> "assistant", size |-> 8, prot |-> TRUE, call |-> NoCall]
Notice == [who |-> "notice", size |-> 8, prot |-> FALSE, call |-> NoCall]

MCKinds == {User, Reply, Pair, Kept, Notice}
=============================================================================
