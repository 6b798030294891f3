\* Texts to two chats, one long text, a trade's events, and a close that gives up.
CONSTANT Setups <- NotifierSetups
SPECIFICATION FairSpec
INVARIANTS InOrder ToldTheTruth RepliesFindTheirRoot
PROPERTIES NoneHeldUp
CHECK_DEADLOCK FALSE
