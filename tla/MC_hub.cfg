SPECIFICATION Spec
CONSTANT MaxPosts = 3
INVARIANTS HubTypeOK NeverBack HubAgrees
CHECK_DEADLOCK FALSE
