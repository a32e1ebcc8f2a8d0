CONSTANT NServers = 3
INIT Init
NEXT Next
INVARIANTS TypeOK NoneAliveIsFatal
PROPERTY ServerRefined
