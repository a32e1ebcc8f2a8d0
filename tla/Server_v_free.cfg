CONSTANT NServers = 3
INIT Init
NEXT Next
INVARIANT NoDoubleFree
