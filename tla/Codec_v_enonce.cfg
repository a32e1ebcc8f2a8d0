CONSTANTS
    MaxDepth = 3
    MaxWidth = 2
    HexLens = {0, 1, 2, 30, 31, 32}
    Nonce2Lens = {0, 3, 4, 8, 9}
SPECIFICATION Spec


INVARIANT Enonce1WholeBytes
