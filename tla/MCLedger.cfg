SPECIFICATION Spec
CONSTANTS
    None = None
    k1 = k1  approve1 = approve1  approve2 = approve2  other = other
    j1 = j1  j2 = j2  p1 = p1  r1 = r1  r2 = r2  r3 = r3
    a1 = a1  a2 = a2  a3 = a3
    Request <- MCRequest
    Key <- MCKey
    Call <- MCCall
    Digest <- MCDigest
    SoloExpiredRetry = TRUE
    Agent = {1, 2}
    ToolCall <- MCToolCall
    Tx = {a1, a2, a3}
    MaxPosition = 4
    MaxTime = 1
    RowId = {1, 2, 3}
    Columns <- MCColumns
    Token <- MCToken
    Payload <- MCPayload
SYMMETRY Symmetry
INVARIANT AtMostOnce
INVARIANT ChainVerifies
INVARIANT WalksShowTheLedger
INVARIANT ToolHitsMatch
PROPERTY GrowsAtItsEnd
