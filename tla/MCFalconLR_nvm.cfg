\* Two mnemonics, two degrees, power losses everywhere; no signing inputs.  No symmetry:
\* KeygenDelivers is a leads-to property.
SPECIFICATION Spec
CONSTANTS
    m1 = m1  m2 = m2  msg1 = msg1  msg2 = msg2  hs = hs  r1 = r1  r2 = r2
    Mnemonics = {m1, m2}
    Msgs = {}
    HostSeeds = {}
    TrngSeeds = {}
    Chunks = {0}
    Unlucky <- NoneUnlucky
CHECK_DEADLOCK TRUE
INVARIANTS TypeOK AcceptedRecordIsWhole ServedKeyIsSessionKey
PROPERTIES ValidRecordNeverRewritten ImplementsKeyStore KeygenDelivers
