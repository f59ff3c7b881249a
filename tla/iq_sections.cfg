\* A carrier of 273 PRBs; a queue with an entry for each of the two buffers, as
\* 64 and 64 in the code; one dApp that comes and goes any number of times.
CONSTANTS
    d1 = d1
    DApps = {d1}
    Sections <- MCSections
    expected_num_prbu = 273
    Encoding = "asn1"
    Pool = 2
    QUEUE_CAPACITY = 2
SPECIFICATION FairSpec
INVARIANTS BuffersConserved ConfigSentToThisLoad
PROPERTIES KeepsSession FilterSettles PoolRecovers
