SPECIFICATION FairSpec
CONSTANTS
    Request = {r1, r2, r3}
    Loop = {l1, l2}
    Refresher = {f1, f2}
    Nobody = Nobody
CHECK_DEADLOCK FALSE
PROPERTY
    CallsAreServed
