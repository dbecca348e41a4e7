SPECIFICATION Spec
CONSTANTS
    Models <- MCMatMulAdds
    Level1 <- MCLevel1
    Claimable <- MCClaimable
    Steps = 10
INVARIANT OutputsPreserved
CHECK_DEADLOCK FALSE
