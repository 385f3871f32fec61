SPECIFICATION FairSpec
CONSTANT N = 5
INVARIANT Exclusion
PROPERTY PutBack
