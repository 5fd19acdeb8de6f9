\* The page's wait may fail, in any order of the three.
SPECIFICATION StableSpec
INVARIANT StableMeansStable
\* The three goroutines end.
CHECK_DEADLOCK FALSE
