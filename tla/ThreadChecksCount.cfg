SPECIFICATION Spec
CONSTANT N = 2
INVARIANT SpectreChecksAllThreads
