CONSTANT MaxLoops = 3
SPECIFICATION Spec
INVARIANT NoUseAfterFinish
