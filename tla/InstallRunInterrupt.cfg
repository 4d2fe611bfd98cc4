SPECIFICATION Spec
INVARIANT InterruptUnmasks
