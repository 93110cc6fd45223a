\* The display thread writes traps back while the CPU invalidates the page.
SPECIFICATION VideoSpec
CONSTANT MaxWrites = 1
INVARIANT InvalidationKept
CHECK_DEADLOCK FALSE
