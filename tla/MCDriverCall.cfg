\* Up to two arguments, and statements with up to two placeholders.
SPECIFICATION Spec
CONSTANT MaxArgs = 2
INVARIANTS ArgsKept RunsOnce NothingLeft
\* The call returns.
CHECK_DEADLOCK FALSE
