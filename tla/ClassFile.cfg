\* Classes with constants of one and of two numbers before and between those that are looked up,
\* members of all shapes, and classes one below and at the limit of a short (16 here).
SPECIFICATION Spec
CONSTANTS
  Classes <- AllClasses
  Half <- LimitIs
INVARIANTS RefsComplete NamesAgree StaysInside ThrownIfExceeds
\* A class that is parsed, or whose parse has thrown, does nothing more.
CHECK_DEADLOCK FALSE
