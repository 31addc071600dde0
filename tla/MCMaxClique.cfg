CONSTANT N = 5
SPECIFICATION Spec
INVARIANTS FindsBiggest CliqueInView
CHECK_DEADLOCK FALSE
