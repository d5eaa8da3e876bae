------------------------------ MODULE MCExecEnv ------------------------------
EXTENDS ExecEnv

CONSTANTS cn1, cn2, cn3

Opr(n, deps) == [cn |-> n, deps |-> deps, sink |-> FALSE]
Sink(n, deps) == [cn |-> n, deps |-> deps, sink |-> TRUE]

MCGraphs ==
    { \* two comp nodes that read from each other; one wait is redundant
      <<Opr(cn1, {}), Opr(cn1, {1}), Opr(cn2, {2}), Opr(cn2, {1}), Opr(cn1, {3, 4})>>,
      \* three: cn2 and cn3 read the same variable and their results meet in cn1
      <<Opr(cn1, {}), Opr(cn2, {1}), Opr(cn3, {1}), Opr(cn1, {2, 3})>>,
      \* a part of a graph whose variables on both comp nodes go to the next part:
      \* the sink does not wait, and the reader after it still has to
      <<Opr(cn1, {}), Opr(cn2, {1}), Sink(cn1, {1, 2}), Opr(cn1, {2})>>,
      \* independent workers
      <<Opr(cn1, {}), Opr(cn2, {})>> }
=============================================================================
