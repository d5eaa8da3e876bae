--------------------------- MODULE MCCompNodeSync ---------------------------
(* Finite instances of CompNodeSync for TLC. *)
EXTENDS CompNodeSync

CONSTANTS n1, n2, n3

\* what is done to a tensor that was put on n1
AfterPut == {
    \* released on n1 because n1 waits for n2, which waits for n3
    <<<<"copy", n3>>, <<"drop", n1>>, <<"wait", n2>>, <<"record", n2>>, <<"wait", n1>>>>,
    \* ... which waits for n3 too late for that
    <<<<"copy", n3>>, <<"drop", n1>>, <<"record", n2>>, <<"wait", n2>>, <<"wait", n1>>>>,
    \* the result of an operator is copied
    <<<<"apply", n1>>, <<"copy", n2>>, <<"drop", n1>>, <<"drop", n1>>>>,
    \* two users on other nodes
    <<<<"copy", n2>>, <<"copy", n3>>, <<"drop", n1>>, <<"wait", n1>>>>,
    \* borrowed, used and dropped in every order, owner last or first
    <<<<"borrow", n2>>, <<"apply", n2>>, <<"drop", n2>>, <<"drop", n1>>, <<"drop", n2>>>>,
    <<<<"borrow", n2>>, <<"drop", n1>>, <<"apply", n2>>, <<"drop", n2>>, <<"drop", n2>>>>,
    <<<<"borrow", n2>>, <<"borrow", n3>>, <<"apply", n3>>, <<"drop", n2>>, <<"drop", n3>>>>}

MCPlans == {<<<<"put", n1>>>> \o p : p \in AfterPut}

\* a borrowed tensor is copied to a third node and dropped
BorrowPlans == {<<<<"put", n1>>, <<"borrow", n2>>, <<"copy", n3>>, <<"drop", n2>>>>}
=============================================================================
