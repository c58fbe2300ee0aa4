------------------------------ MODULE MCPrGate ------------------------------
(* Paths of every class, a file with the name of a directory, and a file that is *)
(* moved into a directory.                                                       *)
EXTENDS PrGate
MCPaths ==
    {<<"chips", "a">>, <<"chips">>, <<"registry.json">>, <<".github", "w">>,
     <<"docs", "chips", "a">>, <<"soc", "registry.json">>}
MCMoves == {<<<<"registry.json">>, <<"chips", "a">>>>}
=============================================================================
