------------------------------ MODULE MCStream ------------------------------
(* Small instances of Stream for TLC: one coroutine with a socket and a     *)
(* file, another with a socket that it connects, two with two sockets.      *)
EXTENDS Stream, TLC

CONSTANTS c1, c2, s1, s2, s3

KindDef == s1 :> "accepted" @@ s2 :> "connected" @@ s3 :> "file"
Every == {<<"get", 1>>, <<"peek", 0>>, <<"scan", 0>>, <<"readall", 0>>, <<"put", 1>>, <<"print", 2>>, <<"flush", 0>>,
          <<"pipe", 0>>, <<"end", 0>>, <<"destroy", 0>>}
Few == {<<"get", 1>>, <<"put", 1>>, <<"flush", 0>>, <<"close", 0>>, <<"destroy", 0>>}
OpsDef == c1 :> Every @@ c2 :> Few
Plan(n1, n2, use) == [calls |-> c1 :> n1 @@ c2 :> n2, use |-> use]
PlansDef == {Plan(4, 0, {s1}), Plan(3, 0, {s1, s3}), Plan(3, 0, {s2, s3}), Plan(2, 1, {s1, s2}), Plan(0, 4, {s3})}

\* For MCStreamCompact: a file of three bytes is read with words of two.
WordOps == c1 :> {<<"get", 1>>, <<"get", 2>>, <<"put", 2>>, <<"readall", 0>>} @@ c2 :> {}
WordPlans == {Plan(4, 0, {s3})}
=============================================================================
