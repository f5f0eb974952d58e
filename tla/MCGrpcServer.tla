----------------------------- MODULE MCGrpcServer ------------------------------
(* GrpcServer on a small instance. *)
EXTENDS GrpcServer

\* No header; a bearer token; a token as it is; a bearer that names none; two.
MCHeaders == {<<>>, <<"Bearer", "t1">>, <<"t2">>, <<"Bearer", "">>, <<"Bearer", "t1", "t2">>}

\* The order of the integration tests' server, and a host interceptor after it.
MCInterceptors == <<"host", "authorization", "host">>

\* The boundaries of the validators.
MCCodeLengths == {0, 5, 6}
MCPasswordLengths == {7, 8, 30, 31}
MCUserIds == {-1, 0, 1}
================================================================================
