\* An RPC of every method, with every header and at the validators' boundaries;
\* RPCs share nothing, so one shows what there is to see.
CONSTANTS
    Calls = {c1}
    Headers <- MCHeaders
    Interceptors <- MCInterceptors
    CodeLengths <- MCCodeLengths
    PasswordLengths <- MCPasswordLengths
    UserIds <- MCUserIds
SPECIFICATION Spec
CHECK_DEADLOCK FALSE
INVARIANTS GrpcTypeOK ChainInOrder ServiceGuarded
