-------------------------------- MODULE Bearer ---------------------------------
(***************************************************************************)
(* The two readings of an Authorization header: strings.Split in the HTTP  *)
(* middleware, strings.CutPrefix in the gRPC interceptor.  A header is the *)
(* sequence of its words, which single spaces separate ("" for nothing     *)
(* between two of them); <<>> is a header that was not sent.  A token is   *)
(* such a sequence too, and <<>> is the empty token.                       *)
(***************************************************************************)
EXTENDS Sequences, Naturals

NoToken == <<>>

\* "" as a string is the empty token.
AsToken(words) == IF words = <<"">> THEN NoToken ELSE words

\* NewAuthMiddleware: exactly two words, the first of them Bearer.
HeaderToken(header) ==
    IF Len(header) = 2 /\ header[1] = "Bearer" THEN AsToken(Tail(header)) ELSE NoToken

\* extractTokenFromMetadata: what follows "Bearer ", or the header as it is.
extractTokenFromMetadata(header) ==
    AsToken(IF Len(header) >= 2 /\ header[1] = "Bearer" THEN Tail(header) ELSE header)
================================================================================
