---------------------------- MODULE MCAuthTokens ----------------------------
(* Any three requests of one account: two that share a token or a link and *)
(* a third that takes what they were given, or is given it in between.     *)
EXTENDS AuthTokens
=============================================================================
