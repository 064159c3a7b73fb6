-------------------------- MODULE MCClientMessages --------------------------
(* Small instances of ClientMessages: what the client is going to say.       *)
EXTENDS ClientMessages

Talk == <<"say", "userinfo">>
=============================================================================
