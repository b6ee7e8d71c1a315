------------------------------- MODULE MCProcess -------------------------------
(***************************************************************************)
(* An instance of Process: documents that pass, and for each test of New   *)
(* one that fails that test and no other when it is read as a              *)
(* configuration or as a key set; one document may do for both.  A URL     *)
(* that does not parse is left to the proofs.                              *)
(***************************************************************************)
EXTENDS Process

https == [parses |-> TRUE, scheme |-> "https", query |-> FALSE, fragment |-> FALSE]
http == [https EXCEPT !.scheme = "http"]

Object == [json |-> "object", issuer |-> NoURL, jwksURI |-> NoURL, keys |-> {}]
Config == [Object EXCEPT !.issuer = https, !.jwksURI = https]

MCContents ==
    {Config,
     [Config EXCEPT !.issuer.query = TRUE, !.keys = {[public |-> TRUE]}],
     [Config EXCEPT !.issuer.fragment = TRUE, !.keys = {[public |-> TRUE], [public |-> FALSE]}],
     [Config EXCEPT !.issuer = http],
     [Config EXCEPT !.jwksURI = http],
     [Object EXCEPT !.json = "null"],
     [Object EXCEPT !.json = "invalid"]}

Flags == [resync |-> 30, cert |-> "path", key |-> "path", config |-> "path", jwks |-> "path"]
MCFlagValues ==
    {Flags, [Flags EXCEPT !.resync = 0], [Flags EXCEPT !.key = " "],
     [Flags EXCEPT !.jwks = " "], [Flags EXCEPT !.config = ""],
     [Flags EXCEPT !.config = "", !.jwks = " "]}
=============================================================================
