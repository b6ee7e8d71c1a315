--------------------------- MODULE WorkloadIdentity ----------------------------
(***************************************************************************)
(* The checks of the two workload identity documents before the handlers   *)
(* that serve them exist.  The content of a file is a record: whether it   *)
(* is JSON, and an "object" or "null"; the two URLs and the keys found if  *)
(* it is read as a configuration or as a key set.  Every object can be     *)
(* read as either, with empty URLs or no keys.                             *)
(***************************************************************************)

\* An empty string is a URL without a scheme.
NoURL == [parses |-> TRUE, scheme |-> "", query |-> FALSE, fragment |-> FALSE]

\* LoadOpenIDConfig fails on what cannot be unmarshalled.  JSON null is no
\* error and leaves the fields empty.
LoadsOpenIDConfig(content) == content.json # "invalid"
Issuer(content) == IF content.json = "object" THEN content.issuer ELSE NoURL
JWKSURI(content) == IF content.json = "object" THEN content.jwksURI ELSE NoURL

IssuerAccepted(url) == url.parses /\ url.scheme = "https" /\ ~url.query /\ ~url.fragment

JWKSURIAccepted(url) == url.parses /\ url.scheme = "https"

OpenIDConfigAccepted(content) ==
    /\ LoadsOpenIDConfig(content)
    /\ IssuerAccepted(Issuer(content))
    /\ JWKSURIAccepted(JWKSURI(content))

\* Faulty variant: a key set is accepted if one of its keys is public.
KeySetWithPublicKeyAccepted(content) ==
    content.json = "object" /\ \E key \in content.keys : key.public

\* LoadKeySet makes no key set of JSON null; ranging over it panics.
KeySetAccepted(content) ==
    content.json = "object" /\ \A key \in content.keys : key.public

\* New returns a handler: otherwise it returns an error or panics, and the
\* process is over.
NewSucceeds(config, jwks) == OpenIDConfigAccepted(config) /\ KeySetAccepted(jwks)
=============================================================================
