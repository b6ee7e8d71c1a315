----------------------------- MODULE MCOpenIDMeta -----------------------------
(***************************************************************************)
(* Instances of OpenIDMeta for TLC: one valid Secret, a second valid       *)
(* version of it, and one Secret per check of Reconcile that fails that    *)
(* check alone.                                                            *)
(***************************************************************************)
EXTENDS OpenIDMeta, TLC

goodKey == [public |-> TRUE, valid |-> TRUE]

config(id) == [id |-> id, parses |-> TRUE, issuerHTTPS |-> TRUE, jwksURIHTTPS |-> TRUE]
jwks(json, keys) == [json |-> json, keys |-> keys]

v1 == [deleting |-> FALSE, public |-> TRUE, project |-> "p",
       shootName |-> "s", shootNamespace |-> "ns",
       config |-> config(1), jwks |-> jwks("keys", {goodKey})]
v2 == [v1 EXCEPT !.config = config(2)]

NullJWKS == [v1 EXCEPT !.jwks = jwks("null", {})]
Unlabelled == [v1 EXCEPT !.public = FALSE]
PrivateKey == [v1 EXCEPT !.jwks.keys = {goodKey, [public |-> FALSE, valid |-> TRUE]}]
Deleting == [v1 EXCEPT !.deleting = TRUE]

InvalidSecrets ==
    {Unlabelled, PrivateKey, Deleting,
     [v1 EXCEPT !.config = Unset],
     [v1 EXCEPT !.jwks = Unset],
     [v1 EXCEPT !.project = Unset],
     [v1 EXCEPT !.project = "q"],
     [v1 EXCEPT !.shootName = Unset],
     [v1 EXCEPT !.shootNamespace = Unset],
     [v1 EXCEPT !.config.parses = FALSE],
     [v1 EXCEPT !.config.issuerHTTPS = FALSE],
     [v1 EXCEPT !.config.jwksURIHTTPS = FALSE],
     [v1 EXCEPT !.jwks = jwks("error", {})],
     [v1 EXCEPT !.jwks.keys = {[public |-> TRUE, valid |-> FALSE]}]}

\* Every check.
AllSecrets == {v1, v2, NullJWKS} \cup InvalidSecrets
\* What the interleaving of several keys needs.
LabelledOrNot == {v1, Unlabelled}
NullSecrets == {v1, NullJWKS}

ProjectWith(ns) == [p \in {"p", "q"} |-> ns]
OneProject == {ProjectWith("ns")}
AllProjects == {ProjectWith(ns) : ns \in {"ns", "other", Unset, NotFound}}

ShootValues == [uid : {"u", "v"}, managed : BOOLEAN] \cup {NotFound}
ShootKeys == {"ns", "other"} \X {"s"}
AllShoots == {[x \in ShootKeys |-> v] : v \in ShootValues}
\* A shoot is deleted, and one of the same name is created with another UID.
RecreatedShoots == {[x \in ShootKeys |-> v] :
                      v \in [uid : {"u", "v"}, managed : {TRUE}] \cup {NotFound}}

WellFormed == <<"p", "u">>
SameShootName == <<"p", "v">>
OneKey == {WellFormed}
TwoKeys == {WellFormed, SameShootName}
=============================================================================
