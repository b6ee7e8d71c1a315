--------------------------- MODULE MCDiscoveryServer ---------------------------
(***************************************************************************)
(* DiscoveryServer for TLC: a Secret whose configuration and key set are   *)
(* both replaced, and a shoot that goes away.                              *)
(***************************************************************************)
EXTENDS DiscoveryServer, MCOpenIDMeta

rotated == [v2 EXCEPT !.jwks.keys = {[public |-> TRUE, valid |-> TRUE, id |-> 2]}]

RotatedSecrets == {v1, rotated}
ShootOrNone == {[x \in ShootKeys |-> v] :
                  v \in {[uid |-> "u", managed |-> TRUE], NotFound}}

\* "urn:uuid:" is one of the other spellings.
MCUUIDs == [spelling \in {"u", "v", "urn:uuid:u"} |-> IF spelling = "v" THEN "v" ELSE "u"]
OneBundle == [k \in {<<"p", "u">>, <<"p", "v">>} |->
                IF k = <<"p", "u">> THEN [caBundle |-> 1] ELSE NoEntry]
=============================================================================
