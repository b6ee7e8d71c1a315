---------------------------- MODULE MCCertificate -----------------------------
(***************************************************************************)
(* Instances of Certificate for TLC: a valid ConfigMap, variants of it     *)
(* that are valid too, and one ConfigMap per check of Reconcile that fails *)
(* that check alone.                                                       *)
(***************************************************************************)
EXTENDS Certificate, TLC

goodBlock == [certificate |-> TRUE, headers |-> 0, parses |-> TRUE, isCA |-> TRUE]
\* The blocks pem.Decode finds, and whether there is text outside of them.
ca(id, blocks, text) == [id |-> id, blocks |-> blocks, text |-> text]

v1 == [deleting |-> FALSE, public |-> TRUE, restricted |-> TRUE,
       shootName |-> "s", shootUID |-> "u", ca |-> ca(1, {goodBlock}, FALSE)]
v2 == [v1 EXCEPT !.ca = ca(2, {goodBlock}, FALSE)]
NoBlock == [v1 EXCEPT !.ca = ca(3, {}, TRUE)]
WithText == [v1 EXCEPT !.ca.text = TRUE]
OfShootV == [v1 EXCEPT !.shootUID = "v"]

Unlabelled == [v1 EXCEPT !.public = FALSE]
Deleting == [v1 EXCEPT !.deleting = TRUE]
BadBlocks == {[goodBlock EXCEPT !.certificate = FALSE],
              [goodBlock EXCEPT !.headers = 1],
              [goodBlock EXCEPT !.parses = FALSE],
              [goodBlock EXCEPT !.isCA = FALSE]}

InvalidConfigMaps ==
    {Unlabelled, Deleting,
     [v1 EXCEPT !.restricted = FALSE],
     [v1 EXCEPT !.ca = Unset],
     [v1 EXCEPT !.shootName = Unset],
     [v1 EXCEPT !.shootUID = Unset]}
    \cup {[v1 EXCEPT !.ca.blocks = {goodBlock, b}] : b \in BadBlocks}

OneName == <<"ns", "c">>
OtherName == <<"ns", "d">>
OneKey == {OneName}
TwoKeys == {OneName, OtherName}

\* One name, every check, two identities.
AllConfigMaps == OneName :> ({v1, NoBlock, WithText, OfShootV} \cup InvalidConfigMaps)
\* Two names that carry the UID of one shoot.
SharedConfigMaps == OneName :> {v1, Unlabelled} @@ OtherName :> {v2}
\* A shoot is deleted and created again under its name.
RecreatedConfigMaps == OneName :> {v1, OfShootV}

Labelled(p) == [ns \in {"ns"} |-> p]
OneNamespace == {Labelled("p")}
AllNamespaces == {Labelled(p) : p \in {"p", "q", Unset, NotFound}}

ProjectWith(ns) == [p \in {"p", "q"} |-> ns]
OneProject == {ProjectWith("ns")}
AllProjects == {ProjectWith(ns) : ns \in {"ns", "other", Unset, NotFound}}

ShootWith(uid) == [x \in {<<"ns", "s">>} |-> uid]
AllShoots == {ShootWith(uid) : uid \in {"u", "v", NotFound}}
ShootOrNone == {ShootWith(uid) : uid \in {"u", NotFound}}
=============================================================================
