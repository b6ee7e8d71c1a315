---------------------------- MODULE MCDynamicCert -----------------------------
(***************************************************************************)
(* Three certificates for two keys: a renewal that keeps the key, one that *)
(* changes it, and chains that differ only in their intermediates.         *)
(***************************************************************************)
EXTENDS DynamicCert

MCChains == {<<"a">>, <<"a", "i">>, <<"a2", "i">>, <<"b", "i">>, <<"b", "j">>}
MCKeyFor == [leaf \in {"a", "a2", "b"} |-> IF leaf = "b" THEN "kb" ELSE "ka"]
=============================================================================
