-------------------------- MODULE MCImageSignature --------------------------
(* The referrers and the old signatures that a publisher may leave, with     *)
(* those before a good one that stop the agent and those that do not; old    *)
(* signatures that are good, of another image, that make the agent panic,    *)
(* and that have a defect which it meets before it would panic.              *)
EXTENDS ImageSignature

CONSTANTS c1, c2

MCContainer == {c1, c2}

\* Two containers that are verified, or one and one that is not.
MCTrust ==
    {[c \in MCContainer |-> IF c = c1 THEN "set" ELSE t] : t \in {"unset", "invalid", "set"}}

MCReferrers ==
    {<<>>, <<"bundle">>, <<"bad">>, <<"other">>, <<"other", "bundle">>, <<"empty", "bundle">>}

MCSignatures == {None, {}, {"foreign"}, {"payload"}, {"logID", "kind", "bad"}}
=============================================================================
