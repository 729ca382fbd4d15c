----------------------------- MODULE MCPublish -----------------------------
(* Two builders of a project with two scopes. *)
EXTENDS Publish

CONSTANTS s1, s2

MCOrders == {<<s1, s2>>, <<s2, s1>>}

=============================================================================
