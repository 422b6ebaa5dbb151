------------------------------ MODULE MCIntake ------------------------------
(***************************************************************************)
(* Two files that share two voices in opposite order, so that uploads can  *)
(* wait for each other; after the shorter the longer brings one new voice, *)
(* after the longer the shorter brings none; and one without any voice.    *)
(***************************************************************************)
EXTENDS Intake, TLC

CONSTANTS short, long, blank, i1, i2, i3, glass, lid, q1, q2, q3, ann, bob

MCRows == (short :> << i1, i2 >>) @@ (long :> << i2, None, i1, i2, i3 >>) @@ (blank :> << None >>)
MCOperator == (q1 :> ann) @@ (q2 :> ann) @@ (q3 :> bob)
MCTheme == (i1 :> glass) @@ (i2 :> lid) @@ (i3 :> glass)
=============================================================================
