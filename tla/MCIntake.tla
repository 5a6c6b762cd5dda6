------------------------------ MODULE MCIntake ------------------------------
(* Small instances of Intake for TLC.                                      *)
EXTENDS Intake

CONSTANTS ann, bob

\* The webhook of the older message comes twice.
MCMaxTries == <<2, 1>>
MCSenderOf == <<ann, bob>>
MCMixes == {<<"plain", "plain">>, <<"plain", "alone">>, <<"plain", "aside">>}
MCBurst == {<<"plain", "plain">>}
=============================================================================
