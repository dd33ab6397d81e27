----------------------------- MODULE MCVerifier -----------------------------
(* Small instances of the verifier.                                        *)
EXTENDS VerifierProperties

Raw(tokens) ==
  [ json |-> "object", version |-> "current", skill |-> TRUE, attempt |-> "int",
    period |-> "fits", isList |-> TRUE, tokens |-> tokens ]

Plain       == Raw({"RUNNING", "SUCCESS", "FAILURE"})
NoRunning   == Raw({"SUCCESS", "FAILURE", "unsupported"})
OnlySuccess == [Raw({"SUCCESS"}) EXCEPT !.period = "overlong"]
Endless     == [Plain EXCEPT !.period = "overlong"]
OldSchema   == [Plain EXCEPT !.version = "other"]
HugePeriod  == [Plain EXCEPT !.period = "huge"]

MixedRaw     == {NoRunning, OnlySuccess, OldSchema, HugePeriod}
PlainRaw     == {Plain}
EndlessRaw   == {Endless}

=============================================================================
