---------------------------- MODULE MCDhtSampler ----------------------------
EXTENDS DhtSampler
\* The corners of the sensor's range.
CornerReadings == {[rh |-> 20, t |-> 0], [rh |-> 90, t |-> 50]}
AnyPulse == 0..40
=============================================================================
