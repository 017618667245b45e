----------------------------- MODULE MCBaseline -----------------------------
EXTENDS Baseline

MCThreshold == [anomaly |-> 5, immediate |-> 10]
=============================================================================
