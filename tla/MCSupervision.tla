--------------------------- MODULE MCSupervision ---------------------------
\* Supervision with every fault or none, and with none.
EXTENDS Supervision

AllOrNothing == {FaultKinds, {}}
NoFaults == {{}}
=============================================================================
