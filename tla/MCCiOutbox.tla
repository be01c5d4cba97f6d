----------------------------- MODULE MCCiOutbox -----------------------------
EXTENDS CiOutbox

CONSTANTS r1, r2
=============================================================================
