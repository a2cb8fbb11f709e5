------------------------------- MODULE MCApiTest -------------------------------
EXTENDS ApiTest

CONSTANTS c1, c2, e1, e2
=============================================================================
