------------------------------ MODULE MCRequests ------------------------------
EXTENDS Requests, TLC
=============================================================================
