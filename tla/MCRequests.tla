----------------------------- MODULE MCRequests -----------------------------
EXTENDS Requests, Router
=============================================================================
