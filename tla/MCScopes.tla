------------------------------ MODULE MCScopes ------------------------------
EXTENDS Scopes
=============================================================================
