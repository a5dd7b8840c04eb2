------------------------------- MODULE MCRag -------------------------------
EXTENDS RagGateway
CONSTANTS q1, q2
=============================================================================
