-------------------------- MODULE MCProposalBuffer --------------------------
EXTENDS ProposalBuffer
=============================================================================
