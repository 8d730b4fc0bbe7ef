----------------------------- MODULE MCSignatures -----------------------------
EXTENDS Signatures
=============================================================================
