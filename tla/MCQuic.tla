-------------------------------- MODULE MCQuic --------------------------------
EXTENDS Quic
=============================================================================
