------------------------------ MODULE MCSocFlash ------------------------------
EXTENDS SocFlash
=============================================================================
