-------------------------- MODULE MCShadowSeeding --------------------------
EXTENDS ShadowSeeding

CONSTANTS p1, p2, p3
=============================================================================
