---------------------------- MODULE MCApplyPath ----------------------------
EXTENDS ApplyPath, TLC
=============================================================================
