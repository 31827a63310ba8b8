------------------------------- MODULE MCMvcc -------------------------------
EXTENDS Mvcc

CONSTANTS a, b, x, y

MCKeys == {a, b}
MCValues == {x, y}
=============================================================================
