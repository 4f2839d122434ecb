------------------------------ MODULE MCLibrary ------------------------------
(* An instance of Library for TLC. *)
EXTENDS Library

CONSTANTS p1, p2, c1, c2, a, b, w1, w2, n1, n2, u1, u2, u3, m1, m2, m3
=============================================================================
