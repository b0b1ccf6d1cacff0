---------------------------- MODULE MCEchoServer ----------------------------
(* A small instance of EchoServer: clients are interchangeable where no     *)
(* one of them is singled out.                                              *)
EXTENDS EchoServer, TLC

Symmetry == Permutations(Flaky)
=============================================================================
