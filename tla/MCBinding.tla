----------------------------- MODULE MCBinding -----------------------------
(***************************************************************************)
(* A CPU, a TestCpu, a state copied from one of them and a state that is   *)
(* constructed without a memory.                                           *)
(***************************************************************************)
EXTENDS Binding

CONSTANTS cpu, tester, copy, fresh

OneCpu == {cpu}
OneTester == {tester}
OneCopy == {copy}
OneFresh == {fresh}
MCValue == {0, 1}
=============================================================================
