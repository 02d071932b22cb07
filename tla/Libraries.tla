------------------------------- MODULE Libraries ------------------------------
(***************************************************************************)
(* The code that is called and returns: klib, and the arithmetic below the  *)
(* compiler.  They share no state; a behaviour calls one of the two.        *)
(***************************************************************************)
EXTENDS Klib, Arith

VARIABLE library

libvars == <<library, klib_vars, arith_vars>>

NoTask == [kind |-> "div", a |-> 0]

LibrariesInit ==
  \/ /\ library = "klib" /\ KlibInit
     /\ task = NoTask /\ result = NoResult
  \/ /\ library = "arith" /\ ArithInit
     /\ StdlibInit /\ mem = <<>> /\ last = [call |-> Call("none", 0, 0, 0), ret |-> 0, old |-> mem]

LibrariesNext ==
  /\ UNCHANGED library
  /\ \/ library = "klib" /\ KlibNext /\ UNCHANGED arith_vars
     \/ library = "arith" /\ Compute /\ UNCHANGED klib_vars

Spec == LibrariesInit /\ [][LibrariesNext]_libvars
=============================================================================
