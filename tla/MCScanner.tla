----------------------------- MODULE MCScanner -----------------------------
(***************************************************************************)
(* Streams for Scanner: every stream of up to three characters, and those  *)
(* of up to six that a packet is made of, two digits the longest body that *)
(* a buffer of two has to grow twice for.                                  *)
(***************************************************************************)
EXTENDS Scanner

Streams(S, n) == UNION {[1 .. k -> S] : k \in 0 .. n}

\* The classes of TokenStream: nul, "#", "$" and a hexadecimal digit.
Classes == 0 .. 7
PacketClasses == {0, 3, 4, 7}

MCInputs == Streams(Classes, 3) \cup Streams(PacketClasses, 6)
=============================================================================
