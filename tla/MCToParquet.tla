---------------------------- MODULE MCToParquet ----------------------------
(***************************************************************************)
(* Values of ToParquet's constants for TLC.                                 *)
(***************************************************************************)
EXTENDS ToParquet, TLC

CONSTANTS s, n1, n2

\* Two pages, the second repeating a project of the first, and a third that
\* the loop never asks for.
ThePages == (<<s, 1>> :> {1, 2}) @@ (<<s, 2>> :> {2, 3}) @@ (<<s, 3>> :> {1, 3})

\* Two of the projects share the name of their archive.
TheNames == <<n1, n2, n1>>

TheLate == {1}
===========================================================================
