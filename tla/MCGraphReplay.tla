---------------------------- MODULE MCGraphReplay ----------------------------
(* A workflow of two nodes that may loop, as the macro workflow does.       *)
EXTENDS GraphReplay

CONSTANTS n1, n2, c1, c2, c3

\* n1 leads to n2 or is tried again, n2 ends the workflow or goes back.
MCRoute == [p \in {n1, n2} \X {c1, c2, c3} |->
              IF p[1] = n1 THEN IF p[2] = c1 THEN n2 ELSE n1
              ELSE IF p[2] = c1 THEN END ELSE n1]
=============================================================================
