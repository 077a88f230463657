---------------------------- MODULE SchemaLookup ----------------------------
(* What getOrAnalyze promises its callers: a lookup of a descriptor answers *)
(* the analysis of that very descriptor, whatever other goroutines look up  *)
(* at the same time.  That the answer may come from a cache cannot be seen. *)

CONSTANTS Procs,    \* goroutines
          Descs,    \* message descriptors
          Valid,    \* those whose annotations AnalyzeMessage accepts
          NoDesc, Pending, Invalid

VARIABLE lookup     \* per goroutine: the descriptor looked up and the answer

Idle == [md |-> NoDesc, answer |-> Pending]

AnalysisOf(d) == IF d \in Valid THEN d ELSE Invalid

LInit == lookup = [p \in Procs |-> Idle]

Ask(p, d) == /\ lookup[p] = Idle
             /\ lookup' = [lookup EXCEPT ![p] = [md |-> d, answer |-> Pending]]

Answer(p) == /\ lookup[p].md # NoDesc /\ lookup[p].answer = Pending
             /\ lookup' = [lookup EXCEPT ![p] =
                             [md |-> @.md, answer |-> AnalysisOf(@.md)]]

Take(p) == /\ lookup[p].answer # Pending
           /\ lookup' = [lookup EXCEPT ![p] = Idle]

LNext == \E p \in Procs : \/ \E d \in Descs : Ask(p, d)
                          \/ Answer(p)
                          \/ Take(p)

LSpec == LInit /\ [][LNext]_lookup
=============================================================================
