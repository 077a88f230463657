---------------------------- MODULE MCPackerCache ---------------------------
(* Two goroutines; a message type Outer with fields of types Inner and     *)
(* Broken, of which Broken lacks an annotation.                            *)
EXTENDS PackerCache, TLC

CONSTANTS g1, g2, Outer, Inner, Broken, nOuter, nInner, nBroken

MCDescs == {Outer, Inner, Broken}
MCChildren == Outer :> {Inner, Broken} @@ Inner :> {} @@ Broken :> {}
MCNameOf == Outer :> nOuter @@ Inner :> nInner @@ Broken :> nBroken
=============================================================================
