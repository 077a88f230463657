-------------------------- MODULE MCSchemaAnalysis --------------------------
(* Descriptors of up to three fields in every order of their numbers, with *)
(* up to two oneofs whose members other fields may separate.               *)
EXTENDS SchemaAnalysis, TLC

CONSTANTS oneofA, oneofB, optional

Blank == [number |-> 0, oneof |-> NoOneof, synthetic |-> FALSE, card |-> "singular",
          kind |-> "int", key |-> "int", type |-> "none", bits |-> 0, lengthBits |-> 0,
          countBits |-> 0, keyBits |-> 0, keyLengthBits |-> 0, scale |-> "none",
          rolling |-> FALSE, forwardOnly |-> FALSE, epoch |-> 0]

Shapes ==
  { [Blank EXCEPT !.bits = 7],
    [Blank EXCEPT !.bits = 65],
    Blank,
    [Blank EXCEPT !.bits = 7, !.oneof = optional, !.synthetic = TRUE],
    [Blank EXCEPT !.bits = 7, !.oneof = oneofA],
    [Blank EXCEPT !.kind = "message", !.type = "Inner", !.oneof = oneofA],
    [Blank EXCEPT !.kind = "bool", !.oneof = oneofB],
    [Blank EXCEPT !.kind = "message", !.type = Timestamp, !.bits = 20, !.rolling = TRUE],
    [Blank EXCEPT !.kind = "double", !.bits = 33, !.scale = "ufixed", !.oneof = oneofB],
    [Blank EXCEPT !.kind = "bytes", !.card = "map", !.countBits = 2, !.keyBits = 3,
                  !.lengthBits = 4] }

Fields(n) == {f \in [1..n -> Shapes \X (1..3)] : \A j, k \in 1..n : j # k => f[j][2] # f[k][2]}

MCMessages ==
  { [fields |-> [k \in 1..n |-> [f[k][1] EXCEPT !.number = f[k][2]]],
     selectorBits |-> (oneofA :> a @@ oneofB :> 0)] :
      <<n, f, a>> \in UNION { {n} \X Fields(n) \X {0, 1, 3} : n \in 1..3 } }
=============================================================================
