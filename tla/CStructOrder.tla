----------------------------- MODULE CStructOrder ---------------------------
(***************************************************************************)
(* writeStructsInOrder of cmd/protoc-gen-bitpacker-c/generator.go: the     *)
(* depth-first walk that orders the C structs of one proto file.  A struct *)
(* holds the structs of its message fields by value, so those must be      *)
(* complete before it.  The stack is the Go call stack; the messages       *)
(* declared in a message, and its fields, may stand in any order.          *)
(***************************************************************************)
EXTENDS FiniteSets, Sequences, Naturals

CONSTANT Messages   \* the messages of the file, map entries left out

VARIABLES parent,    \* message -> the one it is declared in, itself if none
          holds,     \* message -> the types of its non-map message fields
          hasStruct, \* the messages writeStructDef writes a struct for
          top,       \* top-level messages writeHeader has not come to
          stack,     \* frames: a message and the calls it has still to make
          visited,
          structs    \* the structs written, in order

file == <<parent, holds, hasStruct>>
orderVars == <<file, top, stack, visited, structs>>

NestedIn(m) == {n \in Messages : parent[n] = m /\ n # m}

Above(m) == {parent[m]} \ {m}
Fields(m) == holds[m]
Calls(m) == NestedIn(m) \cup holds[m]

(* A relation has no cycle: in any set of messages there is one that has   *)
(* nothing next in the set.                                                *)
Acyclic(next(_)) ==
  \A S \in SUBSET Messages : S # {} => \E m \in S : next(m) \cap S = {}

(* No struct would have to hold itself, and declarations have a top. *)
StructsFinite == Acyclic(Fields)
Declared == Acyclic(Above)

OrderInit == /\ parent \in [Messages -> Messages]
             /\ holds \in [Messages -> SUBSET Messages]
             /\ hasStruct \in SUBSET Messages
             /\ StructsFinite /\ Declared
             /\ top = {m \in Messages : parent[m] = m}
             /\ stack = <<>> /\ visited = {} /\ structs = <<>>

frame == stack[Len(stack)]
callers == SubSeq(stack, 1, Len(stack) - 1)

(* mutant: a message is marked only once its struct is written *)
EnterUnmarked(m, st) ==
  /\ stack' = IF m \in visited THEN st
              ELSE Append(st, [msg |-> m, nested |-> NestedIn(m), fields |-> holds[m]])
  /\ visited' = visited \cup {n \in Messages : \E j \in 1..Len(structs) : structs[j] = n}
  /\ UNCHANGED <<file, structs>>

(* writeStructsInOrder(m), called with the stack st *)
Enter(m, st) ==
  /\ stack' = IF m \in visited THEN st
              ELSE Append(st, [msg |-> m, nested |-> NestedIn(m), fields |-> holds[m]])
  /\ visited' = visited \cup {m}
  /\ UNCHANGED <<file, structs>>

CallTop == /\ stack = <<>>
           /\ \E m \in top : Enter(m, <<>>) /\ top' = top \ {m}

CallNested == /\ stack # <<>>
              /\ \E m \in frame.nested :
                   Enter(m, Append(callers, [frame EXCEPT !.nested = @ \ {m}]))
              /\ UNCHANGED top

CallField == /\ stack # <<>> /\ frame.nested = {}
             /\ \E m \in frame.fields :
                  Enter(m, Append(callers, [frame EXCEPT !.fields = @ \ {m}]))
             /\ UNCHANGED top

(* mutant: the struct is written before its fields are *)
WriteStructEarly == /\ stack # <<>> /\ frame.nested = {}
                    /\ stack' = callers
                    /\ structs' = IF frame.msg \in hasStruct THEN Append(structs, frame.msg)
                                  ELSE structs
                    /\ UNCHANGED <<file, top, visited>>

(* writeStructDef *)
WriteStruct == /\ stack # <<>> /\ frame.nested = {} /\ frame.fields = {}
               /\ stack' = callers
               /\ structs' = IF frame.msg \in hasStruct THEN Append(structs, frame.msg)
                             ELSE structs
               /\ UNCHANGED <<file, top, visited>>

OrderNext == CallTop \/ CallNested \/ CallField \/ WriteStruct

OrderSpec == OrderInit /\ [][OrderNext]_orderVars

-----------------------------------------------------------------------------
Index(m) == {j \in 1..Len(structs) : structs[j] = m}

(* However declarations and fields refer to each other, the recursion ends *)
(* (no message is entered while it is on the stack), and once it has, every *)
(* struct of the file has been written exactly once.                       *)
EveryStructOnce ==
  /\ \A j, k \in 1..Len(stack) : stack[j].msg = stack[k].msg => j = k
  /\ \A m \in Messages : Cardinality(Index(m)) <= IF m \in hasStruct THEN 1 ELSE 0
  /\ stack = <<>> /\ top = {} => \A m \in hasStruct : Index(m) # {}

CompleteFirst ==
  \A j \in 1..Len(structs) : \A m \in holds[structs[j]] \cap hasStruct :
    \E k \in 1..(j - 1) : structs[k] = m

(* Where no message refers, through declarations and fields, to one it is  *)
(* declared in, every struct comes after the structs it holds, whatever    *)
(* the order of the file.                                                  *)
CompleteFirstUnlessEnclosing ==
  Acyclic(Calls) => CompleteFirst

=============================================================================
