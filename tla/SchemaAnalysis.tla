--------------------------- MODULE SchemaAnalysis ---------------------------
(***************************************************************************)
(* AnalyzeMessage of bitpacker/schema.go: one pass over the fields of a    *)
(* message descriptor, in declaration order, that builds its encoding plan *)
(* or stops at the first annotation it does not accept.                    *)
(***************************************************************************)
EXTENDS Schema, FiniteSets, SequencesExt

CONSTANT Messages   \* the descriptors analysed

(* Of a descriptor: its fields are in a sequence, no two have one number,   *)
(* and the annotation of a selector is a number of bits.                   *)
ASSUME MessagesAssumption ==
  \A d \in Messages :
    /\ d.fields \in Seq(Range(d.fields))
    /\ \A j, k \in 1..Len(d.fields) : j # k => d.fields[j].number # d.fields[k].number
    /\ \A j \in 1..Len(d.fields) :
         RealOneof(d.fields[j]) => d.selectorBits[d.fields[j].oneof] \in Nat

VARIABLES desc,         \* the descriptor
          visited,      \* how many of its fields were visited
          schemaUnits,  \* schema.Units
          seenOneofs,
          status        \* "running", "ok" or "ValidationError"

analysisVars == <<desc, visited, schemaUnits, seenOneofs, status>>

AnalysisInit == /\ desc \in Messages
                /\ visited = 0 /\ schemaUnits = <<>> /\ seenOneofs = {}
                /\ status = "running"

current == desc.fields[visited + 1]

Visit == /\ status = "running" /\ visited < Len(desc.fields)
         /\ visited' = visited + 1
         /\ UNCHANGED desc

(* The unit joins the plan if its annotations are valid. *)
Plans(unit, valid) ==
  IF valid THEN schemaUnits' = Append(schemaUnits, unit) /\ UNCHANGED status
  ELSE status' = "ValidationError" /\ UNCHANGED schemaUnits

(* mutant: the oneof is not remembered *)
VisitOneofUnseen ==
  /\ Visit
  /\ RealOneof(current) /\ current.oneof \notin seenOneofs
  /\ UNCHANGED seenOneofs
  /\ Plans(OneofUnit(desc, current.oneof), ValidOneof(desc, current.oneof))

(* A field of a oneof that is new: buildOneofUnit. *)
VisitOneof ==
  /\ Visit
  /\ RealOneof(current) /\ current.oneof \notin seenOneofs
  /\ seenOneofs' = seenOneofs \cup {current.oneof}
  /\ Plans(OneofUnit(desc, current.oneof), ValidOneof(desc, current.oneof))

(* A field of a oneof already planned. *)
SkipMember ==
  /\ Visit
  /\ RealOneof(current) /\ current.oneof \in seenOneofs
  /\ UNCHANGED <<schemaUnits, seenOneofs, status>>

(* Any other field: buildScalarUnit. *)
VisitField ==
  /\ Visit
  /\ ~RealOneof(current)
  /\ Plans(ScalarUnit(current), ValidUnit(current))
  /\ UNCHANGED seenOneofs

Return == /\ status = "running" /\ visited = Len(desc.fields)
          /\ status' = "ok"
          /\ UNCHANGED <<desc, visited, schemaUnits, seenOneofs>>

AnalysisNext == VisitOneof \/ SkipMember \/ VisitField \/ Return

AnalysisSpec == AnalysisInit /\ [][AnalysisNext]_analysisVars

-----------------------------------------------------------------------------
(* The pass accepts a descriptor exactly when every annotation is valid,   *)
(* and its units are then the plan Pack and Unpack are modelled with.      *)
PassComputesPlan ==
  /\ status = "running" => schemaUnits = PlanOf(desc, visited)
  /\ status = "ok" => ValidMessage(desc) /\ schemaUnits = Plan(desc)
  /\ status = "ValidationError" => ~ValidMessage(desc)

FieldsOf(u) == IF u.unit = "oneof" THEN u.fields ELSE <<u.fd>>

(* However the members of oneofs are mixed with other fields, every field  *)
(* is coded by exactly one unit of the finished plan.                      *)
EveryFieldOnce ==
  status = "ok" =>
    \A n \in 1..Len(desc.fields) :
      Cardinality({k \in 1..Len(schemaUnits) :
                     Contains(FieldsOf(schemaUnits[k]), desc.fields[n])}) = 1

(* A selector of an accepted oneof holds the number of each of its fields, *)
(* beside 0 for none.                                                      *)
SelectorFits ==
  \A k \in 1..Len(schemaUnits) :
    schemaUnits[k].unit = "oneof" =>
      Len(schemaUnits[k].fields) < 2 ^ schemaUnits[k].selectorBits

=============================================================================
