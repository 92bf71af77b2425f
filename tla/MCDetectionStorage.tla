---------------------------- MODULE MCDetectionStorage ----------------------------
(* What one thread computes for itself, each part explored alone: from what the     *)
(* models report to the plates of a frame, the statements of a database that is set *)
(* up, and setting it up.                                                           *)
EXTENDS MCPlateDetection, ObjectStatements, SchemaVersions, TLC

VARIABLE part

partVars == <<part, vars, statementVars, schemaVars>>

\* Texts of different columns grow together or not at all.
SomeLong ==
    {{}, {"label", "endTime", "thumbnail", "licensePlateResults", "score",
          "frameId", "data", "hasSubPredictions"}}

ConnectionsAlike == Permutations(Connections)

\* One initial state of the parts that are not explored.
PartsInit ==
    /\ Init /\ StatementsInit /\ SchemaInit
    /\ part \in {"detection", "statements", "schema"}
    /\ part # "detection" => frame = Size(24, 10) /\ dynamic
    /\ part # "statements" => class = "Event" /\ version2
    /\ part # "schema" => file = File(0)

PartsNext ==
    /\ \/ /\ part = "detection" /\ Next
          /\ UNCHANGED <<statementVars, schemaVars>>
       \/ /\ part = "statements" /\ StatementsNext
          /\ UNCHANGED <<vars, schemaVars>>
       \/ /\ part = "schema" /\ SchemaNext
          /\ UNCHANGED <<vars, statementVars>>
    /\ UNCHANGED part

PartsSpec == PartsInit /\ [][PartsNext]_partVars
===================================================================================
