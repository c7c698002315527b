------------------------- MODULE ConflictResolvers -------------------------
(***************************************************************************)
(* The conflict resolvers of src/src/diff.rs.  A side of a conflict is a   *)
(* value, or NoValue where the key is missing; a resolver's answer is the  *)
(* set with the resulting side, empty when it leaves the conflict open.    *)
(***************************************************************************)
EXTENDS Integers

CONSTANTS Values,
          NoValue,          \* the key is absent on this side
          Timestamp(_),     \* timestamp_extractor: a number, or -1 for none
          MergeJson(_, _)   \* SemanticMergeResolver::merge_json_values

ASSUME NoValueAssumption == NoValue \notin Values

Sides == Values \cup {NoValue}

Resolvers == {"ignore", "take_source", "take_destination", "agent_priority",
              "timestamp", "semantic", "unresolved"}

(***************************************************************************)
(* The three resolvers that look at the values agree where a side is       *)
(* missing: they keep the one that is there.                               *)
(***************************************************************************)
Present(source, dest) == IF source # NoValue THEN source ELSE dest

(* TimestampResolver: the later value, the source's when neither is later. *)
Later(source, dest) ==
    IF Timestamp(source) < Timestamp(dest) THEN dest ELSE source

Resolve(resolver, source, dest) ==
    LET both == source # NoValue /\ dest # NoValue
    IN  CASE resolver \in {"ignore", "take_destination"} -> {dest}
          [] resolver = "take_source" -> {source}
          [] resolver = "agent_priority" -> {Present(source, dest)}
          [] resolver = "timestamp" ->
               {IF both THEN Later(source, dest) ELSE Present(source, dest)}
          [] resolver = "semantic" ->
               {IF both THEN MergeJson(source, dest) ELSE Present(source, dest)}
          [] OTHER -> {}
=============================================================================
