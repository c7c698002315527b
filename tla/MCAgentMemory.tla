--------------------------- MODULE MCAgentMemory ---------------------------
(***************************************************************************)
(* Constants of AgentMemory for TLC.                                       *)
(***************************************************************************)
EXTENDS AgentMemory

CONSTANTS main, trial

MCThreads == {"t1", "t10"}

OneThread == {"t1"}

MCBegins == {<<"t1", "t10">>}

NoBegins == {}

MCNames == {"a"}

RawTemplates == {Raw("ShortTerm", <<"rule", "a">>, Lifetime), Raw("Semantic", Fresh, 0)}

TypedTemplates == {Rule("a"), WorkingMemory("t1", "a")}

MCTemplates == RawTemplates \cup TypedTemplates

MCBranches == {main, trial}
=============================================================================
