------------------------- MODULE MCIntercomInbound --------------------------
\* Two subagents, a and b: a message of each, sent just before its terminal
\* notice.
EXTENDS IntercomInbound

MCMessages == {"a1", "b1"}
MCNotices == {"aEnds", "bEnds"}
MCFrom == [x \in MCMessages \cup MCNotices |-> IF x \in {"b1", "bEnds"} THEN "b" ELSE "a"]
MCTime == [x \in MCMessages \cup MCNotices |-> IF MCFrom[x] = "a" THEN 1 ELSE 2]
=============================================================================
