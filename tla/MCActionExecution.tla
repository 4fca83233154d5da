--------------------------- MODULE MCActionExecution ---------------------------
(* Small instances of ActionExecution.  Each is a set of requests of the     *)
(* home; the cfg files name the set, the faults and the properties.          *)
EXTENDS ActionExecution, TLC

\* Threads are interchangeable; used by the safety runs only.
WorkerSymmetry == Permutations(Workers)

\* Two lamps that share a hub scope: "both" switches the two on, "again" is a
\* replay of its idempotency key under a new action_id, "other" is a
\* conflicting request for the second lamp.
LampActions == {"both", "again", "other"}
LampKeys == {"k1", "k2"}
LampScopes == {"lamp1", "lamp2"}
LampDevices == {"d1", "d2"}
LampKeyOf == [a \in LampActions |-> IF a = "other" THEN "k2" ELSE "k1"]
LampDigestOf == [a \in LampActions |-> IF a = "other" THEN "y" ELSE "x"]
LampLocksOf ==
    [a \in LampActions |-> IF a = "other" THEN <<"lamp2">>
                                          ELSE <<"lamp1", "lamp2">>]
BothOn == [d \in LampDevices |-> "ON"]
LampWantOf == [a \in LampActions |-> IF a = "other" THEN [d \in {"d2"} |-> "OFF"]
                                                    ELSE BothOn]
LampExpectOf ==
    [a \in LampActions |-> IF a = "other" THEN [d \in {"d2"} |-> "ON"]
                                          ELSE [d \in {} |-> "ON"]]

\* Notifications, which need a confirmation, share one provider scope and are
\* verified by the provider's receipt: "again" replays the key of "send",
\* "edited" reuses it with other arguments.
NoticeActions == {"send", "again", "edited"}
NoticeKeys == {"k1"}
NoticeScopes == {"provider"}
NoticeDevices == {}
NoticeKeyOf == [a \in NoticeActions |-> "k1"]
NoticeDigestOf == [a \in NoticeActions |-> IF a = "edited" THEN "y" ELSE "x"]
NoticeLocksOf == [a \in NoticeActions |-> <<"provider">>]
NoEffects == [d \in {} |-> "ON"]
NoticeWantOf == [a \in NoticeActions |-> NoEffects]
NoticeExpectOf == [a \in NoticeActions |-> NoEffects]

\* A confirmed notification and an ordinary one on the scope of one provider.
MixedActions == {"send", "chime"}
MixedKeys == {"k1", "k2"}
MixedKeyOf == [a \in MixedActions |-> IF a = "send" THEN "k1" ELSE "k2"]
MixedDigestOf == [a \in MixedActions |-> IF a = "send" THEN "x" ELSE "y"]
MixedLocksOf == [a \in MixedActions |-> <<"provider">>]
MixedWantOf == [a \in MixedActions |-> NoEffects]
MixedExpectOf == [a \in MixedActions |-> NoEffects]
=============================================================================
