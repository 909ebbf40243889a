-------------------------------- MODULE Once --------------------------------
(***************************************************************************)
(* What a client may conclude from an answer, whichever door the request   *)
(* went through and whatever broke on the way: a request takes effect at   *)
(* most once; "done" means it did, "refused" that it did not and never     *)
(* will, "failed" only that it will not any more, and a request that was   *)
(* "lost" may still take effect.  An update that is done may have found    *)
(* the row as it was to be.                                                *)
(***************************************************************************)
EXTENDS Naturals

CONSTANTS Call

VARIABLES
    asked,      \* whether a request was made, and what it is to do
    effects,    \* how often it took effect
    told        \* the answer

Init ==
    /\ asked = [c \in Call |-> "no"]
    /\ effects = [c \in Call |-> 0]
    /\ told = [c \in Call |-> "nothing"]

\* A request may be refused at once.
Ask(c) ==
    /\ asked[c] = "no"
    /\ \E k \in {"read", "insert", "update"} : asked' = [asked EXCEPT ![c] = k]
    /\ told' \in {told, [told EXCEPT ![c] = "refused"]}
    /\ UNCHANGED effects

Act(c) ==
    /\ asked[c] \in {"insert", "update"}
    /\ effects[c] = 0
    /\ told[c] \in {"nothing", "lost"}
    /\ effects' = [effects EXCEPT ![c] = 1]
    /\ UNCHANGED <<asked, told>>

Tell(c, answer) ==
    /\ asked[c] # "no"
    /\ told[c] = "nothing"
    /\ answer = "done" /\ asked[c] = "insert" => effects[c] = 1
    /\ answer = "refused" => effects[c] = 0
    /\ told' = [told EXCEPT ![c] = answer]
    /\ UNCHANGED <<asked, effects>>

\* Any number of answers are lost at once.
Lose(S) ==
    /\ \A c \in S : asked[c] # "no" /\ told[c] = "nothing"
    /\ told' = [c \in Call |-> IF c \in S THEN "lost" ELSE told[c]]
    /\ UNCHANGED <<asked, effects>>

Next ==
    \/ \E c \in Call : Ask(c) \/ Act(c) \/ \E a \in {"done", "refused", "failed"} : Tell(c, a)
    \/ \E S \in SUBSET Call : Lose(S)

Spec == Init /\ [][Next]_<<asked, effects, told>>

=============================================================================
