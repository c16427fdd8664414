------------------------------ MODULE WorkList ------------------------------
(***************************************************************************)
(* What the compiler's job queue promises, with no queue: units of work    *)
(* are discovered while others are worked on; a unit that needs another is *)
(* blocked until that one is finished; every unit is finished at most      *)
(* once, and never while blocked.  The whole is accepted only when every   *)
(* unit is finished, and given up as circular only when every unfinished   *)
(* unit needs another unfinished one, so that none could ever move again.  *)
(***************************************************************************)
EXTENDS Naturals

VARIABLES
    units,     \* the number of units discovered so far
    finished,  \* the units whose result is known
    needs,     \* for each blocked unit, the unit it needs
    outcome

wvars == <<units, finished, needs, outcome>>

Init ==
    /\ units = 1
    /\ finished = {}
    /\ needs = [u \in {} |-> 0]
    /\ outcome = "running"

Unfinished == (1 .. units) \ finished

Ready(u) ==
    /\ u \in Unfinished
    /\ u \in DOMAIN needs => needs[u] \in finished

Discover == units' \in Nat /\ units' >= units

Complete(u) ==
    /\ Ready(u)
    /\ Discover
    /\ finished' = finished \cup {u}
    /\ needs' = [v \in DOMAIN needs \ {u} |-> needs[v]]

(* A unit may turn out to need itself: it is then blocked for good.        *)
Block(u) ==
    /\ Ready(u)
    /\ Discover
    /\ finished' = finished
    /\ DOMAIN needs' = DOMAIN needs \cup {u}
    /\ \A v \in DOMAIN needs \ {u} : needs'[v] = needs[v]
    /\ needs'[u] \in (1 .. units') \ finished

Work ==
    /\ outcome = "running"
    /\ \/ \E u \in Unfinished : Complete(u) \/ Block(u)
       \/ Discover /\ UNCHANGED <<finished, needs>>
    /\ UNCHANGED outcome

Reject == outcome' = "rejected"

Accept ==
    /\ Unfinished = {}
    /\ outcome' = "accepted"

GiveUp ==
    /\ Unfinished # {}
    /\ \A u \in Unfinished : ~ Ready(u)
    /\ outcome' = "circular"

Stop ==
    /\ outcome = "running"
    /\ Reject \/ Accept \/ GiveUp
    /\ UNCHANGED <<units, finished, needs>>

Next == Work \/ Stop

Spec == Init /\ [][Next]_wvars
=============================================================================
