-------------------------- MODULE MCCommandService ------------------------
(* An instance of the command surface for TLC: the batches of             *)
(* CommandService, the reports of InstanceState and the inventory of       *)
(* SignalInventory.  The three share no state, so that a mix of them shows *)
(* nothing new: a behaviour takes the commands of one.                     *)
EXTENDS CommandService, InstanceState, SignalInventory

CONSTANTS setpoint, status, flag, other

E(ref, value) == [ref |-> ref, value |-> value]

\* Batches that compete for the set point, and batches that mix a write with
\* each kind of entry that is skipped, that fails, or that ends the handler.
MCWrites ==
    {<<>>,
     <<E(setpoint, 1), E(setpoint, 2)>>,
     <<E(setpoint, 3), E(other, 1)>>,
     <<E(setpoint, 1), E(Malformed, 1), E(setpoint, 2)>>,
     <<E(setpoint, 9), E(flag, 1)>>,
     <<E(status, 1), E(Unknown, 1), E(setpoint, Absent)>>,
     <<E(other, 1), E(other, Absent)>>}

\* Reads of the set point around a ref that is not found, and one that aborts.
MCReads ==
    {<<E(setpoint, Absent), E(Unknown, Absent), E(setpoint, Absent)>>,
     <<E(other, Absent), E(Malformed, Absent)>>}

\* Two units; two of the signals are bits of one register.
MCGroups ==
    <<[unit |-> 1, signals |-> <<[name |-> "setpoint", register |-> 10, bit |-> 0],
                                 [name |-> "running", register |-> 11, bit |-> 1],
                                 [name |-> "fault", register |-> 11, bit |-> 2]>>],
      [unit |-> 2, signals |-> <<>>],
      [unit |-> 2, signals |-> <<[name |-> "remote", register |-> 10, bit |-> 0]>>]>>

\* Pages, trees, and bodies that mix the keys of the two.
MCRequests ==
    LET Empty == [k \in {"ref", "depth", "maxRefs", "cursor", "max"} |-> Missing]
    IN  {[Empty EXCEPT !.cursor = at, !.max = size] :
            at \in {Missing, Null, Other, -1, 1, 2, 3, 9}, size \in {Missing, Other, -1, 1, 2, 7}}
        \cup {[Empty EXCEPT !.ref = node, !.maxRefs = limit] :
            node \in {Null, Other, Root, <<1, 11>>, <<2, 10>>, <<3, 10>>},
            limit \in {Missing, Other, -1, 2, 4, 9}}
        \cup {[Empty EXCEPT !.ref = node, ![key] = Null] :
            node \in {Missing, Root, <<1, 11>>}, key \in {"depth", "cursor", "max"}}

VARIABLE scenario

MCInit ==
    /\ scenario \in {"batches", "state", "inventory"}
    /\ Init /\ StateInit /\ WalkInit

MCNext ==
    \/ scenario = "batches" /\ Next /\ UNCHANGED <<scenario, stateVars, walkVars>>
    \/ scenario = "state" /\ StateNext /\ UNCHANGED <<scenario, vars, walkVars>>
    \/ scenario = "inventory" /\ WalkNext /\ UNCHANGED <<scenario, vars, stateVars>>

MCSpec == MCInit /\ [][MCNext]_<<scenario, vars, stateVars, walkVars>>

\* The type invariants of the three modules.
MCTypeOK == TypeOK /\ StateTypeOK /\ WalkTypeOK

=============================================================================
