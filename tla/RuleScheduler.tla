---------------------------- MODULE RuleScheduler ----------------------------
(***************************************************************************)
(* The scheduler of a module's rules.  A rule is an atomic group of        *)
(* register writes, FIFO pushes and FIFO pops, each of which may carry an  *)
(* activation condition.  At a clock edge the rules whose guards hold      *)
(* compete, and the priorities decide.                                     *)
(*                                                                         *)
(* The compiler answers "which rules fire" in two ways that have to agree: *)
(* select_action_groups searches for the set that fires from the values of *)
(* one cycle, and selection_regions_for_transition computes, once and for  *)
(* all, the function of each rule that the SystemVerilog backend and the   *)
(* native simulator evaluate.  A scheduled FIFO commits what fires and     *)
(* makes no check of its own, so that the scheduler alone keeps its        *)
(* occupancy in range.                                                     *)
(***************************************************************************)
EXTENDS Integers, FiniteSets, Sequences

CONSTANTS RuleCount,    \* rules, numbered in the order of their names
          Fifos,        \* single-port FIFOs
          Registers,
          Depth,        \* entries of a FIFO
          Programs      \* what the rules of a module do: rule -> set of actions

Rules == 1..RuleCount
Actions == (Fifos \X {"push", "pop"}) \cup (Registers \X {"write"})

ASSUME SchedulerAssumption ==
    /\ RuleCount \in Nat /\ Depth \in Nat \ {0}
    /\ IsFiniteSet(Fifos) /\ IsFiniteSet(Registers) /\ Fifos \cap Registers = {}
    /\ Programs \subseteq [Rules -> SUBSET Actions]

VARIABLES
    program,      \* of each rule, its actions
    conditional,  \* whether the actions carry activation conditions
    priorities,   \* pairs <<higher, lower>>
    count,        \* of each FIFO, the entries it holds
    written       \* of each register, the rules that wrote it at the last edge

schedulerVars == <<program, conditional, priorities, count, written>>

-----------------------------------------------------------------------------
(* The order in which the rules are considered: in rounds, the rules with  *)
(* no higher rule left, by name.  Priorities without a cycle leave one in  *)
(* each round.                                                             *)
Ready(remaining) ==
    {r \in remaining : ~\E h \in remaining : <<h, r>> \in priorities}

Acyclic(pairs) ==
    \A some \in SUBSET Rules \ {{}} : \E r \in some : ~\E h \in some : <<h, r>> \in pairs

sorted(rules) ==
    CHOOSE names \in [1..Cardinality(rules) -> rules] :
        \A i, j \in 1..Cardinality(rules) : i < j => names[i] < names[j]

OneRound(last) == [ordered |-> last.ordered \o sorted(Ready(last.remaining)),
                   remaining |-> last.remaining \ Ready(last.remaining)]

rounds ==
    LET Rounds[n \in 0..RuleCount] ==
          IF n = 0 THEN [ordered |-> <<>>, remaining |-> Rules] ELSE OneRound(Rounds[n - 1])
    IN Rounds

ordered_groups == rounds[RuleCount].ordered

(* An input of the scheduler gives the actions of each rule that are       *)
(* active; a rule whose guard is false has none.                           *)
Inputs ==
    IF conditional
    THEN LET all == UNION {{r} \X program[r] : r \in Rules}
         IN {[r \in Rules |-> {a \in program[r] : <<r, a>> \in on}] : on \in SUBSET all}
    ELSE {[r \in Rules |-> IF r \in guards THEN program[r] ELSE {}] : guards \in SUBSET Rules}

HasFifo == \E r \in Rules : \E a \in program[r] : a[1] \in Fifos

(* Two writes of a register, two pushes and two pops of a FIFO conflict; a *)
(* push and a pop of one FIFO do not.                                      *)
active_groups_conflict(left, right) == left \cap right # {}

Empty == {f \in Fifos : count[f] = 0}
Full == {f \in Fifos : count[f] >= Depth}
Pushed(input, rules) == {f \in Fifos : \E r \in rules : <<f, "push">> \in input[r]}
Popped(input, rules) == {f \in Fifos : \E r \in rules : <<f, "pop">> \in input[r]}

-----------------------------------------------------------------------------
(* The search.  The candidates are the rules that have something to do, in *)
(* order.                                                                  *)
candidate(input, r) == input[r] # {}

(* Without FIFOs each rule is taken that no rule taken before conflicts    *)
(* with.                                                                   *)
take_compatible(input, taken, r) ==
    IF candidate(input, r) /\ ~\E p \in taken : active_groups_conflict(input[r], input[p])
    THEN taken \cup {r} ELSE taken

greedy(input) ==
    LET order == ordered_groups
        Taken[index \in 0..RuleCount] ==
          IF index = 0 THEN {} ELSE take_compatible(input, Taken[index - 1], order[index])
    IN Taken

(* With FIFOs a push into a full one needs a pop by a rule that may come   *)
(* later in the order: a rule is taken if a legal suffix follows, and is   *)
(* passed over if none does.  The result is {} for "no legal suffix" and   *)
(* {taken} otherwise; left is the number of rules still to be considered.  *)
allowed(input, taken, r) ==
    /\ candidate(input, r)
    /\ ~\E p \in taken : active_groups_conflict(input[r], input[p])
    /\ Popped(input, {r}) \cap Empty = {}

(* Mutant: a rule with a push into a full FIFO is passed over at once, as  *)
(* is right for the pop of an empty one.                                   *)
extend_downward(input, r, shorter) ==
    [taken \in SUBSET Rules |->
        IF /\ allowed(input, taken, r)
           /\ Pushed(input, {r}) \cap Full \subseteq Popped(input, taken \cup {r})
        THEN shorter[taken \cup {r}] ELSE shorter[taken]]
extend(input, r, shorter) ==
    [taken \in SUBSET Rules |->
        IF allowed(input, taken, r) /\ shorter[taken \cup {r}] # {}
        THEN shorter[taken \cup {r}] ELSE shorter[taken]]

complete(input) ==
    [taken \in SUBSET Rules |->
        IF Pushed(input, taken) \cap Full \subseteq Popped(input, taken) THEN {taken} ELSE {}]

suffix(input) ==
    LET order == ordered_groups
        Suffix[left \in 0..RuleCount] ==
          IF left = 0 THEN complete(input)
          ELSE extend(input, order[RuleCount + 1 - left], Suffix[left - 1])
    IN Suffix

select_action_groups(input) ==
    IF HasFifo THEN UNION suffix(input)[RuleCount][{}] ELSE greedy(input)[RuleCount]

-----------------------------------------------------------------------------
(* The fire functions.  The formula says which selections are legal; the   *)
(* rules are then settled in order, each selected whenever the formula,    *)
(* with the earlier rules settled, can still be satisfied.                 *)
(* Mutant: a pop does not make room for a push of the same edge.           *)
selection_formula_single(input, selected) ==
    /\ \A r \in selected : input[r] # {}
    /\ \A p, r \in selected : p # r => ~active_groups_conflict(input[p], input[r])
    /\ Popped(input, selected) \cap Empty = {}
    /\ Pushed(input, selected) \cap Full = {}
selection_formula(input, selected) ==
    /\ \A r \in selected : input[r] # {}
    /\ \A p, r \in selected : p # r => ~active_groups_conflict(input[p], input[r])
    /\ Popped(input, selected) \cap Empty = {}
    /\ Pushed(input, selected) \cap Full \subseteq Popped(input, selected)

can_choose(input, before, r, later) ==
    \E others \in SUBSET later : selection_formula(input, before \cup {r} \cup others)

settle(input, before, r, later) ==
    IF can_choose(input, before, r, later) THEN before \cup {r} ELSE before

formula_fires(input) ==
    LET order == ordered_groups
        Settled[index \in 0..RuleCount] ==
          IF index = 0 THEN {}
          ELSE settle(input, Settled[index - 1], order[index],
                      {order[i] : i \in (index + 1)..RuleCount})
    IN Settled

(* Without FIFOs and activation conditions, a rule fires if its guard      *)
(* holds and no rule that may conflict with it fired before it.            *)
fire_compatible(input, fires, r) ==
    IF candidate(input, r) /\ ~\E p \in fires : active_groups_conflict(program[r], program[p])
    THEN fires \cup {r} ELSE fires

guard_only_fires(input) ==
    LET order == ordered_groups
        Fires[index \in 0..RuleCount] ==
          IF index = 0 THEN {} ELSE fire_compatible(input, Fires[index - 1], order[index])
    IN Fires

fire_functions(input) ==
    IF HasFifo \/ conditional THEN formula_fires(input)[RuleCount]
    ELSE guard_only_fires(input)[RuleCount]

-----------------------------------------------------------------------------
SchedulerInit ==
    /\ program \in Programs
    /\ conditional \in BOOLEAN
    /\ priorities \in {pairs \in SUBSET (Rules \X Rules) : Acyclic(pairs)}
    /\ count = [f \in Fifos |-> 0]
    /\ written = [x \in Registers |-> {}]

(* One edge: what fires commits its active actions.  The occupancy moves   *)
(* by one, in a register of its width, if there is a push or a pop only.   *)
Power[w \in 0..Depth] == IF w = 0 THEN 1 ELSE 2 * Power[w - 1]
CountModulus == CHOOSE m \in {Power[w] : w \in 1..Depth} : m > Depth /\ (m = 2 \/ m \div 2 <= Depth)

SchedulerEdge(input) ==
    LET fire == fire_functions(input)
        push == Pushed(input, fire)
        pop == Popped(input, fire)
    IN /\ count' = [f \in Fifos |->
              CASE f \in push \ pop -> (count[f] + 1) % CountModulus
                [] f \in pop \ push -> (count[f] - 1) % CountModulus
                [] OTHER -> count[f]]
       /\ written' = [x \in Registers |-> {r \in fire : <<x, "write">> \in input[r]}]
       /\ UNCHANGED <<program, conditional, priorities>>

SchedulerReset ==
    /\ count' = [f \in Fifos |-> 0]
    /\ written' = [x \in Registers |-> {}]
    /\ UNCHANGED <<program, conditional, priorities>>

SchedulerNext == (\E input \in Inputs : SchedulerEdge(input)) \/ SchedulerReset

SchedulerSpec == SchedulerInit /\ [][SchedulerNext]_schedulerVars

-----------------------------------------------------------------------------
(* No FIFO is pushed beyond its depth or popped below zero, and no         *)
(* register is written by two rules at one edge.                           *)
SchedulerTypeOK ==
    /\ program \in Programs /\ conditional \in BOOLEAN
    /\ priorities \subseteq Rules \X Rules
    /\ count \in [Fifos -> 0..Depth]
    /\ \A x \in Registers : written[x] \subseteq Rules /\ Cardinality(written[x]) <= 1

(* A legal selection that is ahead of another one: it has the first rule   *)
(* of the order on which they differ.                                      *)
Ahead(one, other) ==
    \E i \in Rules :
        /\ ordered_groups[i] \in one \ other
        /\ \A j \in 1..(i - 1) : ordered_groups[j] \in one <=> ordered_groups[j] \in other

(* Whatever the occupancies, the guards and the activations, the search    *)
(* and the fire functions select the same rules: the legal selection that  *)
(* no other legal one is ahead of, even if a rule can only fire because a  *)
(* rule of lower priority does.                                            *)
SelectionExact ==
    \A input \in Inputs :
        LET selected == select_action_groups(input)
            legal == {s \in SUBSET Rules : selection_formula(input, s)}
        IN /\ fire_functions(input) = selected
           /\ selected \in legal
           /\ ~\E other \in legal : Ahead(other, selected)
=============================================================================
