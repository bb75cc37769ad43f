------------------------------ MODULE TaskGraph ------------------------------
(***************************************************************************)
(* What bb.runqueue derives from the dependency graph of a build: the      *)
(* reverse dependencies of runtaskentries, and the collapsed graph that    *)
(* build_scenequeue_data makes of it, in which only the setscene tasks     *)
(* (tasks whose output can come from the shared state cache) remain.       *)
(*                                                                         *)
(* dep  maps every task to the set of tasks it depends on;                 *)
(* SS   is the set of tasks that have a setscene variant.                  *)
(* The code computes these sets by loops over the graph; what is defined   *)
(* here is what the loops leave behind.                                    *)
(***************************************************************************)
EXTENDS Naturals, FiniteSets

\* runtaskentries[t].revdeps
RevDeps(dep) == [t \in DOMAIN dep |-> {u \in DOMAIN dep : t \in dep[u]}]

\* The tasks met going down the dependencies from those of From, without
\* leaving Within.
Down(dep, Within, From) ==
    LET down[i \in 0..Cardinality(DOMAIN dep)] ==
          IF i = 0 THEN UNION {dep[t] \cap Within : t \in From}
          ELSE UNION {{u} \cup (dep[u] \cap Within) : u \in down[i - 1]}
    IN  Within \cap down[Cardinality(DOMAIN dep)]

\* The same stopping at setscene tasks, which are met but not passed.
Below(dep, SS, From) ==
    UNION {dep[t] : t \in From \cup Down(dep, DOMAIN dep \ SS, From)}

\* Every task above the tasks of From (process_possible_migrations: "Work out
\* all tasks which depend upon these").
Above(dep, From) == Below(RevDeps(dep), {}, From)

\* sqdata.sq_covered_tasks: the ordinary tasks whose work the setscene variant
\* of t makes unnecessary.
CoveredTasks(dep, SS) == [t \in SS |-> Below(dep, SS, {t}) \ SS]

\* The setscene tasks that lie above t with no setscene task between.
SquashedRevDeps(dep, SS) == [t \in SS |-> {u \in SS : t \in Below(dep, SS, {u})}]

\* sqdata.sq_revdeps: t_setscene waits for the setscene tasks above it, unless
\* it is a hard dependency of another one, which then waits for it instead.
\* hard[t] is sq_harddeps[t], the setscene tasks that need t_setscene first.
SqRevDeps(dep, SS, hard) ==
    [t \in SS |->
        (IF hard[t] # {} THEN {} ELSE SquashedRevDeps(dep, SS)[t])
            \cup {u \in SS : t \in hard[u]}]

\* sqdata.sq_deps, the converse of sq_revdeps.
SqDeps(dep, SS, hard) ==
    [t \in SS |-> {u \in SS : t \in SqRevDeps(dep, SS, hard)[u]}]

\* rq.cantskip: the targets of the build that have no setscene variant.
CantSkip(dep, SS, targets) == (targets \ SS) \cap DOMAIN dep

\* sqdata.unskippable: the end points of the build and what they need
\* directly, down to and including the first setscene task of each chain.
Unskippable(dep, SS, targets) ==
    LET tops == {t \in DOMAIN dep : RevDeps(dep)[t] = {}}
                    \cup CantSkip(dep, SS, targets)
    IN  tops \cup Below(dep, SS, tops \ SS)

\* No task depends on itself through others: the "Circular dependency sanity
\* check" of calculate_task_weights, which ends the build otherwise.
Acyclic(dep) == \A t \in DOMAIN dep : t \notin Below(dep, {}, {t})
=============================================================================
