------------------------------ MODULE Planning ------------------------------
(***************************************************************************)
(* Projects, requirements with their criteria, plans, tasks and their      *)
(* dependencies (services/planning, services/workspace/projects.py,        *)
(* tasks/graph.py), and the export of a project to a bundle and its import *)
(* as a new one (services/workspace/portability.py).  Each handler is one  *)
(* transaction, except where it reads more than once.  Foreign keys act as *)
(* the migrations declare them.                                            *)
(***************************************************************************)
EXTENDS Naturals, Sequences, FiniteSets, Relation

CONSTANTS
  ProjectCalls,    \* calls that open the one directory there is, each once
  NameOf,     \* the name each of them asks for
  PlanSpecs,  \* plans asked for: for each task, the tasks it depends on, by title
  MaxRowId    \* bound: nothing is added to the tables beyond this id

ASSUME PlanningAssumption ==
  /\ MaxRowId \in Nat /\ DOMAIN NameOf = ProjectCalls
  /\ PlanSpecs \subseteq Seq(Seq(Nat \ {0}))

VARIABLES
  opener,       \* what each call has found
  projects,     \* [id, name]
  requirements, \* [id, project]
  criteria,     \* [id, requirement]
  plans,        \* [id, requirement]
  tasks,        \* [id, project, plan, requirement]; 0 for none
  attempts,     \* tasks that have attempts
  deps,         \* task_dependencies: <<task, depends_on>>
  nextId,
  bundle,       \* an export, or its first half
  asked         \* plans and imports that were answered with success: what they hold

planningVars == <<opener, projects, requirements, criteria, plans, tasks, attempts, deps, nextId, bundle, asked>>

Ids(rs) == {r.id : r \in rs}
NoBundle == [step |-> "none", project |-> 0, requirements |-> {}, criteria |-> {}, plans |-> {}, tasks |-> {},
             attempts |-> {}]

\* ---- projects ----------------------------------------------------------
\* open_project returns the project of the directory, or picks a free name.
LookForRoot(o) ==
  /\ opener[o] = "idle"
  /\ opener' = [opener EXCEPT ![o] = IF projects # {} THEN "done" ELSE "insert"]
  /\ UNCHANGED <<projects, requirements, criteria, plans, tasks, attempts, deps, nextId, bundle, asked>>

\* Only the name is unique: whoever inserts the same one second fails.
InsertProject(o) ==
  /\ opener[o] = "insert"
  /\ IF \E p \in projects : p.name = NameOf[o]
     THEN opener' = [opener EXCEPT ![o] = "failed"] /\ UNCHANGED <<projects, nextId>>
     ELSE /\ opener' = [opener EXCEPT ![o] = "done"]
          /\ projects' = projects \cup {[id |-> nextId, name |-> NameOf[o]]} /\ nextId' = nextId + 1
  /\ UNCHANGED <<requirements, criteria, plans, tasks, attempts, deps, bundle, asked>>

\* What goes with a project, by the foreign keys.
DeleteProject(id) ==
  LET reqs == {r \in requirements : r.project = id}
      gonePlans == {p \in plans : p.requirement \in Ids(reqs)}
      gone == {t \in tasks : t.project = id}
      Unless(x, out) == IF x \in out THEN 0 ELSE x
  IN /\ projects' = {p \in projects : p.id # id}
     /\ requirements' = requirements \ reqs
     /\ criteria' = {c \in criteria : c.requirement \notin Ids(reqs)}
     /\ plans' = plans \ gonePlans
     /\ tasks' = {[t EXCEPT !.plan = Unless(@, Ids(gonePlans)), !.requirement = Unless(@, Ids(reqs))] : t \in tasks \ gone}
     /\ attempts' = attempts \ Ids(gone)
     /\ deps' = {d \in deps : {d[1], d[2]} \cap Ids(gone) = {}}
     /\ UNCHANGED <<opener, nextId, bundle, asked>>

\* ---- requirements and plans --------------------------------------------
CreateRequirement(project) ==
  /\ requirements' = requirements \cup {[id |-> nextId, project |-> project]}
  /\ criteria' = criteria \cup {[id |-> nextId + 1, requirement |-> nextId]}
  /\ nextId' = nextId + 2
  /\ UNCHANGED <<opener, projects, plans, tasks, attempts, deps, bundle, asked>>

\* A path back to `task` over the edges so far; its own earlier edges are left out.
\* Mutant of find_cycle: only the other tasks are walked.
find_cycle_beyond(task, dep, edges) ==
  LET others == {e \in edges : e[1] # task}
      nodes == {task, dep} \cup {e[1] : e \in others} \cup {e[2] : e \in others}
      reaches == TransitiveClosure([p \in nodes \X nodes |-> p \in others], nodes)
  IN reaches[dep, task]

find_cycle(task, dep, edges) ==
  LET others == {e \in edges : e[1] # task}
      nodes == {task, dep} \cup {e[1] : e \in others} \cup {e[2] : e \in others}
      reaches == TransitiveClosure([p \in nodes \X nodes |-> p \in others], nodes)
  IN dep = task \/ reaches[dep, task]

\* The edges are tried one by one; a title is known from its own task on.
EdgesOf(spec, first) ==
  UNION {{<<first + i, first + spec[i][j]>> : j \in 1..Len(spec[i])} : i \in 1..Len(spec)}
Unknown(spec) == \E i \in 1..Len(spec) : \E j \in 1..Len(spec[i]) : spec[i][j] > i
Repeated(spec) == \E i \in 1..Len(spec) : \E j, k \in 1..Len(spec[i]) : j # k /\ spec[i][j] = spec[i][k]
Cyclic(edges) == \E e \in edges : find_cycle(e[1], e[2], edges \ {e})

\* create_plan: an unknown title, a cycle or a dependency named twice (the primary
\* key) leaves nothing behind.
CreatePlan(requirement, spec) ==
  LET edges == EdgesOf(spec, nextId)
      made == {[id |-> nextId + i, project |-> requirement.project, plan |-> nextId,
                requirement |-> requirement.id] : i \in 1..Len(spec)}
  IN /\ IF Unknown(spec) \/ Cyclic(edges) \/ Repeated(spec)
        THEN UNCHANGED <<plans, tasks, deps, asked, nextId>>
        ELSE /\ plans' = plans \cup {[id |-> nextId, requirement |-> requirement.id]}
             /\ tasks' = tasks \cup made /\ deps' = deps \cup edges
             /\ asked' = asked \cup {[tasks |-> Ids(made), edges |-> edges]}
             /\ nextId' = nextId + 1 + Len(spec)
     /\ UNCHANGED <<opener, projects, requirements, criteria, attempts, bundle>>

\* create_task by hand: links only within the project; nothing refers to it yet.
CreateTask(project, needed) ==
  /\ \A t \in needed : t.project = project
  /\ tasks' = tasks \cup {[id |-> nextId, project |-> project, plan |-> 0, requirement |-> 0]}
  /\ deps' = deps \cup {<<nextId, t.id>> : t \in needed}
  /\ nextId' = nextId + 1
  /\ UNCHANGED <<opener, projects, requirements, criteria, plans, attempts, bundle, asked>>

\* A run of the task records an attempt.
Attempt(task) ==
  /\ attempts' = attempts \cup {task}
  /\ UNCHANGED <<opener, projects, requirements, criteria, plans, tasks, deps, nextId, bundle, asked>>

\* ---- export and import -------------------------------------------------
\* The rows the project owns are read first, the rows that hang on them after.
ExportOwned(project) ==
  /\ bundle' = [NoBundle EXCEPT !.step = "owned", !.project = project,
                  !.requirements = {r \in requirements : r.project = project},
                  !.tasks = {t \in tasks : t.project = project}]
  /\ UNCHANGED <<opener, projects, requirements, criteria, plans, tasks, attempts, deps, nextId, asked>>

\* A dependency has no id to export: a project with one cannot be exported.
ExportChildren ==
  /\ bundle.step = "owned"
  /\ bundle' =
       IF \E d \in deps : d[1] \in Ids(bundle.tasks) THEN NoBundle
       ELSE [bundle EXCEPT !.step = "whole",
               !.criteria = {c \in criteria : c.requirement \in Ids(bundle.requirements)},
               !.plans = {p \in plans : p.requirement \in Ids(bundle.requirements)},
               !.attempts = attempts \cap Ids(bundle.tasks)]
  /\ UNCHANGED <<opener, projects, requirements, criteria, plans, tasks, attempts, deps, nextId, asked>>

\* Every row gets an id of its own, but keeps the ids it refers to: those rows
\* must still exist, and an attempt of theirs is there already.
Importable ==
  /\ bundle.step = "whole" /\ bundle.requirements # {} /\ bundle.attempts = {}
  /\ {c.requirement : c \in bundle.criteria} \cup {p.requirement : p \in bundle.plans}
       \cup ({t.requirement : t \in bundle.tasks} \ {0}) \subseteq Ids(requirements)
  /\ {t.plan : t \in bundle.tasks} \ {0} \subseteq Ids(plans)

Import ==
  LET new(rs) == {[r EXCEPT !.id = @ + nextId] : r \in rs}
      into(rs) == {[r EXCEPT !.project = nextId] : r \in new(rs)}
  IN /\ Importable /\ nextId <= MaxRowId + 3
     /\ projects' = projects \cup {[id |-> nextId, name |-> "imported"]}
     /\ requirements' = requirements \cup into(bundle.requirements)
     /\ criteria' = criteria \cup new(bundle.criteria)
     /\ plans' = plans \cup new(bundle.plans)
     /\ tasks' = tasks \cup into(bundle.tasks)
     /\ nextId' = 2 * nextId /\ bundle' = NoBundle
     /\ asked' = asked \cup {[tasks |-> Ids(into(bundle.tasks)), edges |-> {}]}
     /\ UNCHANGED <<opener, attempts, deps>>

----------------------------------------------------------------------------
PlanningInit ==
  /\ opener = [o \in ProjectCalls |-> "idle"]
  /\ projects = {} /\ requirements = {} /\ criteria = {} /\ plans = {} /\ tasks = {}
  /\ attempts = {} /\ deps = {} /\ nextId = 1 /\ bundle = NoBundle /\ asked = {}

PlanningNext ==
  \/ \E o \in ProjectCalls : LookForRoot(o) \/ InsertProject(o)
  \/ \E p \in projects : DeleteProject(p.id) \/ ExportOwned(p.id)
  \/ ExportChildren \/ Import
  \/ \E t \in tasks : Attempt(t.id)
  \/ /\ nextId <= MaxRowId
     /\ \/ \E p \in projects : CreateRequirement(p.id) \/ (\E needed \in SUBSET tasks : CreateTask(p.id, needed))
        \/ \E r \in requirements, spec \in PlanSpecs : CreatePlan(r, spec)

\* Whatever tasks are taken, one of them waits for none of the others, nor for itself.
Acyclic(edges) ==
  \A S \in SUBSET ({e[1] : e \in edges} \cup {e[2] : e \in edges}) :
    S # {} => \E n \in S : \A m \in S : <<n, m>> \notin edges

\* Whatever is deleted, exported and imported in between: the tasks of a plan or an
\* import that was answered are all there as long as their project is, a plan's
\* with all its edges; dependencies stay within a project and form no cycle.
PlansWhole ==
  /\ \A a \in asked :
       \/ a.tasks \cap Ids(tasks) = {}
       \/ a.tasks \subseteq Ids(tasks) /\ a.edges \subseteq deps
  /\ \A d \in deps : \E s, t \in tasks : s.id = d[1] /\ t.id = d[2] /\ s.project = t.project
  /\ Acyclic(deps)

\* The rows of a project hang on rows of the same project.  The code does not keep
\* this: an imported plan, task or criterion keeps the ids of its source.
StandsAlone ==
  \A t \in tasks, r \in requirements : t.requirement = r.id => t.project = r.project
=============================================================================
