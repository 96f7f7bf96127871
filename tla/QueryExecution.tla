---------------------------- MODULE QueryExecution ----------------------------
(***************************************************************************)
(* The driver: a query is parsed and its tree loaded as a plan             *)
(* (QueryPlan), the plan executed (PlanExecutor), and the records compared *)
(* with the answer (QueryAnswer).                                          *)
(***************************************************************************)
EXTENDS PlanExecutor

CONSTANT Attributes   (* the schema: [entities -> Seq(columns)] *)

QP == INSTANCE QueryPlan

(* The plans, the filters and the widths that PlanExecutor is given. *)
LoadedPlans(q, t)     == QP!Plans(q, t)
FilterAccepts(f, e, r) == QP!Accepts(f, e, r)
EntityWidth           == [e \in DOMAIN Attributes |-> Len(Attributes[e])]

(* The loaded plan, executed, answers the query: whatever join conditions  *)
(* the driver picked from the transitive closure, in whatever order the    *)
(* tree joins, and with the columns that each node keeps.                  *)
Counts(s) == [r \in ToSet(s) |-> Cardinality({i \in DOMAIN s : s[i] = r})]

Query == INSTANCE QueryAnswer WITH
           answer <- IF frames = <<>> THEN Counts(done[Len(plan)]) ELSE None

AnswersQuery == Query!Spec
=============================================================================
