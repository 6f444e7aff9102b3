# TLA+ models of the left-deep join-order search and of shared-memory protocols

The repository is a PostgreSQL tree in which `make_rel_from_joinlist`
(`src/src/backend/optimizer/path/allpaths.c:2671`) calls a join search of its own,
`src/src/backend/optimizer/parallel`. This directory models that search, the planner code
that decides what a join order proposed by it comes to, and the planner state that the
evaluation of join orders goes through. It also models two concurrent protocols that every
backend of the tree runs, the planner's included: the shared cache invalidation queue and
the lightweight lock. Paths below are relative to `src/src/backend/optimizer` unless they
begin with `src/`.

## The system

**The search** (`parallel/parallel_main.c`, `parallel_worker.c`, `parallel_utils.c`,
`parallel_tree.c`). `parallel_join_search` runs `n_workers` workers *one after the other*;
despite the name nothing runs concurrently. Worker `part_id` orients the first pairs of
relations by the bits of `part_id` (`part_constraints`), enumerates the intermediate results
these constraints allow (`adm_join_results`, built up by `cartesian_product`), sorts them by
size and fills a table indexed by bitmaps with `try_splits`. Main keeps the cheapest of the
workers' plans and builds it again.

**Evaluation** (`parallel/parallel_eval.c`). The cost of an order is that of the rel that
`construct_rel_based_on_plan` makes: clumps are merged along the order where that is legal
and desirable (`try_merge_clump`), and what is left is joined in any legal way
(`force_merge_clump`). An order that comes to no rel costs `DBL_MAX`. The join rels are made
in a memory context that is deleted afterwards, and `join_rel_list` and `join_rel_hash` are
put back.

**Legality** (`path/joinrels.c`, `util/joininfo.c`). `join_is_legal` decides from the
`SpecialJoinInfo`s of the query which rels may be joined.

**Deconstruction** (`plan/initsplan.c`). `deconstruct_jointree` makes the `SpecialJoinInfo`s
and join clauses, and cuts the query into joinlists, each a join problem of its own.

**Execution** (`src/src/backend/executor/nodeNestloop.c`). What a plan returns.

**Shared cache invalidation** (`src/src/backend/storage/ipc/sinvaladt.c`, `sinval.c`). A
ring buffer of messages with one read position per backend. `SIInsertDataEntries` fills it
in quanta under a write lock, `SIGetDataEntries` reads it under a read lock,
`SICleanupQueue` takes both, resets backends that are too far back and signals the furthest
one to catch up. `hasMessages` is tested and set under no common lock.
`ReceiveSharedInvalidMessages` calls itself through the caches it invalidates, over a static
message array.

**Lightweight locks** (`src/src/backend/storage/lmgr/lwlock.c`). An atomic word with the
holders and three flags, a wait list under one of the flags, and a semaphore in each process
which it shares with other waits.

State of the planner: the DP table, the worklist and the best plan of the search;
`join_rel_list`, `join_rel_hash` and the memory contexts of the planner; `join_info_list`,
the clauses and the joinlists of the query. What is hard about it:

* a table entry is read on the strength of an order that a sort by size leaves;
* four partitions have to cover all orders, with fewer pairs than bits or an odd relation;
* infeasible intermediate results share one cost, `DBL_MAX`;
* sequences of joins each legal must neither get stuck nor change the query's result;
* state that outlives an evaluation must not point into memory that does not;
* a message must not be overwritten unread, nor be overlooked by a test without a lock;
* a process must not go to sleep after the wakeup it needs.

`PROJECT.json` lists these hazards at the lines where they bite, with the properties that
cover them. Its components list also names the parts of PostgreSQL not modelled.

## The modules

| module | models | state and actions |
|---|---|---|
| `ParallelJoinSearch` | the search, over sets | `AdmPair`, `AdmDone`: iterations and end of `adm_join_results`; `NextSubset`: the loop of `worker`; `TrySplit`: one iteration of `try_splits`; `WorkerReturns`: the comparison in main; `Construct`: the final build |
| `LeftDeepOptimality` | its promise about cost | the same, with the assumption `OptimalSubstructure` |
| `OptimalPlanner` | the abstract planner | one step, `Return` |
| `ListJoinSearch` | the search, over the code's lists | as `ParallelJoinSearch`, which it implements |
| `JoinLegality` | `join_is_legal` and its neighbours | operators |
| `ParallelEval` | `parallel_eval.c` | operators on clumps |
| `OuterJoinSearch` | `ListJoinSearch` composed with `ParallelEval` | the search with the costs of outer-join queries |
| `DeconstructJointree` | `deconstruct_recurse`, `make_outerjoininfo`, `distribute_qual_to_rels`, ... | a forest of jointrees; one action each for a join and a FROM list |
| `QueryPlanning` | `DeconstructJointree` composed with `ParallelEval` | every order of every join problem of every query |
| `QueryResults` | `QueryPlanning` composed with execution | adds the rows that the query means |
| `PlannerContexts` | memory contexts, `join_rel_list`, `join_rel_hash` | start and end of a search, an evaluation and a construction; making a join rel; caching a path |
| `SharedInvalidation` | `sinvaladt.c`, `sinval.c` | backends come and go, send and receive; a step lies between two points where another backend can tell the difference: `InsertLock` ... `InsertDone`, `GetLock` ... `GetCopy`, `SICleanupQueue` within `InsertCleanup` and `ReceiveCleanup`; `Apply`: one callback, which may call back or fail |
| `LWLock` | `lwlock.c`, one lock | the calls (`LWLockAcquire`, `LWLockAcquireOrWait`, `LWLockWaitForVar`, `LWLockConditionalAcquire`, `LWLockUpdateVar`, `LWLockReleaseClearVar`) and their steps, each one atomic operation, one use of the wait list or one semaphore operation |
| `...Proofs` | | the lemmas and theorems about the module of that name; `QueryPlanningProofs` has those about `DeconstructJointree` too |
| `MC...` | | values of constants for TLC |

The abstractions that matter:

* In `ParallelJoinSearch` a bitmap and an int list are the set they hold, and a left-deep
  tree is the order of its leaves. List order then only settles ties; the model allows any
  choice, and `ListJoinSearch`, which keeps the lists, implements it.
* `Eval` is a function of the query and the order. `parallel_eval` is one as long as an
  evaluation leaves nothing behind; `PlannerContexts` is about that. One exception is not
  covered, see *Not modelled*.
* In `ParallelEval` a cost is the sum of the sizes of the joins. Costs in the code are
  floating-point estimates; the model tells cheaper from dearer and from `DBL_MAX`.
* `DeconstructJointree` runs the recursion bottom-up, so that its states with one tree are
  the queries. Quals that `reduce_outer_joins` would have used to simplify an outer join are
  not chosen.
* `QueryResults` uses databases with one row in each relation, and sets of rows. It sees a
  row that is missing, wrongly null-extended or wrongly kept; it does not see a row returned
  twice.

* In `SharedInvalidation` the content of a message is its number in the order of sending,
  and history variables count what wraparound has subtracted (`base`) and what a call had to
  deal with when it was entered (`goal`). The counters of the queue are the code's,
  wraparound included.
* `LWLock` looks at the lock either as `WALWriteLock` is used or as a WAL insertion lock is
  (`use`): those are the callers of `LWLockAcquireOrWait` and of the functions on a
  variable. The state word is kept as its fields, each step changing them at once.
* `PlannerContexts` assumes of the join problems what deconstruction makes them: they nest,
  so no join belongs to two of them (`ProblemsAssumption`).

Definitions named as mutants in a comment are the variants that show that a property can
fail: `PROJECT.json` says which definition each replaces and which property it breaks.

## Runs

| run | question | bounds |
|---|---|---|
| `search4` | Is the enumeration exact, the table complete, sound and optimal subset by subset, a subplan final once a larger plan contains it, the plan built the one that was costed, and the cheapest wherever the optimum is? | 4 relations, 4 workers, up to two cheap intermediate results: many ties, and each order in turn the cheapest up to its first two relations |
| `search3` | Does the search end, and implement `OptimalPlanner`? | 3 relations: one pair, so workers repeat partitions, and an odd relation |
| `lists4` | Are the lists free of repetitions, and do they implement the search over sets, liveness included? | 4 relations, each intermediate result in turn the cheap one |
| `plan4` | Does every join order come to a rel over all relations that performs every special join once, and to the left-deep one for inner joins? | 4 relations, five join types, at most one qual of at most two rels to a join |
| `quals3` | Still so with quals that delay one another, FROM lists and WHERE clauses? | 3 relations, two quals of up to three rels, one FROM list |
| `collapse4` | Do the joinlists nest into one tree over the relations, and can each be built? | 4 relations, both collapse limits 2, one FROM list |
| `results3` | Does the plan of every order return the rows of the query? | 3 relations, five join types, one qual to a join, with every meaning; a FROM list or WHERE clause in queries of inner and left joins (`FromJoinTypes`) |
| `contexts` | Is the PlannerInfo after an evaluation what it was before, with nothing in deleted memory? | 2 problems, 2 evaluations each, `HashThreshold` 1 (32 in the code) so that hash tables are built in every phase |
| `sinval` | Is no unread message overwritten, does a receive deal with all that was queued when it was entered, in order, does every call return, and is a catchup signal heeded? | a send-only process and a backend that does both, ring of 3 with wraparound after 3, message array of 2, batches of up to 2, 5 messages in all, calls nested two deep |
| `lwlock` | Mutual exclusion, no PANIC, no lost wakeup, none taken from other waits, no change of the variable slept through, every call returns? | 3 processes, 3 calls among them, two values, one wakeup from elsewhere |
| `bushy4`, `outerjoin5` | the findings below | |

Why the bounds are enough for what is asked: with four workers two pairs are constrained, so
three and four relations are the cases with too few pairs and an odd relation, and with
exactly enough. For more relations, which add unconstrained pairs, there are the theorems.
Two special joins that interact need three relations, and a join on either side of them a
fourth. A fault that needs three special joins *and* a FROM list is beyond these runs. In
`sinval` five messages go around the ring of three, past a wraparound, and a batch of two is
more than a quantum, so that the insertion loop lets the lock go in between; in `lwlock`
three processes are a holder, a waiter and one that comes in between. Both have theorems
without these bounds for all but liveness.

Fairness: `WF_vars(Next)` in the two search modules. The search is sequential code of one
backend that waits for nothing, so a step that can be taken is taken. Cancelling the query
is left out. In `SharedInvalidation` each backend's own steps and its response to a catchup
interrupt are weakly fair: a backend inside a routine goes on, and lightweight locks that
stay free are got. `LWLock` only has weak fairness of the system as a whole, since
lightweight locks promise no more: a process may be overtaken, but with finitely many calls
all return. The other modules state no fairness and no liveness property. Deadlock is not
checked because all of this really stops: when the rel is returned, when the query is
complete, when the last join problem is done, and when all messages or calls that the bounds
allow have been sent or made.

## Findings

In each of these a run shows the code doing other than a text of the repository says.

* `bushy4`: `src/README.md:156` says bushy plans are not evaluated. For `(a JOIN b) LEFT
  JOIN (c JOIN d)` `force_merge_clump` joins `{a,b}` to `{c,d}`.
* `outerjoin5`: `src/README.md:118` says that the optimal plan is found, as by enumerating
  all permutations. All orders of a subset that cannot be joined cost `DBL_MAX`, the table
  keeps one of them, and only that one is extended. For `(a LEFT JOIN (b JOIN c)) JOIN (d
  LEFT JOIN e)` the model, with sizes chosen for the purpose, returns a plan of cost 378
  where a permutation costs 306. What this amounts to with real estimates the model does not
  say. It also shows that `OptimalSubstructure`, from which optimality is proved, fails for
  outer joins.

Two observations that are not findings. `force_merge_clump` decides about gather paths by
comparing a number of base relations with a number of items
(`parallel/parallel_eval.c:181`), so with an item that is itself a join a lower rel passes
for the topmost, for which `path/allpaths.c:2760` says gather paths are not considered:
plans are missed, no result is wrong. And a catchup signal that arrives while its backend is
inside `ReceiveSharedInvalidMessages` is consumed by that call, which need not get to the
end of the queue; `CatchupHeeded` is therefore about signals that find their backend idle.

## Proofs

Each proof module states an inductive invariant `IInv`, proves `Invariance` (`Spec =>
[]IInv`) action by action, and draws the properties that the runs check from it.

**The search** (`ParallelJoinSearchProofs`, `LeftDeepOptimalityProofs`). For every number of
relations from two on, every set of queries and every cost function with natural numbers as
values (`LevelsAssumption`, `EvalAssumption`), and one, two or four workers
(`WorkersAssumption`; the only caller passes 4, and the partition of the space needs a power
of two): `TypeCorrect`, `NullSafe`, `EnumerationExact`, `TableCorrect`, `ResultCorrect`, and
the action property `SharedTreesFinal`. With `OptimalSubstructure` (a dearer way to join the
same relations never makes a later join cheaper): `TableOptimality`, `Optimality`, and
`Refinement`, that the initial states and steps are those of `OptimalPlanner`.

`NoNullDeref` alone is not inductive. `IInv` adds that every admissible subset is in the
worklist, being split, or in the table (`Worklist`), and that sizes in the table are at most
those still to come (`Splitting`). So when a subset is split by a relation that `valid`
allows, what remains is admissible and smaller, hence in the table; and an admissible subset
always has such a relation. For optimality `OInv` adds that finished subsets are at their
optimum, that no split tried beats the entry, and that no order of an earlier worker's
partition beats `best`. The last relation of an admissible order is a valid split, and
substructure carries the bound from the prefix to the order; every order respects the
constraints of some worker, so the bound on `best` covers all.

**The search over lists** (`ListJoinSearchProofs`). Under the same assumptions:
`NoRepetition`, that `join_res` never holds a subset twice nor an int list a relation twice;
`ListsRefineSets`, that the initial states and steps over lists are those of
`ParallelJoinSearch` over the sets they hold; and what this makes of the theorems about sets
for the lists of the code: `ListsNullSafe`, `ListsResult`, `ListsOptimal`. `NoRepetition` is
inductive only together with a bound on what is still to come: while `adm_join_results`
runs, its lists hold relations of the pairs it is done with, so the power set of the next
pair shares no relation with them (`IInv`). Then every list of a product determines the two
it was put together from (`GoodProduct`), and deleting a list from the worklist deletes its
set (`GoodWithout`). What the flattening in `cartesian_product` returns is proved by induction
on the number of lists (`GoodFlatten`).

**Deconstruction** (`QueryPlanningProofs`). For any number of relations, any join
types and quals, any nesting and any collapse limits (`JoinTypesAssumption`,
`BoundsAssumption`): `TypeCorrect`, `ScopesAreRespected`, `JoinlistsAreNested`. `IInv` adds
that trees of the forest share no rels (`TreesApart`) and that no special join reaches
beyond its tree (`JoinsWithin`): what `make_outerjoininfo` and `check_outerjoin_delay` add
to a minimum side or to a qual's relids then stays on its own side, although both go through
the whole `join_info_list`. `JoinlistsNest` speaks only of the finished query; `Nested` says
of the forest that the complete joinlists and those of the trees split disjoint sets of
rels, every item of a list being in exactly one. `Grown` shows it preserved by any way of
putting trees together, and one lemma for each way that `deconstruct_recurse` forms a
joinlist (FULL join, below and above the collapse limit, a FROM list item by item) that it
is such a way.

**Planning** (`ParallelEvalProofs`, `QueryPlanningProofs`). For any query as above, any join problem of it and any
join order over the problem (`NoRelAssumption` says that NULL is not a rel):
`RelsAreJoined`, `JoinsArePerformed`, `InnerJoinsLeftDeep` and `InnerOrdersBuild`. The
argument has three parts.

* `SidesInvariance`: in every state of deconstruction the sides of a special join are
  disjoint, and each item of a complete joinlist lies on one side of it, outside of it, or
  holds all of it (`SInv`, inductive together with the `IInv` of deconstruction). Without
  this an item could bring half of each side into a problem.
* `ConstructTree`: what `construct_rel_based_on_plan` returns is a tree of legal joins over
  the items of the order, and its relids are their union. The clump lists of
  `try_merge_clump` and of `force_merge_clump` are lists of such trees over disjoint sets
  of rels that together hold exactly the items dealt with (`Clumps`, `Keeps`). The
  recursive functions are shown to be well-defined first (`TryDef`, `ForceDef`,
  `ConstructDef`), then the lists by induction on the number of leaves.
* `ExactlyOne`: in a tree of legal joins over such items each special join that it covers is
  performed by exactly one join. No node reaches both sides of it without holding all that
  it waits for (`NotInPieces`), so the lowest join that reaches both performs it
  (`OuterPerformed`; a SEMI join, which a unique-ified right side may perform with fewer
  rels, has `SemiPerformed`). A second one would lie above, with an input that has the
  special join behind it already (`PerformedOnce`).

For queries of inner joins `join_is_legal` always says yes, and the tree can be computed:
`try_merge_clump` leaves the first k items joined and the others single, and
`force_merge_clump` joins these one after the other (`ConstructDeep`).

**Contexts** (`PlannerContextsProofs`). For any join problems that nest, any number of
evaluations and any threshold for the hash table (`ConstantsAssumption`,
`ProblemsAssumption`): `MemoryExists`, `LookupsAgree`, `Isolation`. `IInv` says that outside
an evaluation all that `root` reaches is in the planner's own context, and that within one
the first `savelength` cells of the list are those from before it and the others this
evaluation's own (`ListOK`), and that the saved hash table, which is not the one in use,
still holds exactly the former (`HashOK`). Truncating the list and putting the table back
thus restores the state from before, and deleting the context takes away nothing that is
still reached.

**Invalidation** (`SharedInvalidationProofs`). For any sizes of
the ring, the message array and the procState array, any thresholds and quanta that fit the
ring, any wraparound that is a multiple of the ring (`ConstantsAssumption`), any number of
messages and backends: `TypeCorrect`, `NoMessageLost`, `GuaranteeKept` and the action
property `AppliedInOrder`. `IInv` relates the counters and the ring (`Counters`, `Ring`,
with the entries a writer has filled and not yet published), says that a backend without
`hasMessages` has read all that was queued or is about to (`Told`), that what is left of the
static array comes next after what the backend has handled (`ArrayOK`, `PositionOK`), and
that each of the nested calls is on its way to its goal (`GoalOK`).

**Lightweight locks** (`LWLockProofs`). For any finite set of processes
smaller than the exclusive sentinel (`LWLockAssumption`), any number of calls, values and
wakeups from elsewhere: `TypeCorrect`, `ExclusiveAlone`, `QueuesOnce`,
`WakeupsAccountedFor`, `WakeupNotLost`, `ChangeNoticed`. `IInv` says that the word counts
the holders (`CountOK`), that a process is on one list at most and marked as waiting exactly
as long (`ListsOK`, `Waiting`), that the list's lock is one (`LockOK`), that those who do
not wait for the lock are in front (`FrontOK`), that whoever finds wakeups suppressed can
count on someone to allow them again (`ReleaseOK`), and that when the lock is free and
someone sleeps, someone else is about to wake others up or to retry (`SleepOK`).

The inductive invariants were first checked with TLC as invariants of the runs' instances.

Only model-checked, and why:

* `Terminates`, `CallsReturn`, `CatchupHeeded` and the fairness part of the refinements:
  liveness is out of the prover's reach.
* `EveryOrderBuilds` for queries with special joins (`InnerOrdersBuild` is about the
  others). `force_merge_clump` is greedy and never undoes a join, and the code has a case for
  orders it cannot build: there is no argument from `join_is_legal` alone that the clumps
  left over can always be joined, and the runs say so only for up to four relations.
* `PlansEquivalent`: the rows of a query and of a plan are recursive over the two trees, and
  their equality takes the algebra of outer joins, by induction over data.
* The liveness part of `ImplementsSearch`. `ListsRefineSets` proves the safety part.

## Not modelled

* `mark_dummy_rel` on a base rel (`path/joinrels.c:805`) outlives the evaluation it happens
  in, so costs before and after it differ. Quals without relations, which this needs, are
  left out.
* The width of bitmaps and the size of the table (`parallel/parallel_worker.c:250`).
* `p_type` other than 2, which leaves `constr` and `join_res` unset: no caller passes it.
* LATERAL references, PlaceHolderVars, security levels, transitive closure of equivalence
  classes, partitionwise joins, parameterized paths.
* `standard_join_search`, which nothing calls here, and the genetic optimizer.
* Cost and selectivity estimates: inputs of the model.
* The rest of PostgreSQL; `PROJECT.json` gives the reason for each part.

## Plan

Done, in this order, the most important first: the search and its proofs; lists and their
refinement; evaluation and legality; deconstruction; their composition; results; contexts;
invalidation and lightweight locks; proofs about contexts, deconstruction, the queue and the
lock, about the lists, and about the rels that join orders come to.

To come:

1. constant-false quals and `mark_dummy_rel`, so that evaluations affect one another;
2. the shifts and the table size at their limits;
3. equivalence classes; LATERAL references and PlaceHolderVars in `JoinLegality`;
4. databases with several rows and bags of rows in `QueryResults`;
5. the genetic optimizer's clump merging, and `standard_join_search` as a reference to
   compare costs with;
6. the lock manager, whose waits share the semaphores with `LWLock`.
