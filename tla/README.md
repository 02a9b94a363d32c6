# Models of maia

maia manipulates CGNS meshes in parallel. A mesh is a tree. Between files and solvers it
exists in three forms: a *full* tree (one process has all of it), a *distributed* tree (every
process has the whole hierarchy, and of each array the block that a distribution gives it)
and a *partitioned* tree (every process has meshes of its own, linked by joins and global
numbers). Most of the code is SPMD Python: all the processes of a communicator go through the
same calls and meet in collective exchanges. A smaller part is really concurrent (the
schedulers of the parallel tests) or is sequential search code (the load balancing).

This directory has TLA+ modules for the parts listed below, TLC configurations, and proofs
for TLAPS. `PROJECT.json` maps every definition to the lines it models.

## Inventory

| Part | State | Operations | Interacts with | What is hard | Correct when |
|---|---|---|---|---|---|
| One-sided test scheduler (`utils/parallel/mpi_scheduler_old.cpp`) | count window, list window, window locks, position of each rank | claim a place, poll, read the list, create the group, run | MPI windows, `MPI_Comm_create_group` | interleaving of Get and Put, nested locks, polling against claiming, uninitialized windows | members agree on their group, every test that fits is run by exactly its team, all ranks leave |
| Message passing test scheduler (`mpi_scheduler.cpp`) | ready ranks, pending receptions of the coordinator | dispatch, answer, stop | MPI messages | order of the messages of ranks that become ready | as above |
| Distributions (`utils/parallel/utils.py`, `py_utils.py`, `io/distribution_tree.py`) | none (functions) | uniform, gathering, conversions | used by everything distributed | remainders, empty ranks, two ranks | blocks follow each other and cover the array |
| Block to block exchange (`transfer/_protocols/block_to_block.py`) | messages under way, received strides | create, exchange | distributions, `Alltoallv` | counts computed on both sides, two `Alltoallv` in a row | each rank gets its block, in order, nothing is left |
| Life of a distributed tree (`io/cgns_io_tree.py`, `algo/dist/redistribute.py`, `factory/full_to_dist.py`, `factory/dist_to_full.py`) | file, full tree, distributed tree | read, write, redistribute, scatter, gather | all of the above, HDF filters | every kind of node needs the right distribution, before or after it is replaced | the mesh is the same after any sequence |
| HDF filters (`io/hdf`), file corrections (`io/fix_tree.py`) | file | select, correct | life of a tree | decisions taken rank by rank | see above |
| Load balancing (`factory/partitioning/load_balancing`, `utils/ndarray/subset_sum.pybind.cpp`) | loads, repartition, tolerance | match, fill, cut, restart; give and share ranks; merge bins | partitioning | bounds on ranks, restarts, updates at two places | no cell lost, loads agree, it ends |
| Partitioning of structured zones (`partitioning/split_S`, `utils/numbering`) | boxes, boundaries, joins, global numbers | recursive cuts, split of boundaries and joins, numbering | load balancing | boundaries of cuts, joins cut from both sides apart, numbering of faces | the boxes tile the block, joins are symmetric, shared entities have one number |
| Partitioning of unstructured zones (`partitioning/split_U`, `post_split.py`) | part zones, internal joins | call of ParaDiGM, rebuilding of joins and subsets | ParaDiGM | ordering of joins over ranks, donors found by name | both sides of a join agree |
| Transfers (`transfer/part_to_dist`, `transfer/dist_to_part`, `factory/dist_from_part.py`) | global numbers, fields | exchanges, recovery of the tree | global numbers | entities held by several parts, containers some parts lack, names of pieces | round trips keep the values, the recovered tree is the one that was split |
| Distributed algorithms (`utils/parallel/algo.py`, `algo/dist/merge_ids.py`, `remove_element.py`, `concat_nodes.py`) | block arrays | sort, renumber, merge ids, remove | exchanges | empty ranks, renumbering of subsets | a permutation, consistent ids |
| Distributed mesh operations (`algo/dist/merge.py`, `merge_jn.py`, `conformize_jn.py`, `duplicate.py`, `s_to_u.py`) | distributed tree | merge, duplicate, convert | distributed algorithms | order of joins, donors renamed in two places | joins stay symmetric |
| Partitioned mesh operations (`algo/part`) | part trees | extract, isosurface, localize, interpolate | ParaDiGM | geometry done outside the repository | |
| Nodes and walkers (`pytree/node`, `pytree/walk`, `path_utils.py`) | a tree, a walker with a cache | create, edit, remove, search | everything | edits that fail half way, cached answers, eight iterators of the same search | a search finds what its settings say, edits do what they say |
| Traversal and comparison (`pytree/graph`, `pytree/compare.py`) | a stack, calls of a visitor | traverse, build, compare | tree library | traversals that are stopped, order of children | the calls of the recursive definition, exactly the differences |
| SIDS queries and presets (`pytree/sids`, `node/presets.py`, `walk/generate.py`) | a tree | presets, extents, locations, counts, groups of zones | everything | presets that fail half way, subsets described in several ways | every subset found once and read as given |
| Generators, C++ conversions of elements, logging, former C++ code | | | | | |

The hazards, each at its line and with the properties that would show it going wrong, are in
`PROJECT.json`.

## Modules

### The one-sided scheduler: `SchedulerParameters`, `TestTeams`, `RmaScheduler`

`run_scheduler_old` has every rank walk the suite in order. For each test that fits in the
communicator a rank tries to take a place: it locks the count window in exclusive mode, gets
the count, and if a place is left puts the count plus one, then, still under that lock, locks
the list window and writes its number. A rank that got a place polls the count under a shared
lock until the test is complete, reads the list, builds the group and creates the
communicator. `RmaScheduler` has one action per one-sided call or lock, so that all the
interleavings of Gets, Puts and locks are there. `count` and `list` are the windows, `countX`,
`countS` and `listX` the ranks that hold the locks, `remote` the local copy of the count,
`group` the local copy of the list. `LeaveCreateGroup` and `LeaveWinFree` model the collective
calls of MPI: they return when all the members have entered.

`TestTeams` is the abstract specification: rosters of distinct ranks, filled one by one, and
only complete rosters run. `RmaScheduler` implements it, the roster of a test being the
written part of its list (`Written`, `RosterOf`).

`MPI_Win_allocate` does not initialize the windows (lines 101 and 112), and the loops that wrote
zeros in them are commented out (lines 55 and 81), although the comment of line 150 still counts
on them. So the windows start with any content: `FreshCounts` and `FreshLists` are what the
allocator may leave, and the history variable `start` keeps the counts found. Only counts below
zero are left out (`FreshAssumption`): with one the rank is written among the places of an
earlier test. What the code then does with a test: found complete, or beyond, it is passed over
by all ranks without a word; found partly taken, its claimants read a list with places that
nobody wrote, which `MPI_Group_incl` refuses when they name no rank or one rank twice
(`mpi_error`), or for which `MPI_Comm_create_group` waits for ever. Zero filled windows are the
case `start = 0` of every property.

The run `rma_scheduler` has 3 ranks, 4 tests asking for 2, 4, 3 and 1 ranks, four contents of
the count window (zeros, a test found complete, counts beyond the test, a place lost) and two of
the list window. It checks `GroupAgreement` (two members of a test hold the same list, in which
the places taken since the start name distinct ranks), `AssertionHolds` (the assertion of the
code on its own place), `TestsStaffed` (a count grows by the number of its claimants, and at the
end each test that fits and started from zero was run by exactly its team, and any other by
nobody), `CompleteListFrozen`, `ImplementsTeams` and `Termination`. The ranks may stop in front
of a test that has lost a place, hence no check of deadlock; where no place is lost
`Termination` includes it.

Three ranks are the least for which a rank is refused while two others are between claim and
group, and for which two ranks poll while a third asks for the exclusive lock; the tests are
such that a rank waits in the third one for ranks that are busy in the first.

Fairness: each rank keeps running (weak fairness), and nothing else. In particular nothing is
assumed of the window lock. Pollers take and release the shared lock without end (lines 185 to
208), two of them can overlap so that it is never free, and neither MPI nor the code promises
that the exclusive request of a third rank is served: `<>Finished` alone is violated by that
livelock, also under strong fairness of the request. `Termination` says that this is the only
way not to end: all the ranks leave, or some rank asks for the exclusive lock for ever.

### Distributions and exchanges: `Distribution`, `BlockToBlock`

`Distribution` has the functions of `utils/parallel/utils.py`, the policies of
`interpret_policy`, the expansion of partial distributions by `auto_expand_distri` (on two
ranks, where both forms have three entries, from rank 0) and the arithmetic of
`BlockToBlock`. `BlockToBlock` is the exchange itself, rank by rank: each `Alltoallv` is a
post and a reception, and a rank may post the second one before another has finished the
first. The run `block_to_block` checks `ExchangeExact` (counts fit, each rank gets its block
in order, nothing stays in the channels) and `Completion`: 3 ranks, every pair of distributions of up to 3 entries, constant
strides and all variable strides up to 2; empty ranks at every place occur. Weak fairness of
each rank. `Completion` is broken by a rank that leaves out the second `Alltoallv` when it has
nothing to receive in it.

### Life of a distributed tree: `DistTree`

The operations are collective and call no other process than through the exchange, so each is
one action, and the exchange is the function `block_to_block` of `Distribution`, which
`BlockToBlock` shows to be what the ranks compute. A zone has coordinates, an element section
(polygonal or standard), a solution, discrete data, a subregion, a boundary condition with a
dataset, and a join; each may have a `PointList`, a `PointRange`, or the extent of another
node. The state is the file, the full tree, and the distributed tree: its distributions and
its arrays. An array is the sequence of the places its entries had in the mesh, so that
moving, losing or repeating an entry shows. A write is done by the ranks in any order, since
two ranks write the offset they share. A file may number the parent cells from one: the read
corrects it rank by rank (`ensure_PE_global_indexing`). An exception sets `tree.ok` to FALSE
and ends the life of the tree.

The run `dist_tree` has 3 ranks and 230 initial states: zones with sizes 0 to 3, read from a
file in either indexing of the parents or cut from a full tree that one process, or (for the
zones in `Copied`) all of them, have. `NoException`, `DistributionsHold` (every distribution
tiles its array, and offsets bound the connectivity of their rank), `BlocksHold` (each rank
has its block of each array) and `MeshKept` (what is written or gathered is the mesh first
read) hold after any sequence of operations.

The sizes are enough because the arithmetic only distinguishes empty ranks, ranks with one
entry and ranks with more, and the bounds between them. The state space is finite without any
bound on the number of operations.

The zones considered (`ZonesAssumption`) leave out the cases the code does not handle: a structured zone of
dimension 2 (`redistribute.py:145` reads a `Face` distribution that only zones of dimension 3
have); a subregion related to a BC with a `PointList` in a tree that all processes have
(`full_to_dist.py:151` cuts it by the distribution of the BC, which has already been cut); a
`DiscreteData_t` with a `PointList`, whose distribution `clean_distribution_info` does not
remove, and a `FlowSolution_t` with a `PointRange`, which `redistribute_zone` exchanges with
the distribution of all the cells. The distribution of the connectivity of standard elements
that `full_to_dist.py:82` adds is not renewed by a redistribution; nothing reads it, and no
property is about it.

### Load balancing: `LoadBalancing` and the modules it composes

`LoadBalancing` is `setup_partition_weights.py`: the call of one of its functions, the method
it runs, and the weights each rank returns. It composes, over shared variables,

- `BalanceNonUniform`, `balance_with_non_uniform_weights`: `Match` and `NoMatch` are step 0,
  `Fill`, `NextProc` and `EndFill` step 1, the `Treat` actions the cases of step 2 in their
  order, `Converge` the test that starts a new round;
- `BalanceUniform`, `balance_with_uniform_weights`: `GiveRanks` and `Share` are the nested
  loops over zones, `TakeRemain`, `AddToLeast` and `CutMore` the three loops that follow;
- `NoSplit`, `compute_nosplit_weights` with the largest differencing method.

`SubsetSum` has the search of zones that add up to a sum, as functions, which
`BalanceNonUniform` uses; `SubsetSearch` is the loop of that search step by step, and is
shown to compute the function. Values computed in floating point are exact in the models;
where the code could round an exact tie or an exact integer differently, the model allows
both outcomes (`Means`, `AddToLeast`). Exceptions end in `pc = "raised"`.

| Run | Bounds | Shows |
|---|---|---|
| `subset_search` | arrays of up to 5 entries up to 5 | what is found is right, the search ends |
| `subset_search_misses` | 3 entries up to 3 | violation: an existing subset is not found |
| `load_balancing` | 3 ranks; 1 to 5 zones, sizes up to 30, 24, 14, 9 and 4; 0 to 2 parts per rank | `RepartConserved` and `LoadsAgree` (no cell lost, the loads are those of the repartition), `WeightsComplete` (the weights of the ranks add up, no rank is idle), `BinsBalanced`, `Termination` |

With these sizes all the cases of all the steps occur, restarts with up to twenty percent of
tolerance included. Exceptions are part of the model and of the run: four zones of 2 cells
on three ranks make the current rank run past the last one (line 284), zones of 4 and 6 cells on two ranks ask for the least loaded of no
rank (line 327), and with uniform weights zones of 6 and 1 cells on three ranks (line 134) or
20, 7, 1 and 1 on five (line 106) are given a rank that does not exist. The differencing
method does not minimize the largest load, as its documentation says (4, 5, 6, 7 and 8 on two
ranks give 16 and not 15); `BinsBalanced` is what it does guarantee.

These algorithms are sequential; weak fairness of the next step only says that the function
goes on.

### Structured partitioning: `StructuredIndex`, `CutTree`, `PartZoneS`

`StructuredIndex` has the numberings of cells, faces and vertices, the windows and their
transforms, and the slabs of an interval of cells (`utils/numbering`). `CutTree` is the
balancing cut tree and the boxes it cuts a block in. `PartZoneS` is the partitioning of a
tree of structured zones: `part_s_zone` cuts a zone (its boundaries, the joins between its
parts and the global numbers with it), `split_original_joins_S` cuts the joins of the tree
from the gathered windows of the opposite zones, then donors are named and subregions
follow. The ranks go through these steps together and only exchange by gathers, so each step
is one action.

Run `part_zone_s`: 234 trees of one or two joined zones of one to three dimensions, two ranks
with none to two parts each, all transforms between lines and planes, three between boxes,
joins that cover the opposite side or a part of it, a zone joined to itself.

- `CutsTile`: the parts tile each zone; the slabs of every interval list its cells in order;
- `SubsetsKept`: each face under a boundary is under exactly one piece of it, and data sets
  keep the numbers of their faces;
- `JoinsExact`: every two neighbouring cells of different parts are joined, and each join has
  one opposite with the inverse transform, describing the same vertices of the zones;
- `NumberingsAgree`: entities are numbered once each, alike on all the parts that share them.

Where the code raises the definitions have no value, and TLC would stop: a window that is not
constant in exactly one direction (`normal_axis`), a join whose donor no part has
(`ori_jn_to_pr_glob`). Neither is reached.

The weights are chosen so that cuts fall between planes and on them, and one rank may have no
part or two; a part without cells, which `CutTree` can make when there are more parts than
cells in a direction, is excepted in the properties on subsets and numbers (`NoEmptyPart`).

### Unstructured partitioning and transfers: `PartMesh`, `PartTransfer`

`PartMesh` builds the part zones around the result of ParaDiGM, which gives the cells to
parts in any way: `part_U_zones` renumbers, makes sections and joins between parts, then
`Partition` is `post_partitioning`: it puts subsets on parts, splits joins, finds donors
(`get_pl_donor`), names them and copies related subregions. `PartTransfer` then sends the
fields of the chosen labels to the parts, lets a solver change every value, add fields and a
subregion of its own, sends the fields back, and rebuilds the distributed tree from the parts
alone (`recover_dist_tree`). A value carries the entity it belongs to, so that a value at the
wrong place shows. A name is a sequence of words, so that suffixes and beginnings of names
are what they are in the code.

Run `part_transfer`: four meshes of two cells per zone (polyhedra in two zones joined by faces
and by vertices; standard elements, cells first or cells last, in a zone joined to itself; a
join that does not match), three parts on two ranks, all ways to give the cells to them, both
values of `preserve_orientation`, all orders of transfers (18 724 states).

- `SubsetsOnParts`, `JoinsPaired`: each part has exactly its share of each subset, under its
  numbers in it; the pieces of two opposite joins mirror each other entity by entity;
- `FieldsSent`, `FieldsReturned`: every value is with its entity, and no field is missing;
- `TreeRecovered`: sections, ranges, faces, boundaries, joins and fields are those of the tree
  that was split;
- `FailsOnlyAsKnown`: nothing raises, except that a tree with a join that is not 1to1 cannot
  be recovered (`dist_from_part.py:230`), and that subregions or data sets cannot be returned
  if they were never sent. When no part at all has such a node nothing raises: the exchange has
  no part (`part_to_dist/data_exchange.py:209` and 262) and empties the fields of the distributed
  tree, which `FieldsReturned` excepts.

Run `subregion_name_prefix` (violation): see the findings. A session may stop after any
transfer, hence no check of deadlock here.

Two cells are the least with an internal face, a boundary and a join on both sides of every
cut; three slots give a rank with two parts, ranks without any, and parts without an entity
of a subset. No mesh has two joins of which one name begins with the other (J1 and J10): the
code finds pieces by the beginning of their name (`dist_to_part/data_exchange.py:205`,
`part_to_dist/data_exchange.py:188`) and mixes them. Known limits that the properties except:
fields that the solver adds to the pieces of an existing subregion of a join are lost
(`part_to_dist/data_exchange.py:52`, while `doc/user_manual/transfer.rst:22` announces new
fields); a `DiscreteData_t` with a `PointList` is not made on the parts
(`post_split.py:250`); with `preserve_orientation=False` the recovered signs of cells and
parents of faces disagree (`part_to_dist/index_exchange.py:491`).

### Traversal and comparison: `GraphTraversal`, `TreeCompare`

`GraphTraversal` is the iterative depth-first traversal with its stack of siblings, one action
per turn of its loop, under visitors that go on, prune or stop at any node, and the builders
that make nested trees and adjacency lists along it. `TreeCompare` runs it over two trees at
once with the visitors of `is_same_tree` and `diff_tree`. The constants are graphs whose edges
lead to nodes (`DagsAssumption`; cycles are not excluded) and trees whose children are nodes with
distinct names among siblings (`PairsAssumption`). The sort by name of the children is given by
its result, the only sequence of these children in increasing order of their names.

Run `tree_compare`: 640 acyclic graphs of four nodes under every sequence of answers; 1200
pairs of trees, ten settings. `CallsOfRecursion`: the calls are those of the recursive
definition for the same answers, stopped or not. `BuildersExact`: what is built is the tree
of the nodes entered. `ComparisonsExact`: the reports are exactly the differences, each once.
Vectors have all their components on both sides: the code accepts differing Y and Z components
of a vector that has no X. Left out: the tensors of nine components (`compare_arrays.py:182`), and
what several ranks compare together, where all have the answer and rank 0 alone the text of a
report (line 22). A value is one number, so two values of different shapes do not occur;
`np.allclose` broadcasts them (`compare.py:109`), while the docstring above it asks for the same
length.

### Nodes and walkers: `NodeWalk`, `TreeEdit`

`NodeWalk` has the searches as the code has them: one recursive or queue-based definition for
each family of iterators, the predicates, removals and paths. `TreeEdit` has the edits, each
with its failures, and a walker that is kept, reconfigured by its setters and called again.

Run `tree_edit`: every sequence of edits of trees of up to four nodes with two names and two
labels, valid and invalid; the kept walker has two trees of five nodes. `WalksExact` compares
the 96 settings of a search with what they mean; `CacheFresh`: a walker answers what a new one
would; `EditsExact`: paths lead to one node, removals take what they say and no more;
`FailuresKeepChildren`: an edit that raises never replaces some of the children. Four nodes
give chains, siblings and cousins with equal names.

What the code does and the definitions keep: `rm_node_from_path('a/b')` removes every node named b below a; `update_child` leaves the child
it created when a later change fails; the setters of depths never refuse a range; `set_name`
does not look at the siblings, so the run only renames where no sibling has the name.

### SIDS nodes: `SidsPresets`, `SidsAccess`, `SidsNodes`

`SidsPresets` has the presets, with assertions that fail when the node is already attached;
`SidsAccess` what is read: labels of parents, locations, patches, extents, counts of
structured zones, ranges of elements, connected zones, periodic joins, searches of subsets.
`SidsNodes` makes trees by any sequence of presets.

Run `sids_nodes`: joins between four zones of two bases, three sections of up to four
elements, two subsets of any kind, structured zones of every dimension.
`SubsetsExact`: the subsets are found once each and read as given, also after presets that
raised; `JoinsGrouped`: the groups of zones and of periodic joins are those the joins connect;
`ZonesCounted`: counts and ranges of elements are right, or the order of dimensions is refused.
A tree is built as far as its author wants: no check of deadlock. Two arrays of a periodicity are
close relatively to the second one, as in `np.allclose` (`Tolerance` is the inverse of rtol; with 2,
the small integers of the run have close and distant pairs, in one order and not in the other).
What a preset that raised half way leaves attached may be read as it stands (`PatchesRead`).


## Where the code and its documentation disagree

Two disagreements are runs that TLC refutes, with their findings in `PROJECT.json`. In the cases
below the definitions do what the code does, and the properties say nothing, so that none of them
states as right what a document, a docstring or a test calls otherwise:

- A shallow search in depth first order that starts on a node that matches yields it and goes on
  below (`GoesOnBelow`). `doc/maia_pytree/search.rst:183`, `walkers_api.py:64` and
  `nodes_walker.py:33` say that the children of a match are not explored; `test_nodes_walker.py:75`
  has a TODO about it. Everywhere else `WalksExact` asks for what the documents say.
- `iter_all_subsets` does not yield a `GridConnectivity1to1_t` (`generate.py:191` and 200 say all
  the subsets, and the class `Subset` reads them, `node_inspect.py:781`), and it does not accept as
  root every label that the docstring names. `SubsetsFound` is about the other subsets and roots.
- `find_connected_zones` passes over every join that has a `GridConnectivityProperty_t`
  (`node_inspect.py:62`); its docstring (line 36) leaves out periodic joins only. `JoinsGrouped` asks
  for separate zones only where every property is periodic.
- `elt_ordering_by_dim` compares the dimensions of the first and the last section
  (`node_inspect.py:524`), while its docstring (line 508) announces 0 when they are not sorted.
  `ElementRangesExact` is about the order when they are sorted one way or the other, or interlaced.
- `recover_dist_tree` fails on a join that is not 1to1 (`conventions.py:26`, reached from
  `dist_from_part.py:230`), while `dist_from_part.py:279` lists `ZoneGridConnectivity` as managed.
  `FailsOnlyAsKnown` allows this failure by name.
- The windows of the one-sided scheduler are not zeroed, see above.

## Proofs

`RmaScheduler_proofs` proves, for every number of ranks, every suite, every number of ranks per
test and whatever the windows held when they were allocated (counts not below zero,
`FreshAssumption`):

- `TypeCorrect`, `GroupsAgree`, `AssertionNeverFails`, `TestsAreStaffed`: the invariants of
  the run;
- `ListsFreeze`: the action property `CompleteListFrozen`;
- `SchedulerImplementsTeams`: the refinement of `TestTeams`.

`GroupAgreement` is not inductive: that the copies of two members are equal depends on the
list being complete and frozen when each is read, which depends on the nesting of the locks.
The inductive invariant `IndInv` has, besides `TypeOK`: `Exclusion` (locations tell the locks
held, and locks exclude), `Claiming` (the copy of the holder is up to date until it has
written), `CountBound`, `Listing`, `Distinct` and `Listed` (the written places name distinct
ranks that have a place, and all of them), `Past` (a rank that ran a test is beyond it),
`Frozen` (a test seen complete has no place still to be written), `GroupIsList`, `Fits`,
`AssertionHolds`, and for windows that were not zero `Joining` (only ranks with a place join the
collective), `Creating` (with a group MPI accepts) and `Whole` (a test that has lost a place is
never run). `Whole` is a count: a test that is run has as many distinct members in its group as
it asks for, all of them joined, so claimants, and each claimant has a place above the initial
count; so that count was zero (`WholeGroup`). The refinement takes from it that a claim appends to the roster, that the
claimant is on no other unfinished roster, and that only complete rosters run. For
`TestsStaffed`, `Behind` adds what the ranks leave behind them: a test that a rank has passed
is complete or does not fit, a refused rank was refused by a complete test, and at the end
every claimant has run; the claims are counted by mapping the written places one to one to
the ranks that hold them.

`InductionFacts` has the induction that the other modules need. The induction theorems of the
library take a predicate as a parameter; here induction is stated over *sets* of naturals
(`LeastNat`, `IntervalInduction`), and the existence of a function defined by steps over an
interval is proved once (`RecursionExists`), then used for sums and for the concatenation of
blocks. The facts about sums over sets that the balancing needs (`SumImage`, `SumWithin`), and
the two theorems about the subset search (below), are there too.

`Distribution_proofs` proves for every size and number of ranks that uniform and gathering
distributions, and so all the policies, tile the array (`UniformTiles`, `GatheringTiles`,
`PoliciesTile`), that a uniform distribution is balanced to one entry (`UniformIsBalanced`),
that the counts computed by the two sides of an exchange agree (`CountsAgree`), and that on
two ranks, where `auto_expand_distri` takes a partial distribution for a full one, the bounds
it broadcasts are those of both blocks (`TwoRanksExpand`). `BlockToBlockExact` is the result
the rest relies on: for every array and every two distributions of it, `block_to_block` gives
each rank the block of the second one. The displacements of an `Alltoallv` are sums of the
counts, and these sums are the places where the bounds of one distribution cut the blocks of
the other (`CutAt`): so each message is an interval of the global array, and the intervals
that a rank receives follow each other.

`BlockToBlock_proofs` proves `ExchangeIsExact` (the invariant `ExchangeExact`) for every
number of ranks, all distributions and all strides, message by message. The inductive
invariant `ExchangeInv` says where the ranks can be relative to each other (`Handshake`: an
`Alltoallv` returns on a rank only after all the ranks have posted it), what each channel
holds as a function of the places of its two ends (`Channels`: strides before data, each
message the interval of the global array that both sides count), and that strides and data
received are the blocks of the second distribution.

`DistTree_proofs` proves the four invariants of the run `dist_tree` (`NeverRaises`,
`DistributionsAlwaysHold`, `BlocksAlwaysHold`, `MeshAlwaysKept`) for every number of ranks and
every set of zones that satisfies `ZonesAssumption`, that is all the zones of the modelled
form outside the cases listed above as not handled (`Supported`, `SupportedCopies`), whatever
their sizes. The inductive invariant `LifeInv` determines the tree from its distributions: the
tree is the one that its distributions cut from the mesh, it has the distributions of the
zone, each of them tiles its array, the bounds of the connectivity are the offsets of the
elements that the rank has; and the file and the full tree hold the mesh. Each operation is
shown to give such a tree: `ZoneMoves` follows `redistribute_zone` container by container,
between the old and the new distributions, with `BlockToBlockExact` for each exchange and,
for the offsets, the search of the next rank having elements; `LoadGood` reads (either
indexing of the parent cells), `BroadcastGood` and `CopiesGood` cut, `WriteIsContent` shows that
what the slabs write does not depend on the order of the writers.

`PositionsHaveSum` and `MatchHasSum` (in `InductionFacts`): what `subset_sum_positions` and
`search_subset_match` return has the sum they were asked for, for arrays of any length and in any
order. `SubsetSearch_proofs` proves `SearchAlwaysExact` (the invariant `SearchExact`): the
loops return exactly what the function is said to return. The invariant `SearchInv` has the
order of the chosen positions, the running sum as the sum of their entries, also after the
retreats that subtract, and that the answer of the search from the present place is the
answer of the whole search.

`LoadBalancing_proofs` proves the four invariants of the run `load_balancing`
(`RepartAlwaysConserved`, `LoadsAlwaysAgree`, `BinsAlwaysBalanced`, `WeightsAlwaysComplete`) for
all zones, any number of ranks and, for `npart_per_zone`, of parts. The inductive invariant
`BalanceInv` has one part per function:

- `NonUniformInv`: what is given of a zone and what is left of it make it up; steps 0 and 1
  stay within the mean; a rank not reached has no load; when the loops are over nothing is
  left. `Match` gives what the subset search found, so it takes from `MatchHasSum` that the
  rank, on which nothing was before, gets the mean (one cell less when `k = 1`) and no more.
- `UniformInv` and `RanksInv`: the ranks below `cur_rank` all have zones, which holds because a
  zone is left without ranks only if it is below the mean, so that each of the next ranks
  takes at least one; and every rank named by a zone exists when the loads are computed. With
  more ranks than cells the mean is zero, and the zones without cells only use ranks that exist.
- `NoSplitInv`: a zone is in one bin of one item (`Apart`), the bins of an item are sorted by
  weight, and the key of an item, the difference of its bins, is at most the largest zone,
  which is why the bins are joined in reverse order (`MergedIs`). No rank is idle because no
  bin has two zones until some item has a zone in every bin (`Spread`).
- `Weighed`: what is returned has the parts that were computed. The parts of
  `homogeneous_repart` are summed by a closed form of the first ones (`FirstParts`,
  `PartsAddUp`), so that the remainder of the division is neither lost nor given twice.

`TreeCompare_proofs` proves `CallsOfRecursion` and `BuildersExact` for every graph that satisfies
`DagsAssumption`, every pair of trees that satisfies `PairsAssumption` and every visitor, whatever
it answers and wherever it stops.

- The recursive definition exists: `Visit` is a recursive function over places (next answer,
  siblings, ancestors), and each node entered uses an answer (`VisitExists`, `VisitFacts`).
- `TraversalInv` is about every continuation of the answers given so far. Let the *rest* be what
  the recursion does from the top of the stack on; closing the levels of the stack one by one
  over it (`Tower`, `Closing`) gives the traversal from the roots. A call of pre opens a level of the
  tower, post closes one, and a stop leaves a tower whose rest is empty, which `unwind` closes.
  This is why both ends of the loop, and a stop at any depth, give the same calls.
- `ListsInv`: the levels of lists are those of the levels of trees, and the entries of each level
  are numbered after those of the levels below. So the counter shared by the whole build is where
  the list of the node that is closed ends (`RowCtor`, `CtorMakesList`), which is why the numbers
  of parents, given by that counter, and those of children, given by their place in the lists
  joined, agree in the list of a single root.
- `ZipIsGraph`: the pairs that `pytree_zip_adaptor` makes of the children of two nodes are pairs of
  nodes, so that the comparisons are traversals of a graph.
- `SameTreeAlwaysExact` (the first half of `ComparisonsExact`, for all trees): the merge of two
  sorted sequences pairs the entries of the same name and no others (`MergePairs`,
  `GraphZipped`), so two nodes that are the same are equal exactly if all the pairs of their children are
  (`EqualDown`). `SameInv`: as long as no difference is met, the trees are equal if the siblings
  left on the stack are (`Awaited`), and if the trees are equal all that is left is (`AllIn`).
  The recursive definition of equality has a solution without any induction over the trees: the
  union of the sets of pairs that contain the pairs of children of their pairs (`InClosedFixed`).

Only model-checked: all the liveness properties and what they assume of fairness (`Termination`,
`Completion`); what `diff_tree` reports (`DiffExact`, the second half of `ComparisonsExact`); the structured partitioning,
the walkers and edits and the queries of SIDS nodes, whose cuts and searches are RECURSIVE operators, which the
prover does not accept; unstructured partitioning and transfers.

## What is not modelled

- NFace sections read from files and the corrections of their signs (`fix_tree.py:199` judges
  them rank by rank); the NGon and NFace conversions of `algo/indexing.py`; the hyperslabs of
  structured zones; the yaml reader; the sequential `read_tree` and `write_tree`; the limit on
  the iterations and on the memory of the subset search.
- In partitioning and transfers: coordinates, standard elements split as polyhedra, structured
  and hybrid joins in transfers, plane zones, filters by name, reductions of values held
  several times, iterative data.
- A subset given by a `PointRange` in an unstructured zone is one whose `PointList` is contiguous
  (`dist_to_part/index_exchange.py:37`).
- In the tree library: conversion of values, arrays of several dimensions, families, names of
  quantities, the readers of connectivities.
- ParaDiGM and MPI are outside the repository: they are modelled by what the code relies on.
- Message passing scheduler, distributed algorithms and mesh operations: planned below.
- Geometry (isosurfaces, wall distance, localization), generators, C++ conversions of elements,
  logging: calls of ParaDiGM, array code over element connectivities, or no state.

## Plan

1. Done: scheduler and its abstract specification, distributions, exchange, life of a
   distributed tree, load balancing, structured and unstructured partitioning, transfers and
   recovery, tree library; proofs about the scheduler, the distributions, the exchange, the
   life of a distributed tree, the subset search, the load balancing and the traversal of graphs.
2. Distributed algorithms: distributed sort and numbering (`algo.py`), `merge_ids`,
   `remove_element`, `concat_nodes`, over `Distribution`.
3. Merge of zones and joins, `conformize_jn`, `duplicate`; NGon and NFace sections with the
   rest of `fix_tree`.
4. The message passing scheduler, shown to implement the same `TestTeams`.
5. Theorems: the reports of `diff_tree` are exact (`DiffExact`), over the pairing of the
   children; the message passing scheduler implements `TestTeams`; the cuts of structured zones
   tile them (`CutsTile`), with `CutTree` written without RECURSIVE operators.
