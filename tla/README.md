# Akantu: a TLA+ model of its parallel core

Akantu is a parallel finite element library. What it computes is numerical and
is left to its tests; what is hard to test is how its MPI ranks agree: who
sends what to whom, when a message may be reused, when a rank may go on. This
directory models that part, and what a rank keeps from one solve step to the
next, checks it with TLC and proves parts of it with TLAPS. Paths below are
relative to the repository's `src/`.

## The system

A mesh is partitioned over the ranks of a communicator. Each rank holds its own
elements and nodes and *ghosts*, copies of entities that other ranks own. All
ranks run the same program (SPMD); they meet in the synchronizers.

| component | state it keeps | operations | interacts through |
|---|---|---|---|
| `synchronizer/communicator*` | MPI communicator | send, receive, probe, test, wait, collectives, `receiveAnyNumber` | MPI messages and requests |
| `synchronizer/communications*`, `communication_descriptor*`, `communication_request.hh` | per rank pair: schemes (entities to send, to receive); per synchronization tag: buffers, sizes, requests, a message counter, pending counters | create and reset schemes, set sizes, post, wait, free | `SynchronizerImpl` |
| `synchronizer/synchronizer_impl*` | a `Communications`, gather data, `entities_changed` | `synchronize`, `asynchronousSynchronize`, `waitEndSynchronize`, `synchronizeOnce`, `slaveReductionOnce`, `filterScheme`, `split`, `updateSchemes`, `gather`, `scatter` | messages; `DataAccessor` callbacks that pack and unpack |
| element, node, DOF, facet, grid and periodic node synchronizers | the above | build the schemes; follow mesh events | mesh events, `receiveAnyNumber` |
| `synchronizer/communication_tag.hh` | - | `genTag`: proc, count, tag in 32 bits | every message |
| `synchronizer/synchronizer_registry*` | tag to synchronizers | forwards a call to all of them | models |
| `synchronizer/*_info_per_processor*`, `mesh_utils/mesh_utils_distribution.cc` | a message count on master and slaves | distribute the mesh from the master | messages, stop message |
| `mesh_utils/global_ids_updater.cc` | global ids of nodes | number new nodes, spread the ids | scan, reduction, synchronization |
| `mesh/mesh.cc`, `common/aka_event_handler_manager.hh` | handler list by priority | register, unregister, send an event | callbacks |
| `mesh/group_manager.cc` (`ClusterSynchronizer`) | pairs of local and distant clusters | merge clusters over ranks | synchronization, all-gather |
| `mesh_utils/cohesive_element_inserter*` | facets to split | agree on them, double nodes | synchronizers, events |
| `model/common/non_linear_solver`, `dof_manager`, `time_step_solvers`, `solver_callback*` | convergence state, releases of matrices and blocked DOFs | the solve step and its callbacks | callbacks into models |
| `model/*` (solid mechanics, contact, phase field, diffusion, structural, couplers) | fields, flags of what is up to date | assemble, overlap computation and communication | registry, solvers |
| `fe_engine`, `geometry`, `io`, `solver`, bindings | numerical data, files | - | - |

What is hard, and what makes each part correct:

* **Sparse exchange**: nobody knows how many messages to expect. Nothing may be
  left behind, no message may be taken for one of another call, every rank
  must get out.
* **Scheme construction**: both sides of a pair must end with the same entities
  although each side knows only half; later exchanges post one message per
  entry on each side and hang if the entries do not match.
* **Ghost synchronization**: ranks run at different speeds, communication
  overlaps computation, MPI tags repeat, buffers and sizes are reused. Every
  ghost must get the value of this synchronization, and no rank may block.
* **Changes of schemes**: sizes computed before must not be used after.
* **Mesh distribution, gather and scatter**: both sides must agree on the number
  and order of messages.
* **Global ids, clusters**: the ranks must compute one common result.
* **Solvers**: what is kept from an earlier step (stiffness, Jacobian,
  factorisation, list of blocked dofs) must not be used when it no longer holds,
  on every way out of a step.
* **Events**: callbacks in the right order.

The hazards are listed with their lines in `PROJECT.json`.

## Modules

| module | what it is | code |
|---|---|---|
| `Exchange` | what a sparse exchange promises, without a protocol | - |
| `SparseExchange` | the protocol of `Communicator::receiveAnyNumber` | `synchronizer/communicator_inline_impl.hh:44` |
| `SparseExchangeProofs` | its invariant, completeness, separation of calls, and that it implements `Exchange` | |
| `PeriodicNodeSync` | `PeriodicNodeSynchronizer::update` composed with `SparseExchange` | `synchronizer/periodic_node_synchronizer.cc:36` |
| `PeriodicNodeSyncProofs` | that it uses the exchange as modelled, and that schemes and entries mirror each other | |
| `GhostExchange` | what bringing ghosts up to date promises, without messages | - |
| `GhostSync` | `asynchronousSynchronize`, `waitEndSynchronize`, `filterScheme` with `Communications` | `synchronizer/synchronizer_impl_tmpl.hh:168` |
| `GhostSyncProofs` | that requests, sizes and messages are not confused, ghosts are fresh, and `GhostExchange` is implemented | |
| `GlobalIds` | `GlobalIdsUpdater::updateGlobalIDs` with `slaveReductionOnce` and `synchronizeOnce` | `mesh_utils/global_ids_updater.cc:32` |
| `GlobalIdsProofs` | that ids are unique, complete at the end and never replaced | |
| `SolveStep` | a model's `solveStep`: the non-linear solvers, the time step solver, the blocked dofs, and when K, J and the factorisation are made anew | `model/common/non_linear_solver/non_linear_solver_newton_raphson.cc:142` |
| `SolveStepProofs` | what releases tell, that the system of the step is solved, and what a failed step restores | |
| `FiniteInduction` | induction over finite sets and up to a number, and that recursion up to a number defines a function, for the proofs | |
| `GatherScatter` | `SynchronizerImpl::gather` and `scatter` with the schemes of the root and `hasChanged` | `synchronizer/synchronizer_impl_tmpl.hh:517` |
| `GatherScatterProofs` | that the lists agree and every value arrives | |
| `MeshDistribution` | `MeshUtilsDistribution::distributeMeshCentralized` with the element and node information of master and slaves | `mesh_utils/mesh_utils_distribution.cc:107` |
| `MeshDistributionProofs` | that element and node schemes mirror each other and every node has one owner that all know | |
| `Fragments` | `FragmentManager::computeAllData` with `createClusters`, `ClusterSynchronizer` and `synchronizeGroupNames` | `model/solid_mechanics/solid_mechanics_model_cohesive/fragment_manager.cc:320` |
| `MCSparseExchange`, `MCPeriodicNodeSync`, `MCGhostPair`, `MCGhostChain`, `MCGlobalIds`, `MCSolveStep`, `MCGatherScatter`, `MCMeshDistribution`, `MCFragments` | instances for TLC | |

Definitions named after a mistake (`TagWithoutCount`, `KeepSizes`, ...) are not
part of any specification. Each states what a plausible wrong version of the
definition below it would do, and a property is worth keeping because TLC finds
it violated when the mistake takes the place of the definition (`mutants` in
`PROJECT.json`).

### SparseExchange

`pc` is the place in the loop: `probe` at the inner `asyncProbe`, `test` at
`testAll(send_requests)`, `barrier` at `test(barrier_request)`, `out` outside the
call. `sendDone` is `are_send_finished`; `entered` counts the calls of
`asyncBarrier`; `round` counts finished calls, the caller's `static int count`.
`Begin` is the caller's part: synchronous sends (`MPI_Issend`) with the call
number in the tag. `Receive`, `NothingProbed`, `TestSends`, `BarrierPending`,
`Leave` are the steps of the loop. `TestSends` includes the barrier's start,
which the code makes in the same pass; the first test of the barrier is then
the next step.

MPI is external and modelled from its use. A message is first `travelling` and
then `arrived`, and only an arrived one is found by a probe; messages arrive in
any order (a rank sends another at most one message a call, so MPI's order
within a pair plays no part until a tag repeats, and `RightCall` shows that it
never has two calls' messages to choose from). `testAll` in the code tests the
requests in order and stops at the first that is not finished; its result is
the conjunction, which is what `SendsFinished` states. With one rank the code
returns at once; the instances have several.

### PeriodicNodeSync

`recvScheme` and `sendScheme` are the two maps of `Communications::schemes`,
each from the processors that have an entry to the nodes of the scheme; nodes
are named by global id, which is what messages carry (`getNodeGlobalId` on one
side, `getNodeLocalId` on the other). Order within a scheme is that of the
message on both sides and is not modelled. `Update` is everything up to the call
of the exchange: the reset, the receive schemes and the sends. `ReceiveRequest`
is the processor: it extends the exchange's `Receive` by the send scheme. The set
of masters is any set: it is what the mesh's periodic pairs give.

### GhostSync

A *link* is a pair of ranks with a send scheme on one side and a receive scheme
on the other. Per link and tag the module has the send buffer, the receive
request with its buffer, and the two sizes; per rank and tag `comm_counter`,
`comm_size_computed` and the two pending counters. Schemes are counts of entities
here (their number is what sizes depend on). Values are the number of the
operation that packed them.

The ranks execute one program of operations, found on the way: the first rank to
need an operation chooses any legal one and the others follow. A program may
start a synchronization twice without waiting; the code throws, after the
counter has gone up, and the model goes on as a caller that catches it
(`AsynchronousSynchronizeThrows`). It does not wait for what it has not started,
and does not remove entities while a synchronization is pending: that is an
assumption on callers which the code does not check.

`Match` is MPI: on a link and for equal MPI tags the first receive meets the first
message. A message is either buffered by MPI when sent or read from the send
buffer when matched, MPI's choice, so a send buffer packed too early shows up as
a wrong value. `Unpack` is one turn of the loop of `waitEndSynchronize`,
`EndWait` its end with `waitAllSend` and `freeSendRequests`. `FilterRecv`,
`FilterSend` and `FilterEnd` are the three parts of `filterScheme` between which
it blocks. `FilterSend` takes the lists together, where the code takes them in the
order of ranks: what others can see of the difference, that a list is received
earlier, is a `waitAll` that returns earlier, and `ListsBuffered` allows that.

`GhostExchange` is what callers may rely on: the n-th time a rank waits for a tag, its
ghosts get what their owners packed the n-th time, and it goes on only with all of
them. `GhostPromise` says that `GhostSync` implements it, where `published` is the history of
what was packed, `open` the synchronizations of the program under way, and `missing`
the receive requests not yet freed; removing entities and a start that throws are
stutters. There is no liveness in it: a program may start what it never waits for.
A rank without any link is its one exception: it has no pending request, so the code lets
it start again what it has not waited for, and nothing is exchanged (`Isolated`).

### GlobalIds

When cohesive elements are inserted on facets, nodes are doubled, and each rank
numbers the new nodes it is local or master on. The others have to learn the
numbers, and the code does not compute who needs which: it sends, with every ghost
cohesive element, the ids of its nodes to the element's owner, and then the owners
send the ids they know by then back with every ghost. Neither step suffices: a
slave may have a new node only in cohesive elements of a rank that is not the master.

The module starts where `insertElements` calls `updateGlobalData`, with any set of
facets split. A *site* is an old node; `Parts` is what `findElementsAroundSubfacet`
floods around it, and each part has a node. Which part keeps the old node is any
choice, the same on all ranks: `Mesh::initMeshFacets` turns the ghost facets
(`flipFacets`) and the inserter orders them so that it is. All nodes of a site
have the flags of the old node, as `CohesiveMeshGlobalDataUpdater` sets them; the
lowest rank is the master (`MasterNodeInfoPerProc::synchronizeTypes`), and the lowest of the two sides owns
the facet (`FacetSynchronizer`). Around a node that is not a pure ghost a rank has all
facets, so it knows all parts there; around its pure ghosts it may see others than
their owners do, which does not matter here, for `packData` writes -1 for them,
`unpackData` skips them and nobody counts them. Their old ids are left out of `gid`.
A site whose elements hang together by the node only (a pinched mesh) is excluded
(`ConnectedAssumption`): the code doubles nodes around the facets it splits, so a new
node is always one of a cohesive element.

`PostComm` is both passes of `postComm`; `UnpackData` is a turn of the loop of
`waitAny`; `SendsReceived` and `SendsBuffered` are the final `waitAll` of the send
requests, with MPI buffering or not. A message says per node what `packData` writes
per element and node; nothing is lost by that, a rank writes the same for the same
node. `_reduce` and `_synchronize` are cut to different four-bit tags, so `UnpackData`
only matches messages of its own phase. The return with one rank, the mesh that is
not distributed and a second insertion are not modelled.

`KeepsIds` states, for builds with and without assertions, what the two assertions of
`unpackData` say of the values: an id or owner, once known, is never replaced by
another.

### SolveStep

One rank, and no message: the difficulty is what is kept. `AssembledK`,
`AssembledJacobian`, `BoundaryApplied` and `Factorises` each decide from release
numbers whether to do their work or to leave what an earlier step, maybe of another
solver, has made; `K`, `J` and `indexes` are shared by all solvers of a model,
`k_release` belongs to the scheme of one and `factor` to the sparse solver of one.
A matrix is represented by what it was filled from, so that "the right matrix" can
be said: `SystemToSolve`. The list of blocked dofs changes through the program's
array; `HasBlockedDOFsChanged` compares two releases of it, and each use of the list
moves one of them.

`BeginStep` is all up to the first assembly (`beforeSolveStep`,
`updateGlobalBlockedDofs`, `predictor`). Whether a residual is small enough and whether
a factorisation succeeds is any choice. `Corrector` is the corrector, the last
residual and, where the loop ends, `afterSolveStep`. A singular matrix throws past
`afterSolveStep`: nothing is restored on that way, in the code and in the model,
and `StateAfterStep` says nothing of it. The linear solver computes stresses only in its
last residual, as in solid mechanics, which can split the residual
(`canSplitResidual`). The retry of MUMPS with more memory is left out: it ends with the
same factorisation, but the interrupted solve then goes on with the solution in place
of the right-hand side (`solver/sparse_solver_mumps.cc:347`, a hazard without a property).

A run's models are records: whether the material is elastic (its tangent is assembled
again only after `was_stiffness_assembled` was reset), whether the program changes
the time step, and the solvers with type, criterion and scheme. `ReleasesSuffice`
says for which of them the releases are enough. It leaves out, because the code does
fail there, the elastic material with

* the Newton-Raphson method on the residual: see the first finding;
* a lumped solver beside another one: it consumes a change of the blocked dofs likewise,
  without ever filling J;
* several solvers with a Jacobian: J is shared, but each scheme decides by its own
  `k_release` whether to refill it, so a solver may find the J of another;
* a time step that changes: `does_j_need_update` of the schemes does not ask for it.

### GatherScatter

`program` is found as in `GhostSync`. `mesh[p]` is the version of the mesh `p` has; an
operation of a program is `gather`, `scatter`, or the event that nodes were added.
`HasChanged` and `Reduced` are the question with which every operation begins: a
reduction of `entities_changed` into itself, after which a rank takes part in the
exchange of lists or does not. The lists are then kept. A wait for sends ends with
a `...Received` action or, if MPI has buffered what is not received, a `...Buffered` one. `ListsMatch` relates lists made in one
operation to what is packed in later ones.

`Version` has two meshes in the instance: a rank without any entity of its own gets
one, and the numbers of all others change. That the owner of an entity has it and that
numbers are unique is assumed of each version (`EntitiesAssumption`): it is what
`MeshDistribution` and `GlobalIds` establish. `Owned` is the list `fillEntityToSend` makes, which
both synchronizers make alike: `initScatterGatherCommunicationScheme` has emptied it before.

### MeshDistribution

The root's loops over types and ranks are `MasterSizes` to `MasterNodeTags`; `proc` is the
rank its loop is at. A slave takes one message at a time, in the order it is
programmed to. Tags are those of the code, counts and aliases included (`GenTag`);
what a message says is kept where a scheme or a size depends on it, and its length
where only that is used. `SendReceived` and `SendBuffered` complete a send, with MPI
buffering or not.

A list of elements is made in the order of the whole mesh, of those that are in a set
(`Among`, a recursive function, so that it can be proved about). `mesh` says whether the
mesh is periodic and whether there are data on it, `part` the partition of each cell;
neither changes.

Elements and nodes go by the names they have in the whole mesh. Partitions are given
for cells; those of facets, and all ghosts, follow as `fillPartitionInformation`
computes them, with periodic slaves taken for their masters (`Tweaked`). An element
of a lower dimension that is no facet of a cell keeps partition 0 and has no ghosts
(`mesh_partition.cc:284`); such a mesh, whose point elements are not where cells end,
is excluded (`FacetsAssumption`). With one rank the code returns before the first message
(`NbProcAssumption`), and a periodic slave is never given a master that is one itself
(`PeriodicAssumption`, `mesh/mesh_periodic.cc:348`). Node groups are filled before the
missing periodic nodes arrive, and only the number of their messages is kept.

### Fragments

A ring of elements with cohesive elements between them, which break. Each rank builds
groups of what is connected *on it*; `ClusterSynchronizer` numbers the groups of all
ranks by a scan, learns from the owners of its ghosts which of them are one fragment,
all ranks gather the pairs, and each merges them by the same algorithm
(`GlobalClusters`, which keeps the code's order of work because ranks must come to the
same names). `synchronizeGroupNames` creates the groups a rank has nothing of, and only
then the sums can be reduced row by row. `TrueFragments` is the reference: the
connected components of the whole mesh.

Cohesive elements have a synchronizer of their own: their schemes are split off those of
the mesh's element synchronizer when the model is made, and inserted elements are added
there. So there are two exchanges with different partners: the damage goes to the ghosts
of cohesive elements (`SharedCohesive`, by `asynchronousSynchronize` and
`waitEndSynchronize`), the numbers of the clusters to those of regular elements
(`Shared`, by `communicateOnce`). What the two keep about tags, counters and requests is
the subject of `GhostSync`; here both are one message for each pair of ranks that shares
elements.

A collective is what each rank has entered into it so far (`entered`): a rank waits
for the entries it needs. Sends are taken as buffered here; both exchanges post
their receives before they wait, and a rank that waits only for its sends waits for
such a rank.

## Runs

| run | instance | what it asks |
|---|---|---|
| `sparse_exchange` | 3 ranks, 3 calls, 2 distinct tags | invariant; nothing left behind; right call; implements `Exchange`, with its liveness; every call returns |
| `periodic_update` | 3 ranks, 3 nodes of 2 owners, 2 updates | the ledger of what was asked; schemes and entries mirror; every update ends |
| `ghost_pair` | 2 ranks, links both ways, programs of 5 operations on 2 tags | counters are requests; sizes are those of the schemes; ghosts fresh; no operation blocks |
| `ghost_chain` | 3 ranks in a chain, programs of 4 operations on 2 tags | every receive gets the message of its own synchronization; ghosts fresh; implements `GhostExchange` |
| `global_ids` | 3 ranks, 4 elements around a node, any facets split | ids unique over ranks, complete and the master's; none replaced; the update ends |
| `solve_step` | 2 dofs, 3 steps, at most 2 iterations, 6 models | equal releases mean equal matrices; the system solved is that of the step; stresses and displacements belong together after it |
| `solve_documented` | an elastic static problem on the residual | violated: see the first finding |
| `gather_scatter` | 3 ranks, programs of 5 operations, two versions of the mesh | the root's lists are those of the ranks; values arrive at their entity; every operation ends |
| `mesh_distribution` | 3 ranks, 3 element types, 5 partitions, periodic or with nodal data | element and node schemes mirror; one owner per node; master and slaves agree on the messages and end |
| `nodal_data` | 2 ranks, a periodic mesh with nodal data | violated: see the second finding |
| `fragments` | 3 ranks, 7 elements, 5 partitions, 5 cracks, 2 computations | groups are the components of the mesh on all ranks; each sum is over one of them; the computation ends |
| `fragment_mass` | 1 rank, 2 regular types | violated: see the third finding |

Bounds. Three ranks are the least for which one can be out of an exchange, one
in it, and one late. Three calls with `TagMod = 2` make the third reuse the tag
of the first, as call 256 does in the code. `MaxOps` bounds the program of
`GhostSync`, `MaxRound` the calls. With `CountMod = 2` and both tags equal in their
low bits, MPI tags of different synchronizations coincide all the time, which is
the worst case for `RightMessage`. In the chain the first rank only sends and can be
the whole program ahead of the last. In `global_ids` four triangles
surround a node, owned by ranks 0, 1, 2 and 1: the least with a part, that of rank
2, all of whose cohesive elements belong to a rank (1) that is not the master (0).
A second node is a pure ghost on rank 0.
In `solve_step` three steps are the least for which a second step consumes a change
the third should have seen; two iterations let a matrix be assembled at a second
displacement of one step. The program may impose a displacement up to `MaxMoves` and
change parameters, blocked dofs and, in one model, the time step. The two dofs are
symmetric. Five operations in `gather_scatter` have a gather and a scatter before
and after a change of the mesh. The partitions of `mesh_distribution` have all elements on one
rank, ranks without any, ranks that miss the master of a periodic node, and a node on
three ranks; those of `fragments` have fragments that reach over two and three ranks, over ranks
that share nothing by way of a third, local groups that only another rank connects,
ranks that only know them through ghosts, and one that has nothing of a
fragment. Two computations show that nothing is left of the first. Fragments stay
below eleven: groups are visited in the order of their names, in which 10 is before 2,
while `mass_centers` has a row per number (`fragment_manager.cc:244`, a hazard
without a property). Payloads are anonymous in
`sparse_exchange`: messages are told apart by sender and call. Deadlock is
checked in every run; `Terminated` is the only place to stop.

Fairness. `SolveStep` has none and no liveness. A rank that is in an operation goes on
with it: it is a process in a
loop, or in an MPI call that returns when it can (`WF` of the rank's steps). A
message sent arrives and a posted receive is matched (`WF` of `Arrive`, `Deliver`,
`Matching`): MPI's progress rule. Every rank makes its calls: the program is
SPMD. Nothing assumes that MPI buffers a message: `ListsBuffered` and buffered
sends may happen and need not. `GatherScatter` and `MeshDistribution`, whose ranks
wait for their sends, have fairness for the steps of ranks only and none for the buffering of a message: they
end without it. `Promise` includes the fairness of `Exchange`. That the model is solved
again, or the program makes another operation, is assumed nowhere but in the
bounded programs that all ranks run to their end.

## Findings

Three runs are expected to be violated. Each states what the repository says, and its
counterexample is a run of the code.

1. `solve_documented` (`non_linear_solver_newton_raphson.cc:176`). The manual says that
   the displacement is computed for all dofs that are not blocked, and shows the
   criterion `_residual`. A step that is converged at once has called
   `updateGlobalBlockedDofs`, which moves the release of the list, and returns before
   any J is assembled. The next step sees no change: with an elastic material, whose
   K is kept, it solves with the rows of the old blocked dofs.
2. `nodal_data` (`node_info_per_processor.cc:271`). `fillNodalData` unpacks a value for
   each node of the mesh, which has grown by the missing periodic nodes since the
   master took the list of nodes it packs values of. It contradicts the assertion of
   the buffer, "Unpacking too much data".
3. `fragment_mass` (`fragment_manager.cc:424`). The sum of
   `integrateFieldOnFragments` is set to zero inside the loop over the element types,
   where the comment says "sum over all elements": a fragment of two regular types has
   the mass of its last.

## Proofs

For any set of ranks, any payload, any number of calls and any `TagMod > 1`:

* `ExchangeInvariant`: the inductive invariant `ExchangeInv`. `SendsOpen`: a message
  not received belongs to the call its sender is in, whose sends are not
  finished. `OneBarrierPerCall`: a rank has entered as many barriers as it
  has finished calls, and one more once its sends are finished.
  `BarrierSeparates`: nobody has finished more calls than another has entered
  barriers. None of the three is inductive alone: that a rank may leave follows
  from the barriers of the others, and these from the state of their sends.
* `ExchangeIsComplete` (`NothingLeftBehind`) follows: a finished call means that all
  have entered its barrier, so all of its sends are finished, so no message of
  it is left.
* `ExchangeSeparatesCalls` (`RightCall`): by the same invariant two ranks in the loop
  are at most one call apart, and neighbouring numbers differ modulo any
  `TagMod > 1` (`NeighbouringTagsDiffer`). The code's 256 is one instance.
* `ImplementsExchange`: the safety part of `Promise`, step by step (`StepRefines`).
* `UpdateUsesExchange`: each step of `PeriodicNodeSync` is a step of `SparseExchange` or
  leaves it alone, so the theorems above hold in it.
* `PeriodicInvariant`: the `Ledger`. For ranks that have begun equally many updates,
  what q needs from p is what p will send plus what is asked and not received;
  a rank that is behind has received nothing of it and one that is ahead has
  nothing yet. `UpdateMirrorsSchemes` follows with `NothingLeftBehind`.
* `UpdateMirrorsEntries` (`EntriesMirror`): by `EntryLedger`, which needs no
  counting of updates since no entry is ever removed: an entry to receive is on one
  side exactly if there is one to send on the other, or a message that will make it.

For any models, dofs, parameters, time steps, and any number of steps and iterations:

* `SolverInvariant` (`SolverInv`): equal releases of J and of a factorisation mean that J is
  what is factorised. Inductive with `TypeInv` and `ReleaseInv`: releases only grow,
  and K, J and the list get a new one whenever they change.
* `SolverSolvesCurrentSystem` (`SolvesCurrentSystem`), for models that satisfy
  `ReleasesSuffice`: what is solved is the system of the step. Releases do not say
  what a matrix was filled from, so two invariants do. `StepInv` is about one step:
  the list is that of the program since the step began, and J is the step's system
  once it is assembled. `KeptInv` is about what is kept between the steps of an
  elastic model: unless parameters, blocked dofs or K have changed in a way the next
  assembly will see, J is still the system to solve.
* `StepRestoresOrConverges` (`StateAfterStep`): what `beforeSolveStep` stores is what a step
  that fails restores.

For any finite set of ranks and links, any tags with any bits, any `CountMod > 0`, any
number of entities and any legal program (`GhostSyncProofs`):

* `Invariance`: the inductive invariant, in layers of which each needs those before it.
  `ProgramInv`: where the ranks are, and that every wait has its start. `RequestInv`: a
  rank that is not through with a tag has all its requests, one that is has none; the
  posted receives are the active requests. `PublishedInv`: what a rank has published
  are the starts it has come to, so of two ranks one has a prefix of the other's, and
  no entity was dropped since. `SchemeInv`: sizes that are known are those of the
  schemes, and what a filter has told the other side is all that the two sides of a
  link differ by. `MessageInv`: the matching, see below. `ReceivedInv`: a request that
  is done holds the message of its own start, a ghost what was last collected.
* `RequestsAreCounted` (`GhostInv`) is `RequestInv`, and `NoStaleSize` (`SizesAreCurrent`)
  is `SchemeInv`.
* `MessagesAreNotConfused` (`RightMessage`). Tags repeat, and two tags may have the same
  bits: tags are not what tells messages apart. On a link both sides list messages and
  receives in the order of the operations they belong to, and of an operation that
  both ends have begun either both parts are there or both are gone (`InStep`). MPI
  matches the first of a tag with the first, and an earlier operation with that tag
  would have both its parts there and be matched first: so the two are of one operation.
* `GhostsAreFresh` (`GhostsFresh`), from `ReceivedInv`. A message that is not buffered is
  read from the send buffer when it is matched; the buffer still holds the value
  because `EndWait` frees the sends only when they are done (`SentAt`).
* `KeepsPromise` (`GhostPromise`): `GhostExchange` is implemented, by a step-by-step
  refinement: `asynchronousSynchronize` is `Publish`, an `Unpack` is `Collect` of the
  sender's value of the same turn, `EndWait` is `Close`, everything else stutters. The
  attempt to prove it without the clause for isolated ranks failed, which is how that
  clause was found: every rank of the checked instances has a link.

Each layer was checked by TLC on both instances before it was proved.

For any number of ranks, any mesh that is not pinched, any facets split, any order of
messages, with MPI buffering or not (`GlobalIdsProofs`):

* `Invariance`: the id of a node is what its master has given it (`IdOf`). `NumberInv`:
  the masters' numbers. They are apart because the exclusive scan of the counts is the
  number of nodes of lower masters (`NbNewCounts`, a sum over a set), each node having
  one master (`NumbersApart`). `KnownInv`: what anybody else knows or
  says in a message is `IdOf`, with the master's rank. `ToldInv`: whom a rank in or past a
  communication does not await any more has told it what the scheme promises. A message
  tells it because the owner of a cohesive element holds all its nodes and has, after
  the first communication, been told by their masters (`ReachesOwner`, `PackedData`).
* `TypesHold` (`TypeOK`), with the bound on ids; `IdsAreUnique` (`IdsUnique`), from
  `NumberInv` and `KnownInv`; `IdsAreComplete` (`IdsComplete`): a new node belongs to some
  cohesive element (`NewNodesAreCohesive`, by `ConnectedAssumption`), whose owner is the
  rank itself or tells it in the second communication; `IdsAreKept` (`KeepsIds`).

For any number of ranks, any meshes with any numbering and any program of operations
(`GatherScatterProofs`):

* `Invariance`: the inductive invariant. A rank does not know how far the others are,
  and no tag says which operation a message is of. But the program determines
  everything else: the number of operations a rank has made gives its version of the
  mesh (`MeshAfter`), its flag and its votes (`FlagInv`), and, with its place in the
  next one, what it has sent and taken (`Sent`, `Taken`). `MailInv`: the mail is what the
  operations begun need (`Needed`), sent and not taken, and nothing is taken before it is sent.
  So the first message of a kind that a receiver can find is the one of its own operation
  (`FirstMatch`), with what its sender's mesh gave in that operation. `VotesAgree`: a
  reduction has the same result on all ranks, so they all exchange lists or none does.
* `ListsAgree` (`ListsMatch`): a list is that of the mesh as long as the flag is not set
  (`OwnListOf`, `RootLists`), and the flag is set exactly if no operation since the last
  one with nodes added has exchanged the lists.
* `ValuesAreRight` (`ValuesArrive`): `RootGathered` and `Scattered` say what is there while
  messages are taken one by one, in any order. That no value overwrites another one's is
  `EntitiesAssumption`: two entities of a mesh have two numbers, on all ranks together.

`IInv` was checked by TLC on `MCGatherScatter` before it was proved.

For any number of ranks, any mesh of finitely many nodes, periodic or not, with data or
not, and any partition of its cells (`MeshDistributionProofs`):

* `Invariance`: the inductive invariant `IInv`. Messages of one kind have one tag for all
  ranks, tags come again after 256 types, and the kinds of periodic messages are cut to
  those of others, so tags do not say what a message is. But what each rank ends with is a
  function of the mesh and the partition (`ElementsOf`, `SchemeOf`, `FlagsOf`, `OwnerOf`,
  `SendWithMissing`, ...). `RankInv` says which part of it is there at a rank's place,
  `RootInv` what the root has learned from the ranks its loop has been at, and `MailInv`
  of each channel that it is a `Flow`: the messages of the keys from the place of the
  taker up to the place of the sender. A key is the number of types and a place; `Succ`
  and `UpSucc` are the order of the program. So taking the first message and sending the next one
  are the same steps of the two ends (`FlowTake`, `FlowAppend`), and the message found
  under a tag is the first of the channel (`FirstTaken`).
* `SchemesOfElements` (`ElementSchemesMirror`): the sender picks its local elements that
  are ghosts of the receiver, the receiver its ghosts that are local to the sender. Both
  are the same elements of the same list, in its order (`AmongTwice`, `GivenElements`), type
  after type (`SchemesGrow`).
* `SchemesOfNodes` (`NodeSchemesMirror`): the nodes the root tells the owner to send are
  the slaves of the other with that owner (`SlavesOfOwner`), and both sort by global number.
* `OwnersAreKnown` (`NodesHaveOneOwner`): flags are said by each rank from its own
  elements. They are right because a rank has a node of its own elements as a ghost's,
  too, exactly if the node is local to another rank (`NodesAreShared`): of two cells at a
  node each is a ghost of the other's rank, and a facet goes with one of its cells
  (`PartOfElement`). So either one rank says `normal` or all local ones say `master`, and the
  lowest of these keeps it (`OwnersOwn`).

`IInv` was checked by TLC on `MCMeshDistribution` before it was proved.

They rest on the assumptions of the modules only: those on the constants of
`SparseExchange` and `PeriodicNodeSync`, `ProcAssumption` to `MaxOpsAssumption` of
`GhostSync`, `MeshAssumption` and `ConnectedAssumption` of `GlobalIds`, `MeshAssumption` and
`EntitiesAssumption` of `GatherScatter`, `NbProcAssumption` to `MeshAssumption` of
`MeshDistribution`, `MaxIterAssumption` and `ModelAssumption` of `SolveStep`;
`SolverSolvesCurrentSystem` also on `ReleasesSuffice`, which `solve_documented` shows to be
needed. All are about the input: a finite mesh, ranks that do not share with themselves,
tags that are numbers.

Where a proof needs induction over data (the least of a set, a sum over a set), it goes
by `SubsetInduction`, over the subsets of a finite set, or `UpToInduction`, over the numbers
up to one, both in `FiniteInduction` and for a property given as the set of those that have it.
That a recursive function exists at all is `RecursionExists` there; `AmongFound` and
`SchemesGrow` use it.

Only model-checked: all liveness (`EveryCallReturns`, `EveryUpdateEnds`,
`EveryOperationEnds`, `UpdateEnds`, `DistributionEnds`, `FragmentsGetComputed` and the
fairness part of `Promise`), which is out of the prover's reach; and everything about
`Fragments`: that `GlobalClusters` and `Closure` compute the same components needs
induction over sequences of pairs and over relations at once, and without it nothing
follows for `FragmentsAreComponents` or `FragmentsAreMeasured`.

## Not modelled

The numerical parts (finite elements, materials, geometry, linear algebra, non-local
weights), input and output, bindings and build files have no protocol to check, and
they are most of the code. MPI, the partitioning library, MUMPS and PETSc are external.
Failures of ranks are not handled by the code: an error aborts the run.

Left out although it has logic: the facet and grid synchronizers, whose partners are
found by geometry or the mesh of facets; `NodeSynchronizer::onNodesAdded` (which does not
follow masters of periodic nodes that are pure ghosts) and the doubling of nodes, which
need the geometry of an insertion; `split`, `updateSchemes`, `copySchemes` and
`swapSendRecv`; several synchronizers on one tag; the order of event handlers; the
staggered loops of the couplers; the caches of the mass matrix.

## Plan

1. Proofs: what can be said of `Fragments` without induction over its relations (that
   every rank has the same pairs, that names agree).
2. The caches of the mass matrix in `SolveStep` (`need_to_reassemble_mass`).
3. `FilterScheme`: positions and order of the entities, two synchronizers on one
   communicator with the same tag (`synchronizer_impl_tmpl.hh:378`).
4. `NodeSchemes`: `NodeSynchronizer::onNodesAdded`, new neighbours, sizes after `reset`.
5. `FacetSync`: the second client of `SparseExchange`, one exchange per facet type.

Runs stay at a few ranks and one or two operations of each kind; each new module
comes with the smallest instance in which its hazards occur.
