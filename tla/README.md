# natsvet: models, checks and proofs

natsvet is a Go vet tool for programs that use nats.go. It has fourteen rules
(`analyzers/`), and a migration tool, `natsvet migrate`, that plans and applies
the move of a module from the legacy JetStream API of nats.go to its
`jetstream` package (`internal/migrate/`). The rules are functions of a
type-checked package. The migration tool changes people's files, over many runs,
together with those people, and is where this project starts.

## The system

| component | source | state it keeps | operations | what makes it correct |
|---|---|---|---|---|
| apply | `internal/migrate/apply.go` | the files it read, as read and as edited (`tree`); the module's files on disk | plan, select, check hashes, splice, write, type-check, restore | whole steps or nothing, also after failures; only steps that are licensed; no step refused for no reason; the migration ends |
| plan order and simulation | `steps.go` (`assemble`, `planComponent`, `unitStep`), `build.go` (`simulate`) | the simulated text of each file; steps and what they wait on | order the steps, try each on the simulated files, record hashes | hashes are those the files will have; a finish step waits for what still uses its handles |
| edit log | `steps.go` (`cur`, `applyBatch`, `resolve`), `compose.go`, `text.go`, `rewrite.go` (`sortIntents`) | batches of edits applied to each file, marks in its text | map an offset of the planned text to the current one; apply a batch; compose batches | a step edits the code it was planned for or fails; marks stay on their text; composed and replayed edits give the simulated text |
| imports | `imports.go` | none of its own: the import lines of each file | compute the import edits of a step | the file imports what it uses, once, as gofmt would lay it out |
| answers and ids | `decisions.go`, `inventory.go`, `plan.go` | `natsvet-migrate.json` | look an answer up (site, component, module); find stale answers; name sites and components | an answer is applied to what it was given for, also after other sites are migrated |
| handle graph | `components.go`, `roots.go` | handles, the flows between them, their siblings | collect, join, recognise siblings of earlier runs, decide which handles can get one | a sibling is declared wherever one is used; a later plan finds it again |
| units | `units.go` | sets of sites that must migrate together | join sites that share an object | no step leaves half of a unit migrated |
| classification and rewriting | `classify.go`, `subscribe.go`, `rewrite.go`, `table.go` | the class, edits and questions of a site | classify, rewrite | a mechanical site keeps its behaviour |
| loading, rendering | `load.go`, `render.go` | none | load packages; print the plan | |
| subjects | `internal/natsapi/subject.go`, `transform.go` | none | match, collide, transform subjects | the answers of the server's own code |
| definite values | `internal/natsapi/masker.go`, `fields.go` | what is known of a variable's fields | forget what a later write may change | no report from a value that may have changed |
| rules | `analyzers/*` | none | one pass over a package each | reports what the server or the client refuses, and nothing else |
| command line, plugin, generators | `natsvet.go`, `cmd/`, `plugin/`, `internal/tablegen`, `internal/docgen` | none | register rules; generate tables and docs | |

How they interact. `migrate plan` runs load, answers, inventory, handle graph,
classification, units, plan order and simulation one after the other
(`buildPlan`, `build.go:34`), and prints the result. `migrate apply` runs the
same function in-process, then applies steps of the plan it got. They share no
memory with anything; what they share, with each other over time and with the
person who runs them, are the module's files, `go.mod` and the answers file.
All concurrency is there: an editor saves a file while a run is between its
read and its write, a run is killed between two writes, an answer changes
between two runs. All ordering questions come from plans that are made again
after every run, on a tree that is partly migrated.

`PROJECT.json` lists each component with what is modelled of it, and the
hazards, each with the properties that would show it.

## Modules

`MigratePlan` (constant level, no state) is the plan as `apply` sees it. A
migration is a numbered set of *pieces of work*: the add-handle step of a
component, a unit of sites, the finish step of a component, in the order in
which `assemble` emits them (`steps.go:75-113`). The content of a file is the
set of pieces of work whose edits it holds, plus marks: `Edited` and `Broken`
for what a person does to it, `Torn` for a write that was cut off. Two contents
are equal exactly when the texts, and so their SHA-256 hashes, are. From a tree
and the answers the module computes what is left to do (`Left`), which steps a
plan holds (`Steps`, with `OneStep` for components safe in one commit), which a
machine may apply (`Ready`, then `Tried` and `Machine` after the simulation),
and the content each step expects of each file (`Expect`). The simulation's
partial failures are there (`Fails`): a step fails at its file `fail`, because an
earlier step of the plan left its edits no place (`clash`), or by itself (`alone`):
two of its edits overlap, one lies in the imports, the result does not parse, an
import edit overlaps another (`steps.go:1174-1232`, `imports.go:72-93`). It loses its
edits; the files before `fail` keep them in the simulation (`steps.go:1211-1247`,
`build.go:243-257`). An error of `composeBatches` would leave them in the file itself,
too; there is none (`ComposesAlways`).

`MigrateApply` is `runApply` (`apply.go:148-284`) with everything that shares
the files with it.

| variable | code |
|---|---|
| `disk`, `answers`, `upToDate` | the module's files, the answers file, the nats.go requirement in `go.mod` |
| `phase`, `args`, `plan`, `queue`, `todo`, `exit` | where `runApply` is, its flags, its plan, the steps it still has to splice, the files it still has to write or restore, its exit code |
| `files`, `orig` | the two maps of `tree` |
| `spliced` | the work of the steps spliced so far; afterwards, of those reported as applied |
| `userDisk`, `lost`, `damaged`, `lastBuilt` | histories: the files without the last run; files where it overwrote an edit; files a failed write damaged; the last tree planned from |
| `edits`, `faults` | counters for the bounds |

| action | code |
|---|---|
| `Start` | `Main`, `main.go:113-126`: any flags |
| `BuildPlan` | `buildPlan`: no plan of a module that does not type-check, or with a stale skip answer |
| `Select` | `apply.go:154-204`: step 0, the component's steps up to its first one for a person, the next machine step, nothing left, pending questions |
| `Read`, `Splice` | `tree.read`, `tree.splice` and the loop around them (`apply.go:205-234`), one file and one step at a time; a dry run ends here |
| `Write`, `WriteFails` | `tree.write`, one file at a time |
| `TypeCheck` | `typeCheck` of the packages that hold a changed file |
| `Restore`, `RestoreFails` | `tree.restore`, one file at a time, going on after a failure |
| `Crash` | the process is killed, in any phase; in the middle of a write the file is torn |
| `Edit`, `Answer`, `GoGet`, `Migrate`, `Revert` | a person: saves a file at any moment; answers or changes an answer; runs step 0; migrates by hand a step no machine can; takes back a tree that does not build. `SKILL.md` describes this workflow |

The type checker is an oracle, `Builds`: a package builds when no file of it is
torn or broken, when each piece of work that touches it is in all of its files
or none, when the siblings a piece of work uses are declared, when a finish
step came after everything else of its component, and when no work in it is
`bad`. That is what makes the order of steps matter.

`AtomicApply` is what the specification of `apply` promises, without its steps
(`openspec/specs/migration-planner/spec.md:408`, "applies one machine step and
never leaves a broken tree"), as far as the code keeps it: the tree changes by whole
steps, and a package that built and holds a file of the steps still builds; other
packages are not looked at (see Findings). `MigrateApply` implements it (`AtomicSpec`)
under the refinement mapping `Visible`: while a run writes, checks or restores, the tree
is what people made of it; it changes when the run ends.

`Edits` (operators, no state) is the arithmetic of edits: what `sortIntents`
refuses, `applyText`, `tree.splice`, the offset maps `cur`, `fwdPos` and
`backPos`, and `composeBatches`. A text is a sequence of atoms, and an offset
counts atoms, so that every comparison and every sum of the code is there and a
byte is left out. `LineEnds` says which atoms end a line, which is where
`composeBatches` may cut (`Trimmed`).

`EditLog` is one file in the simulation (`simFile`) with the steps that edit it.

| variable | code |
|---|---|
| `file` | the file as loaded (`srcFile`): its text, the handles it declares, the sites in it |
| `text`, `log`, `marks` | the fields of `simFile` |
| `past` | the texts before each batch, which `sim.state` keeps where a component's steps begin |
| `done`, `lost` | the steps tried, and those whose `apply` returned an error |
| `disk` | the file of somebody who applies the recorded edits with `tree.splice` |
| `formats` | counter for the bound on gofmt's edits |

`AddHandle` inserts a sibling's root and its placeholder line after the legacy
root, with marks (`addIntents`); `MigrateSite` replaces a site's call by one that
names the sibling; `FinishHandle` removes or replaces the legacy root, deletes
what the span marks cover and renames what the sibling marks cover
(`finishIntents`). Each goes through `Apply` (`sim.apply`): resolve in the current
text, sort, refuse overlaps, apply, let gofmt change blanks, compose, record.
Texts that the steps write are one or two atoms; a sibling's name is one atom
longer than the legacy one, so that a rename changes lengths. gofmt is external:
it may add a blank at an end of what was just written or of a sibling in it, or
take a blank away anywhere (`Formats`); that its edits follow the step's, are
logged as a batch of their own and composed with it, is the code's.
Steps are taken in any order their prerequisites allow, which includes the order
of every plan. `Intended` says, without offsets into anything a step wrote, what
the text should be.

`LayoutsFit` (in `EditLogAssumption`) says what a layout is. The lines of handles are
lines: `lineSpan` (`text.go:132`) ends them behind a line end, and two declarations on
one line are not two lines. A line has more than its end, as a declaration stands on it.
A site is a piece of code inside the file that is not all there is of a handle's line
(`HasPlace`): a call or a reference never is the declaration, whose name stands beside it,
and a call that contains lines, in a function literal, has its own code around them.
Sites may overlap each other, and lie in, across or at the ends of a line.

`ComposeBatches` runs `composeBatches` on batches no plan would make: any edits, any
number to a batch, touching, nested, undoing each other.

`ImportEdits` is `importEdits` over the steps of a plan. Here an atom is a line:
`importEdits` edits whole lines but for one declaration it turns into a block. A
step leaves the code using other packages than before, and other variables with
methods or fields (`Step(use, loc)`); the edits are
computed from the imports that stand there, applied, cleaned by gofmt, recorded
and replayed. The planner does not know the names of packages: it makes them from the
paths (`Guess`, of `importName`), and takes every identifier before a dot for one
(`Dotted`, of `usedNames`). So `Name`, what a package is called, is a constant of its
own beside the `Words` of its path. gofmt's own work on import blocks (`Needless`,
`Sorted`) is external.

### The code and its plan

The modules above take a plan as given. These make it, from the code. A program
is a record of what the planner reads off it: handles with how they are declared,
the calls that make them, the moves of handles between places, sites, variables
that hold values of legacy types and where those values go, and the other names
that are declared. A place is a scope (a path of function and blocks) and a
position.

`Handles` is `components.go` and the parts of `roots.go` and `steps.go` that
decide what a handle can have: which moves are flows (`Flows`) and which are
boundaries that refuse a sibling (`Refuses`), `Threadable` as the fixed point
that the code's loop computes (`Pass`, from all handles down), the name of a
sibling (`Sibling`, `siblingName`), the siblings of an earlier run
(`recognizeSiblings`), components as connected parts, and their ids.
`Statements` is how `collectFlows` and `collectOtherUses` read the moves off
assignments, declarations, literals, calls and returns.

`Sites` is `classify.go` and `units.go`: what stands in the way of rewriting a
call, a reference, a literal or a message method (`Problems`), where a value of
a legacy type ends up and what must change type with it (`ValueContext`), and the
classes of sites that must migrate together (`Units`). The table of the API is
external and enters as the kinds of entries it has: `call`, `guided`, `unmapped`,
`outside`.

`Plans` is `buildPlan` without the text: the ids of sites with ordinals for
identical ones, the merging of components that share a unit, the order of
units, and `planComponent` with `addStep`, `unitStep`, its finish step and
`componentStep`: which are machine steps, which wait, and on what.

`CodeSteps` is a program that is migrated to the end.

| variable | code |
|---|---|
| `code` | the files: handles, roots and moves that are left, siblings declared (`sibs`), what stands next to a root or a flow for them (`sroots`, `stwins`), placeholders (`keeps`), sites on the new API (`moved`), renamed and reviewed uses |
| `answers` | the answers file |
| `view`, `plan` | what `buildPlan` makes of the two |
| `made` | the program before its first step |
| `meant` | history: the handles the person chose to skip, the sites answered for |

| action | code |
|---|---|
| `Apply` | `migrate apply`: the first machine step, or the first step of a component; `AddHandles`, `MoveSites`, `Finish` and `MigrateComponent` are the edits of `addIntents`, `unitStep`, `finishIntents` and `componentStep` |
| `AnswerComponent`, `AnswerSite` | a person answers a question of the plan |
| `AnswerAgain` | the planner refuses a stale answer to skip (`build.go`, `stale`): the person answers again |
| `HandAdd`, `HandUnit`, `HandFinish` | a person does a step that the planner leaves to one, as the step's text says |

The new plan is part of each action: a plan is never kept (`apply` makes its own),
so nothing can be read from an old one.

`WellFormed` says what a program is, and `CodeStepsAssumption` that `Programs` are
such: everything in it is finite and of its type; no scope declares two handles of
one name, as Go demands (results of functions need no name); a sibling that a
person declared before the first plan is declared as the plan's step would, and
holds what its handle holds. A person who declares `jsNew` without filling it is
outside: the planner takes any declaration of that form for a sibling
(`recognizeSiblings`) and cannot know. `Typed` says which uses of values there are
(`Located`). A subscription in the handler of another
whose own handler has sites is outside as well: sites have one owner here.

### Subscriptions

Subscribe calls are the sites whose rewrite depends on answers, on a config and
on code somewhere else. `CodeSteps` has them as sites that ask; here they are
opened.

`Subjects` is `natsapi/subject.go` and `subjectCovers` with, as a reference, the
messages that a subject receives. A subject is a sequence of tokens. `"*a"` is a
token that only begins like a wildcard: the code looks at one byte in some places.
`ConsumerRules` is the rule `consumerconfig` on the fields a subscription can
set. A field's value may be unknown, as natsvet's analysis has it, and then no rule speaks of
it (`Known`). `Answers` is `decisions.go`: what an answers file may hold,
`Lookup` (site, then component, then module), `fill` (the default of the
majority goes to the module, other defaults to sites) and what a plan still
asks. `Subscriptions` is `subscribe.go` with the options of `table.go`: reading
options (`Parse`), what a call asks (`Decisions`), the rewrite (`Build`: the
kind of consumer, the config, the handler's fate, the wrapper that acks), the
statement around it (`Statement`, `subscriptionUses`), and the stream a plan
suggests (`FollowUp`).

`SubscriptionSteps` puts calls together.

| variable | code |
|---|---|
| `program` | the calls, handlers and streams of the code |
| `new` | the calls migrated so far: by an edit, with the rewrite and the choices it was made of, or by hand |
| `retyped`, `copies` | handlers changed in place, copies declared by `split` |
| `answers` | the answers file, in its order |
| `view`, `pending` | `classifyAll` in file order with `buildPlan`'s owners; the questions of the plan |

| action | code |
|---|---|
| `AcceptDefaults` | a person records all recommended answers |
| `Answer(kind)` | or answers the first question, for a site, a component or the module |
| `ApplyUnit`, `ApplyComponent` | `apply` of a unit's step, or of a component's only step, which migrates all its calls at once |
| `HandMigrate` | a person rewrites a guided call |

`Followed` says what a program is here: calls stand in a file and each once, what they
name is declared, a variable that is defined is used (the compiler sees to that),
subjects are plain. One clause is not the compiler's: handlers do not subscribe each
other in a circle (`Nests`; see Findings).

`MCMigrateApply`, `MCEditLog`, `MCComposeBatches`, `MCImportEdits`, `MCCode` and
`MCSubscriptions` hold the instances. `MigrateApplyProofs` (what holds at every step of
a run) and `MigrateRunProofs` (what a run leaves) hold the proofs about
`MigrateApply`; `EditsProofs` and `ComposeProofs` those about edits of a text and their
composition, `EditLogProofs` those about the simulated file; `CodeStepsProofs` those about
a program's plan and its steps; `SubscriptionProofs` those about subjects and subscriptions;
`Recursions` what the others need of naturals, finite sets, recursion, lists put
together in a loop and union-find. `Listing` (`Concat`, `Filter`, `Sort`) and `UnionFind`
(`Union`, `Classes`) are the loops that the planner uses for handles, sites and
questions alike. Operators marked as mutants are alternative
bodies of the definition that follows them, each a bug that code could have;
`PROJECT.json` says which property each of them breaks.

## Runs

| run | instance and bounds | what it shows |
|---|---|---|
| `apply_core` | two files in two packages, and a third package; a loose site that fails by itself in its second file; a component with an add-handle step, a mechanical site over both files, a guided site, a finish step that breaks the third package; a loose site the planner gets wrong in the second package and whose edits clash with the component's; 1 edit, 1 failed write, 1 failed restore, 1 kill | type correctness, all or nothing, what a kill leaves, licensed writes, that a successful run keeps building what the type check could see, that a plain run is refused falsely only for what a step that failed left behind |
| `apply_atomic` | the same, 1 edit of a file the run has not read, 1 failed write | `MigrateApply` implements `AtomicApply` |
| `apply_live` | two components that share a file, one safe in one commit, one with an unmapped site; 1 failed write, 1 kill | with fairness, everything not skipped is migrated in the end |
| `apply_component` | the same without faults | expected to fail: see Findings |
| `edit_log` | files of ten atoms on three lines: two handles with a site each, on neighbouring atoms or apart; one handle with a site of its own and a loose one inside, across or at the ends of its line; the legacy root replaced or removed; gofmt touches up one step | steps edit the code they were planned for, and fail only when a finish step removed it; marks follow; recorded edits replay; the batches since every earlier text compose |
| `compose` | a text of three atoms on two lines, three pieces to write, up to three edits in up to two batches | `composeBatches` never fails; its edits give the same text applied forwards and backwards |
| `imports` | 48 layouts (a block in gofmt's groups, third-party groups split, a block and single declarations, single declarations only, an import for its effects) of nine paths, one whose name is guessed wrong (`b.org/go-b`) and one that ends in a version; variables named `time` and `jetstream`; 3 steps, each taking up any of `context`, nats.go and `jetstream`, and dropping nats.go, `time` or both or neither, and variables | imports are exact but for wrong guesses and for what looks used, in their groups and in order; the edits never overlap |
| `imports_replay` | the same | expected to fail: see Findings |
| `code` | 699 small programs: a local handle that flows to a second one, of every kind and declaration, over every kind of statement, made in three ways, with every other thing a program can do with either; and one program each for blocks and taken names, buckets, helpers, other packages, values that are passed on, message handlers, sites of every kind in a handler, odd calls, a half-done migration, two and three identical questions, values the planner does not follow | between any two steps declarations and values type-check, but for variables adrift, siblings hold what their handles hold, the next plan is the rest of the last one, an answer leaves its site only when identical ones are renumbered, skipped components stay as they are, threadability is the largest fixed point, the plan runs out |
| `code_skip` | a function with a `js` of its own and one in each of two blocks | expected to fail: see Findings |
| `code_types` | a copy of a handle into a variable that is returned | expected to fail: see Findings |
| `subscriptions` | 784 small programs: one call with every pair of 15 options and 10 more alone or in three sets, as callback and pull, with queues, durables and receivers; every use of the result; two calls of one handler; handlers of every shape; a call within the handler of another, before or after it; three calls with defaults of their own; a call beside two streams, for all triples of 7 subjects | acks are kept or answered for, no config is written that natsvet's own rule reports, handlers fit all who pass them, statements compile, defaults are applied as shown, answering what is asked ends the migration, subjects are compared as the server does |

Why these bounds are enough. Two files are the least in which a run can be
between two writes; with one more, the middle of the loop is one more state of
the same kind. Two packages tell a check of the first changed package from a
check of all. One fault of each kind can strike in every phase of every run,
and also in the run after it, since runs repeat without bound; two edits would
only meet each other. The properties about single runs do not depend on how
many pieces of work there are, and six give every kind of step, every reason
for a step not to be a machine step, both ways to fail in the simulation, and steps of
which a run applies two at once. The theorems below hold without any of these bounds.

For the edit log, what can go wrong is decided by how two edits, or an edit and
a mark, lie to each other: before, touching, inside, across, equal. Ten atoms and
the layouts give all of these for pairs of steps; a third edit between two others
only adds to a sum. `composeBatches` treats batches one after the other and edits
in a batch one after the other, so two batches of three edits have every case of
`backPos` and of the merge; three batches are run by `edit_log` (`Composable` from
every past text). One gofmt batch can follow any step. For imports, three steps
take a group away, bring it back and take it away again.

For the code, a property fails on how two handles and the statements between them
lie to each other, so pairs are taken in full (`PairPrograms`); what needs a third
handle, a block, a package or a value has a program of its own (`MCCode` says what
each is for). Answers, steps and hand edits come in every order. For
subscriptions, options meet in pairs, since a rule of `consumerconfig` relates
two fields; the exceptions are listed by hand. A person answers at every scope
where scopes differ: for a site when there is one call; for a site, and for the
component or the module, when there are two; for the module when there are three
(`MCScopes`). Answers to different patterns do not meet, so the first question of
the plan is answered first. Subjects have up to three tokens over two words; the
theorems have no such bound. `SubjectLength + 1` is enough for messages: a longer
one differs from a shorter one only after the last token of any subject.

Deadlock is checked in the runs of `EditLog`, `ComposeBatches` and `ImportEdits`,
which stutter explicitly when their steps are used up. It is not checked in the
runs of `MigrateApply`: when everything is migrated and the
bounds are used up only runs without effect are left, and a person may stop at
any time. Nor is it in those of `CodeSteps` and `SubscriptionSteps`, where work
ends; that it ends only where it should is `WorkEnds` and `AnswersSuffice`.

Fairness (`FairSpec`). A process that runs goes on to its end, weakly fair:
nothing in `runApply` waits for anything. Everything else is the person
`SKILL.md` tells to come back until nothing is left: plain runs, answers,
step 0, steps by hand and a tree that does not build are strongly fair, because
each can be interrupted by a run and offered again. No fairness is assumed of
faults, of edits, or of `-component` runs. Without strong fairness of, say,
`Answer`, the person never answers and the migration rightly never ends.

`CodeSteps` assumes weak fairness of three things: machine steps are applied,
questions are answered, hand steps are done. `SubscriptionSteps` assumes only that
a person with work left goes on with something. In both the condition that enables
an action is written out (`CanApply`, `CanByHand`, `CanWork`), which says the same
as `WF_` and spares TLC the computation of every next plan.

## Proofs

### Apply

The theorems are about `Spec` for every value of the constants that satisfies
`MigratePlanAssumption` and `MigrateApplyAssumption`: every number of files,
packages, components and pieces of work, every plan, every number of faults.

* `TypeCorrect`: `TypeOK`.
* `AppliesAllOrNothing`, `KilledRunLeavesWholeFiles`. The two properties speak of
  a run that is over, so they are not inductive: the invariant `IInv` says what
  holds in each phase. `MemoryInv`: each file in memory is what was read plus the
  edits spliced, and what was read differs from what people now have only by
  their marks. `BeforeInv`: until it writes, a run has not changed the disk.
  `WriteInv`: while it writes, exactly the files not in `todo` have the edits.
  `RestoreInv`: while it restores, exactly the files in `todo` may have them, and
  a file known to be torn holds nothing a person wrote. The delicate step is the
  restore of a file somebody may have edited (`UntouchedIsUsers`): if the disk
  holds what the run wrote or read, then nobody edited the file since, because
  a person's marks are never a step's edits.
* `WritesOnlyLicensed`. `LicenceInv` ties the steps spliced to the steps selected
  from the plan; `SelectedPrefix` shows that the steps of a component are
  selected without a gap.
* `PlainRunRefusedOnlyForLeftovers` (`PlainRunNotRefused`). The first machine step of
  a plan expects the files as they were planned from (`FirstExpect`), unless a step
  failed by itself before it: otherwise the first piece of work that is
  ready cannot fail in the simulation, so nothing before the first machine step
  leaves edits there. The least such piece exists because `<` on the naturals is
  well founded (`LeastNat`). Where one did fail by itself, a refusal needs edits that
  failed work left in a file of the step (`LeftBehind`); that the code then refuses is
  a finding. No assumption is made of the plan.
* `SuccessBuilds` (`SuccessKeepsBuilding`). `typeCheck` (`apply.go:286`) loads
  the packages that hold a changed file and no others, so a step whose edits are wrong
  in a package that imports what they change goes unnoticed. The property exempts
  just these packages (`BrokenUnseen`), and the theorem assumes nothing of the work. The
  invariant is `DriftInv`: what has changed since the
  tree the last run planned from, which built, is the run's edits and people's.
  Packages that hold no file of the steps build as before, unless the steps' edits
  are bad for them (`UntouchedPkgBuilds`), as their
  files changed by edits that compile; the others were checked
  (`StepPkgsChecked`): each file of a step changed, since work that is left is in no
  file of a package that built.
* `ImplementsAtomic`: the refinement `Spec => AtomicSpec`, under `Undisturbed`, which
  is what the run `apply_atomic` checks: nobody saves a file that a run has read, no run
  is killed, and no write of old contents fails. Each of the three makes the refinement
  false, for any tool that writes several files without a journal. `QuietInv` says
  that then a run remembers what people have (`userDisk` is `orig`), and that a file
  damaged by a failed write is still to be restored. Each action maps to a stutter but
  for the end of a run, which is a step of `AtomicApply`, and for what people do.
  `NothingLost`: under `Undisturbed` the exemptions `lost` and `damaged` in the
  properties are empty.

### A program's plan and its steps

These theorems are about every set of programs that are `WellFormed`, of any size.

* `ThreadableSustained`: the loop of threadability ends with the union of all sets
  of handles that a pass keeps. `SiblingsForAll`: so it is after every step
  (`ThreadableIsLargest`).
* `ClassesConnect`: the classes of union-find are the connected parts: every edge
  lies within a class, and what no edge leaves, no class leaves.
* `PlanSteps`: every step of a plan is one that `planComponent` or `unitStep` makes
  of a component, or a unit, of the program.
* `PlanTypeCorrect` (`TypeOK`): plans are about code that is there, siblings are
  declarations with names of their own, steps a machine may take wait on nothing.
* `SiblingsAlwaysFed` (`SiblingsFed`): however steps are applied, chosen by
  component or done by hand, wherever the program made or copied a handle that
  has a sibling, the sibling is made or copied.
* `ValuesAlwaysAgree` (`ValuesAgree`): at every step, what a migrated call gives
  reaches only what changed type with it, a place that holds either type or one that
  a person reviewed, and a value that is not migrated reaches no migrated one. The
  exception is in the property: variables that are adrift (`Adrift`), as their types
  come over a source that the planner does not link them with, and copies of these (see
  Findings). Everything else agrees in programs that have such variables, too.

`SiblingsFed` is about siblings and the program as it was, while a step is made from
the code as it is, where earlier steps removed roots and flows. Alone it is not
inductive. `Uncut` is the strengthening: the roots of a handle without a sibling, and
the flows into it, still stand, as long as the handle does. A finish step removes
roots and flows of a whole component, so it keeps `Uncut` only when the component's
siblings are there: the finish step comes after the add step in every plan
(`OneAfterOther`), and apply takes the first machine step of the plan or of the
component (`FirstMachine`, `FirstOfComp`); a person does it when no step of the
component is left. That flows do not leave a component (`FlowsStay`) is
`ClassesConnect`; that what a threadable handle gets comes from threadable handles is
`ThreadableFixed`. `Kept` says the same of lines `_ = x`, `SibsNamed` that a sibling
has a name that was free: `siblingName` counts up, and among finitely many
declarations a number is free (`FreeNumber`).

`ValuesAgree` speaks of the variables' types, which follow from the migrated sites
(`Retyped`), and of uses in the program as it was, while a plan is made from what is
left: a link to a migrated site is gone from the next plan, so a later unit could be
smaller than the one the first plan had. `ValuesInv` says why it is not. No link of the
program leads from what has changed type to what has not, but between variables adrift
and others (`Apart`), so that what is
left has all of its other links and the plan is about the program as it was, without the
migrated part (`Left`, `Stripped`); and the uses of what has changed type agree
(`Reviewed`). A variable adrift changes type in no unit, and a plan no longer mentions
it then; whatever is not adrift has its type over links, from a site, and so changes
with its unit (`RetypedMore`).
`UnitsApart` is the step: units are classes of what is left (`ClassesConnect`), so a
step on whole units leaves nothing linked across. That a step takes whole units is
`PlannedUnits`, from `PlanSteps`: a unit's step lists all its sites when it carries
edits, as each of them is then mechanical, those in a handler because their
subscription is (`ReadySites`, with `HandlerProblems`). That the uses agree is then
`ReadyAgrees`: a mechanical site, and a unit without `Facts`, has no use whose context
has a problem, and each context without one is of a place that holds either type, or is
linked and so in the unit. A variable that is its own source would change with
nothing; `Typed` excludes it, and `RetypedIs` takes a smallest counterexample.

The planner's loops are recursive functions in the model. Each theorem about one
uses a least counterexample (`LeastNat`, `SmallestSet`): were the claim false of some
set or sequence, it would be false of a smallest one, and the recursion leads from
it to a smaller. That a recursive definition has a value at all is proved the same
way (`RecursionOnNumbers`, `RecursionOnSets`).

### Edits

`EditsProofs` is about texts over any set of atoms and edits of any number and length;
`ComposeProofs` about `Spec` of `ComposeBatches` for all texts, pieces and bounds.

* `AlwaysComposes` (`ComposesAlways`): `composeBatches` returns none of its errors. No
  range maps outside the last text, and the edits it returns turn the first text into
  the last.
* `AlwaysSpliced` (`ComposedSplice`): its edits are apart, and `tree.splice`, which
  goes from back to front, makes the last text of them too.
* `ChainComposes` says the same of any texts each of which an edit batch makes of the one
  before it, and `SpliceGives` when `splice` may be trusted at all: edits in order of
  which no two start together may touch, and give the text that the planner hashed. Two
  that do start together are the finding `imports_replay`.

The invariant is that there are texts between the batches (`Chained`): each is the one
before it with a batch of edits in order, which carries every atom that no edit touches
as far as the edits before it have grown (`Carries`, `ApplyCarries`). `composeBatches`
takes each edit back to the first text by `backPos`, joins what overlaps or touches, and
takes the ends of each joined range forward by `fwdPos`; nothing in it says that the two
maps have to do with each other. What relates them is the gaps between the joined ranges.
A gap of the first text is mapped forward batch by batch, and at each batch all edits
lie outside it: were one not, `backPos` would have taken it back to something that
reaches into the gap (`BackBelow`, `BackAbove`, `GapOffsets`), and so would its span, which
the ranges join (`GapsOutside`). An edit outside moves both ends of the gap and all atoms
in it alike, whatever side an insertion at one of its ends counts to (`GapStep`,
`GapText`). So every gap stands in the last text (`GapsStand`), the ranges lie between the
gaps in order (`RangesOrder`), and putting the new text of each range between them, with
whole lines trimmed that both share (`TrimmedTrims`), gives the last text range by range
(`AddRange`, `RangesGive`). The gaps before the first and after the last atom are
included, as offsets -1 and one past the end (`FwdFront`, `FwdEnd`), so that a range at an
end of the text is not a case of its own.

The theorems in `EditLogProofs` are about `Spec` of `EditLog` for every set of layouts that
`LayoutsFit` allows: any text, any number of handles and sites, steps in any order their
prerequisites allow, gofmt after any of them.

* `AlwaysTyped` (`TypeOK`): every mark lies in the text, and the log has a batch per past
  text.
* `AlwaysReplays` (`Replays`): somebody who replays the recorded edits one step after the
  other with `tree.splice` has the text that the simulation took each hash of.
* `AlwaysComposable` (`Composable`): the batches since any past text compose into one that
  makes the current text of it, so that `sim.apply` and `applyComponent` never see an
  error of `composeBatches`.

By `SpliceGives` and `ChainComposes` it is enough that every step makes edits in order
inside the text of which no two start together (`StepStands`). `sortIntents` sees to the
order (`SortedInOrder`), and to edits that overlap; but an edit that ends before it starts
would pass, and so would a deletion of nothing beside another edit. A step takes the
start of what it replaces from `cur` with `after` set and the end with it unset, each of
them through batches that know nothing of each other. That the two never meet or cross is
the invariant, `Standing`: between them stands code that no step takes without taking
one of the offsets along. So it says where code is (`AnchorsOutside`: outside of the lines
that go; `AnchorsInside`: in a line of which no finish step was made, or in one that
had other code) and that no mark covers it, because marks are what a finish step deletes
wherever they are; that the offsets which still have a place are in order and not inside of
marks (`OffsetsOrdered`, `OffsetsStand`); and that marks of a component lie in the text and
each span has code that no other mark covers (`MarksStand`, `MarksOwn`), so that what a
finish step deletes is never empty. Of the text itself it says nothing, and needs nothing.

A batch hands this on (`Passes`) in one of three ways. It takes no code away
(`NoCodeTaken`: an add step, gofmt). It replaces what is between two offsets by code,
which then stands where the code it took stood (`RangeReplaced`: a site). Or it takes the line
of a handle, and marks as a whole (`LineFinished`): code outside of the line and of marks
is missed by all of its edits (`FinishMisses`), and an offset inside of the line that has
code on both sides has no place afterwards (`FinishRewrites`), so that nothing need be
said of it. For each step then, its edits are of one of the three kinds: `AddStands`,
`SiteStands`, `FinishStands`, `FormatStands`. `History` keeps the texts between the batches
for `ChainComposes`.

`splice` sorts the edits and replaces one after the other. `BehindSteps` puts the text
together from its end instead of its front; after j edits the text is what is before the
next edit, unchanged, and that (`ReplacedFront`).

### Subjects

The theorems about subjects (`SubscriptionProofs`) are about subjects of any length
over any set of words of which there are two (`WordsAssumption`), without tokens that begin like a wildcard:

* `SubjectCoversExact`, `SubsetMatchExact`: a subject covers, or takes in, another
  exactly when every message of the one is one of the other.
* `SubjectsCollideExact`: two subjects collide exactly when some message is received
  by both.

One direction follows the definitions token by token (`CoversSound`). For the
other, one message tells (`CoversComplete`): where the subject has a wildcard, the
sample has a word that the pattern does not have there, and where it ends with
`>`, enough tokens to be longer than the pattern; that is what the second word is
for. `SubsetIsCover` shows that the two independent implementations
(`natsapi.SubjectIsSubsetMatch`, `subjectCovers`) agree; `CommonMessage` builds
the message of two subjects that collide. The run `subscriptions` compares the
same operators by enumeration (`SubjectsExact` in `SubjectsAgree`).

### Subscriptions

The theorems in `SubscriptionProofs` are about every set of `Followed` programs: any
number of calls, handlers, options and streams, any answers a person gives at any scope,
units and components applied and calls migrated by hand in every order.

* `SubscriptionTypeCorrect` (`TypeOK`): answers can be read back, plans, rewrites and
  copies are about calls and handlers that are there.
* `AcksAlwaysAgree` (`AcksAgree`): the handler is wrapped to ack exactly when the legacy
  library acked and nobody chose otherwise; with no wrapper the handler acks or the new
  consumer expects no acks, and never both a wrapper and such a consumer.
* `ConfigAlwaysAccepted` (`ConfigAccepted`): the config an edit writes sets each field
  once, and natsvet's own rule `consumerconfig` has nothing to say of it where it had
  nothing to say of the legacy config; `NotCarried` names the calls it is not true of.
* `HandlersAlwaysFit` (`HandlersFit`): whoever names a handler finds the type it needs; a
  split has its copy, declared once.
* `StatementsAlwaysFit` (`StatementsFit`): the statement that defines a subscription
  compiles when it is rewritten.
* `SubjectsAlwaysAgree` (`SubjectsAgree`), for subjects up to any length.
* `DefaultsAlwaysKept` (`DefaultsKeep`, an action property): accepting all defaults
  gives each call the default its plan showed.

The first six are about calls that were migrated, some of them long ago, by plans that
nobody keeps. `Made` is the invariant that remembers enough: each rewrite that an edit
wrote was built (`Build`) from answers that could be read and that left no question of
the call open, and nothing in it was left to a person. That an edit writes only such
rewrites is `MechanicalUnit`: a unit's step carries edits when all its calls are
mechanical, and a call within a handler is so because the call it belongs to is
(`MechanicalWithin`, by the depth that `Nests` gives). `AcksAgree` is then about
`Build` alone: what each option gives of acks (`OptionAcks`), carried through the loop
over options (`ParseFields`) and through the selections of `ConfigFields`.

`ConfigAccepted` compares two configs. Both are lists of fields made by the same loops
and cut and joined differently; as no name is twice in them, each is as good as the set
of its fields (`Fields`, `Gives`), and the sets are those of the options (`Settable`)
with a few named fields more or less (`LegacySet`, `PullSet`, `ConsumerSet`, `PushSet`,
`OrderedSet`). So a field of the new config is either the same as before (`Same`) or
absent, and what differs is said once for each kind of consumer: `PullOf`, `PushOf`,
`OrderedOf`. Under each check of `consumerconfig` a lemma (`SameNegatives` to
`SameDurableName`) carries the verdict over, and `PullAccepted`, `PushAccepted` and
`OrderedAccepted` put them together. The proof found what the run had missed: a
negative limit of pull requests, which nothing checks of a push consumer (Findings);
the run has it now.

`HandlersFit` also relates calls to each other. `HandlersKept` says that the handlers
retyped are those of the calls migrated in place, that no call left names one of them,
and that there is a list of the calls that were split which runs along `copies`. The
delicate clause is that a copy is declared once: two calls of one handler in one unit
are split in one step only where `SplitTwice` says so, because all who name a
handler are linked when it is not shared, and a shared one links nobody (`UnitAlone`,
with `ClassesConnect`).

`DefaultsKeep` compares two loops: the entries of a plan, which group the sites that
ask by what they are asked and offered (`Pending`), and `lookup`, which takes the
narrowest answer there is. `PendingParts` says that each question without an answer is
in one entry, the first of its pattern going to the module and others to their sites;
`DefaultGiven`, that an answer for a site outranks the module's.

### Only model-checked

* `StepsBuild` and `SkippedUntouched`: not true of every program (see
  Findings), so the instance says for which. `AnswersMeant` and `PlanResumes` exempt
  sites of one text that are renumbered (`Renumbered`, `AskedAgain`).
* `TextAsPlanned`, `LostToFinish` and `MarksFollow` of `EditLog`. They say more than that
  edits can be made and replayed: that they are the edits meant. They are not true of every
  layout: two sites that overlap take each other's code, a site across the end of a
  handle's line is lost with it, and a text that already spells a sibling's name
  has one that no mark covers. Also, `Intended` is a list built with `FlattenSeq` and
  compared by `SelectSeq`, folds and loops about which the library has facts only as
  theorems with an operator parameter, which the provers cannot instantiate.
* The properties of `ImportEdits`, for the latter reason: `ImportsExact` relates the
  whole text to what it is to mean. It exempts packages whose name is guessed wrong
  (`Misnamed`) and those that look used (`LooksUsed`).
* Liveness, as anything about `ENABLED` is out of the prover's reach.

## Findings

* `apply_component`. `apply -component` checks each step against the hash that
  the simulation of the whole plan, in plan order, gives it (`apply.go:66-76`,
  `build.go:210-262`). A machine step of an earlier component in the same file is
  in that hash, even one whose question nobody has answered, and not in the
  file: the run exits 1 with "changed since the plan" though nothing changed.
  `spec.md:411` says it "applies that component's machine steps in order". The
  run shows it on two components in one file. Without `-component` a hash is wrong
  only for what failed steps leave in the simulation, which is a theorem and the first
  item of the second list.

* `imports_replay`. Take a block with `"example.org/a"` followed by nats.go, and a
  step after which the file uses `jetstream` and no longer nats.go. `importEdits`
  deletes the line of nats.go, `[s, e)`, and inserts the one of `jetstream` after
  `example.org/a`, at `s`. `sortIntents` (`rewrite.go:405-421`) finds no overlap,
  and the simulation inserts, then deletes what was there. `tree.splice`
  (`apply.go:86`) orders edits by `Start` alone and goes from the back: both edits
  start at `s`, the insertion comes first, and the deletion then takes away the
  `e-s` bytes at `s`, which are the front of the new line. What is left is the end
  of that line and the old one; it does not type-check and is restored: `apply`
  never gets past this step. `SKILL.md:89` gives an
  agent the same edits. A step whose edits gofmt touches up is safe, because
  `composeBatches` records edits that are apart (`ComposedSplice`).

* `code_skip`. Components of one function whose first handles have the same name
  are numbered by position (`components.go:789`). Take `js`, `js.2` and `js.3` in one
  function, the first answered `migrate` and the second `skip`. Once the first is
  migrated it is gone from the next plan: what was `js.2` is `js` and is
  migrated under that answer, and what was `js.3` is `js.2` and is skipped.
  The refusal of stale answers does not see it, because the ids exist. `spec.md:186`
  says "An edit outside a site or component therefore leaves its id unchanged",
  and `spec.md:189` "A skipped component never migrates". With two handles the
  answer to skip names nothing afterwards and the planner refuses to plan
  (`build.go:86-91`), which is in the passing run `code`. Sites of one text have
  ordinals as well: see the second list.

* `code_types`. `j2 := js` with `j2` returned somewhere: `j2` gets no sibling, `js`
  does. The finish step waits for the sites of `j2` and not for the copy
  (`steps.go:347-377`); it removes `js` and gives its name to the sibling, and `j2 := js`,
  which still feeds the return, copies a value of the other type. `spec.md:265`
  says "Every step SHALL type-check wherever the component's declarations sit".
  `migrate apply` finds out when it type-checks, and restores.

Other disagreements, found by reading while modelling, without a run of their own.
Where a property exempts such code, the exemption is a named definition next to it.

* A step that fails in the simulation by itself, in its second file or later, keeps its
  edits in the files before (`build.go:243-257`, `steps.go:1217-1228`,
  `imports.go:72-93`): only a component's single step is undone (`sm.restore`). For
  instance `var a, b = js, js` is two flows of one statement, and `removeIntents`
  (`steps.go:743-747`) deletes its line once for each: the two overlap. The hash of the
  next machine step of such a file is then of a text that no step makes, and plain
  `apply` is refused, in every run, until a person makes the failed step's edits. `spec.md:394`
  says "every recorded hash matches" when the steps of a plan are applied in order.
  `PlainRunNotRefused` exempts it (`LeftBehind`); without the exemption `apply_core`
  fails.
* `typeCheck` (`apply.go:286,330`) loads the packages that hold a changed file. One that
  imports them and stops compiling by the step is not noticed, though `apply` "never
  leaves a broken tree" (`spec.md:408`); the next plan is refused because the module
  does not type-check. `SuccessKeepsBuilding` exempts it (`BrokenUnseen`), and
  `AtomicApply` does not promise it.
* `importName` (`imports.go:34-51`) cuts the last element of a path at its first dot or
  dash: it takes `.../go-hclog` for `go` and `.../go-redis/v9` for `go-redis`, and
  `importEdits` removes them as unused (line 103) from a file that uses `hclog` and
  `redis`. The type check restores the file, and no step in it is ever applied by the
  tool. The other way round, `usedNames` (lines 324-336) takes a variable before a dot
  for a package: with a local variable `time` the import stays, unused, and with one
  named `jetstream` (or `nats`, `context`) an import is added that nothing uses.
  `ImportsExact` exempts both (`Misnamed`, `LooksUsed`).
* Sites of one text in one function are told apart by an ordinal, which every plan
  gives again (`classify.go:226-240`). Once the first is migrated the second has its id
  and takes its answer, given for a site that is gone; with three of them and two
  answered, the third takes the answer of the second; with the first and the third
  answered, the third, whose id is now the second's, is asked again and its step loses
  its edits. `spec.md:186`
  says "An edit outside a site or component therefore leaves its id unchanged, and a
  site's id changes only when its own text does", and the design of the ids
  (`migrate-hardening`, `design.md:114`) gives this as the reason against ordinals: "a
  site-scoped answer would then silently move to the next site". `AnswersMeant` and
  `PlanResumes` exempt it (`Renumbered`, `AskedAgain`); without the exemption `code`
  fails.
* `for si := range js.StreamsInfo() { js.UpdateStream(&si.Config) }`: what a call
  returns is followed by `valueContext` (`classify.go:1456`), which has no case for a
  range; only for variables `useContext` has one (`units.go:270`). So the first call is guided,
  and `si`, which has its type from it, is linked with the second call alone: a unit
  without problems, migrated by a machine step while `si` is still a `*nats.StreamInfo`.
  `apply` finds out when it type-checks, restores, and meets the step again in every
  later run, against `spec.md:265`. A variable that holds a result without a counterpart
  (`fitDifferent`, `classify.go:1357`) is not linked either. `ValuesAgree` exempts such
  variables and their copies (`Adrift`), and only where they meet what is or is not
  migrated; without the exemption TLC finds it violated after one step.
* Component-scoped answers to the questions of a site are looked up under the
  component's id before components that share a unit are merged
  (`build.go:59`, `decisions.go:154`), and the plan shows the id after.
* `siblingName` (`components.go:395`) looks a name up at the position of the handle:
  one that is declared later in the same scope is not seen, and the sibling takes it.
* The placeholder `_ = js` is recognised by its form (`steps.go:922`): one that a
  person wrote is removed by the finish step as well.
* `var js = s.js` inside a function declares a sibling that nothing may use
  (`steps.go:579`): the file does not compile until its sites are migrated.
* `excludeTests` (`build.go:98`) marks a component blocked at its sites in test files. One
  that reaches a test by a handle without a site there is not blocked, though
  `spec.md:261` says it is as soon as it "reaches test code".
* `nats.ConsumerFilterSubjects` sets `FilterSubjects` (`table.go:261`) and the
  rewrite adds `FilterSubject` all the same (`subscribe.go:444,514,531`): natsvet's
  own `checkFilters` reports the result (`NotCarried`).
* Two options that set one field, which nats.go resolves to the last, give a
  composite literal with the field twice, which does not compile (`NotCarried`).
* `nats.MaxRequestBatch(-1)` given to a callback subscription says nothing to a push
  consumer, and `consumerconfig` checks it of pull consumers only (line 236). The
  rewrite to a pull consumer keeps it (`table.go:265`), and natsvet reports the config
  it has written itself. `nats.PullMaxWaiting` likewise, where the deliver subject is
  not a constant (`NotCarried`).
* With `Bind` or the ack answer `none` the wrapper goes away, and the policy of a
  consumer that exists already stays as it is. The answer `none` beside
  `MaxAckPending` gives a config that the server refuses (`NotCarried`).
* Two subscriptions in one component that share a handler with a core subscription
  are both split in the component's single step, which then declares the copy
  twice (`SplitTwice`); the type check restores it.
* A handler named through its package, or called directly, is no user of the
  handler to `handlerOf`, which looks at identifiers. `HandlersFit` is about those
  who pass it by its name.
* Two subscriptions, each in the handler of the other, own each other
  (`subscribe.go:272-278`). Both are guided, but `unitStep` asks only sites without an
  owner (`steps.go:198`): their unit is a machine step without edits (`Nests`).
* `Unsubscribe` or `Drain` of a pull subscription is deleted with its whole line
  (`subscribe.go:878`), and with it whatever else stands on that line.
* A subscription inside the handler of another is classified in file order: when
  it comes later, the outer one counts it as not classified and is left to a person.
* An answer for the module given to one entry of the plan also answers the sites
  whose other default is listed as an entry of its own.
* A token such as `*a` is a wildcard to `SubjectIsSubsetMatch` and
  `SubjectsCollide`, which look at its first byte, as in the server's code they
  come from; `subject.go:120,157` speaks of subjects in general. The theorems and
  `SubjectsAgree` leave such tokens out.

## Limits

An edit that a person saves after a run has read the file and before it writes
it is overwritten; the properties exempt such files (`lost`), since no tool
without file locks does otherwise, and all other files are held to them.
In `MigrateApply`, answers for single sites are part of `answers` for a piece of
work. Warnings, `-tests`, package patterns and the text of every message are left
out. A malformed answers file is an early exit 1 before
anything is read, like a module that does not build. `clash` is an oracle for
`cur` and the overlap tests: it depends only on what is tried in the same plan; `alone`
is one for the errors of `sim.apply` that depend on the step itself, and does not say
which steps these are.

`EditLog` has handles that are local variables. What the steps do to fields,
parameters and arguments is in `CodeSteps`, as declarations, reads and writes and
not as text: the separators of `declIntent` and `flowIntent` are not modelled, nor are
the two bytes `delPlus` deletes (`steps.go:677`; a hazard without a property).
`ImportEdits` leaves out imports that are given a name (but `_` and `.`) and comments in
import blocks; that two variables or packages of one name shadow each other is nothing
the planner looks at. A file that
gofmt would reorder keeps its order there, as `formatEdits` gives up on it.

In `CodeSteps` a program has at most three handles and four sites, and a person's hand
edits are those the plan asks for. The text of code is the scope and position of
its names; a call's arguments are a class (`same`, `count`, `spread`, `differ`).
In `SubscriptionSteps` handles are whatever `recv` says, and the edits of a call
are its rewrite, not its bytes; the flow-control ack policy of the server is left
out of `ConsumerRules`. Which order steps take is free there; `CodeSteps` has the order.

## Not modelled

* The rules on streams, key-value and object store configs, on flows through a
  function, on lookups and on options other than those of a subscription
  (`analyzers/`): each is a function of one type-checked package without state,
  and its tests give input and reports side by side.
* `natsapi/masker.go`: which later writes forget a field. It matters to rules
  only through fields that are unknown, which `ConsumerRules` takes as any field may
  be.
* `natsapi/transform.go`: subject transforms; text to text.
* Loading and rendering, the command line, the plugin and the generators: input and
  output.
* The table of the API beyond one entry of each kind: data.

`PROJECT.json` says of each component what is and what is not there.

## Plan

1. `MigratePlan`, `MigrateApply`, `AtomicApply` with their proofs: done.
2. `Edits`, `EditLog`, `ComposeBatches`, `ImportEdits` with their proofs: done for local
   handles. Left: arguments with their separators (`delPlus`), and which layouts
   `TextAsPlanned` is a theorem of.
3. `Handles`, `Statements`, `Sites`, `Plans`, `CodeSteps` and proofs of what siblings
   hold: done. Left: `excludeTests`; `CodeSteps` as the
   oracle `Builds` of `MigrateApply`.
4. `Subjects`, `ConsumerRules`, `Answers`, `Subscriptions`, `SubscriptionSteps`, with
   `SubscriptionProofs`: done. Left: the statements' text.
5. The masker, the rules on streams and flows.
