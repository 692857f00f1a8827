# A TLA+ model of the interpreter

The program is an interpreter for a small language, started in one of three
modes by `main.cpp`: interactively (`factory`), on a file (`factory run`), or
on a file under a stepping debugger (`factory debug`). It is single-threaded.
What makes it hard is not concurrency but *state that outlives every line*:
checker and executor are one object each for the whole session, both keep a
stack, a counter and a table of globals, and lines may fail in the middle of
any pass. The shell then rolls back one of the two.

## The system

| Component | State it keeps | Operations | Talks to |
|---|---|---|---|
| Tokenizer (`assembler/Tokenizer.cpp`) | position and line in the text | `tokenize` | called by the shell |
| Parser (`assembler/Parser.cpp`) | position in the tokens | `parse`, `parseOne` | called by the shell |
| Checker (`checker/Checker.cpp`) | `scopes_`, `globalScope_`, its snapshot, `functionDepth_`, `strictGlobalCheck_` | `check`, `rollbackLastCheck`, `setStrictGlobalCheck` | called by the shell, throws `CheckError` |
| Static binding (`optimizer/StaticBindingOptimizer.h`) | `scopes_` for one pass, the `distance` members of the tree | `optimize` | reads the tree the checker accepted, writes what the executor reads |
| Constant folding (`optimizer/ConstantFoldingOptimizer.cpp`) | none | `optimize` | rewrites the tree |
| Executor (`executor/Executor.cpp`, `.h`) | `global_`, `env_`, `execDepth_`, `functions_`, `ownedStmts_`, arrays, `observer_` | `execute`, `setDebugObserver`, read-only queries | throws `std::runtime_error`, `ReturnException`; calls the observer |
| Shell (`shell/Shell.cpp`) | in `run`: `accumulated`, `depth`, `pendingElse` | `run`, `processLine`, `runFile`, `runDebug` | drives everything |
| Debugger (`shell/Debugger.cpp`) | `mode_`, `nextDepth_`, `breakpoints_`, watch lists | `beforeStatement`, the commands | called by the executor in the middle of `run`, throws `DebugQuitRequest` |

What is hard, component by component, and what makes each correct:

* **Checker.** A `CheckError` leaves nested visitors through their catch clauses;
  the scope stack and the function counter must come out right. The global table
  is snapshot by `check()`, used provisionally by the pre-check of the REPL, and
  rolled back by three callers under different conditions.
* **Static binding.** Distances are computed on the source text and used on the
  environment chain of the run, which has frames for calls and closures, and in
  which a declaration may have been skipped.
* **Executor.** Exceptions of four kinds leave nested frames; `env_` and
  `execDepth_` must be restored. `functions_` keeps raw pointers to environments
  that live on the C++ stack. `ReturnException` is caught by calls only.
* **Shell.** Two scanners decide which braces count; lines are skipped, joined,
  awaited and committed; each mode handles errors in its own way.
* **Debugger.** `next` compares depths that exceptions change underneath it; the
  executor holds the address of a local variable of `runDebug`; watches look a
  variable up in another way than the program does.
* **Constant folding** evaluates expressions by rules of its own, which are not
  quite the executor's (`!1`, for instance, is an error of the folder and a value
  of the executor): the program must not be able to tell.
* **Arrays** may contain themselves, and numbers are cast to three integer types.
* **Tokenizer and parser.** What is a token, which line it is on, which tree a text
  has, and at which token an error is reported; the shell looks at text and trees
  a second time, with code of its own.

The full list of hazards, each at its line and with the properties that cover
it, is in `PROJECT.json`.

## The modules

```
Ast ── Checker ──────────────────────┐
 └──── Binding ──────── Executor ────┼── Session ── DebugSession     Ledger (abstract)
 └──── Values ── Folding ─┬──────────┘                  │
                          └── Optimized     Debugger ───┘
Arrays        Braces ── Tokens        Repl ── Grammar
```

(Executor extends Values too; Optimized is Executor, Binding and Folding without a
shell; Debugger extends Executor.)

* **Ast** — the tree as records, values, and work items. A node is
  `[kind, tok, val, line, kids, params]`. `Name` and `Node` are constants with
  assumptions (`NodeAssumption`, `ArityAssumption`, `KidsAssumption`): what the
  constructors of `Expr.h` and `Stmt.h` allow, and that `Node` is closed under children.
* **Checker**, **Binding**, **Executor** — one module per pass. Each pass is a set
  of mutually recursive visitors, so its C++ call stack is a stack of
  *activations* (`checking`, `binding`, `frames`), but only of the visitors that
  do something on their way out: those that hold a scope or an environment. An
  activation keeps the *work* it has left, a sequence of `[op, node]` items; a
  visitor replaces the item at its head by the items for its children and what
  it does after them. An exception is a variable (`checkError`, `exc`) and leaves
  the activations one by one, each running its catch clause or its guards. One
  action stands for one visitor, or for the part of it between two visits.
  * In **Executor** the values of subexpressions already evaluated are on `vals`;
    environments are a stack (`envs`), because they are C++ locals, and each
    knows its chain of enclosing ones. Leaving a frame destroys its environment:
    a closure that pointed to it becomes `Dangling`. Calling through it is
    undefined behaviour, modelled as a choice between every live environment (a
    stack slot used again) and the end of the process (`CallDangling`).
* **Session** — the shell's pipeline and the three modes: `ProcessLine`,
  `Precheck`, `LoadFile`/`NextStatement`/`EndOfFile`, then `Checking`,
  `Optimizing`, `Interpreting` and the ends of each, with the rollback (or the
  absence of one) of each caller. `orphans` is a history variable: names a
  rollback took from the checker after a run had failed.
* **Ledger** — what a session promises about global names, without passes:
  names become known in a batch, which is kept or dropped as a whole (`Keep`,
  `Refuse`, `Abandon`); what is known stays known; a trial leaves no trace; only names
  that were declared come into being, those of an abandoned input included (`lost`).
  `Session!LedgerSpec` is `Ledger!Spec` under the refinement mapping `known <-`
  `globalScope` without the names of the running input, `fresh <-` those names, `held <-`
  what `global_` and `functions_` hold, `lost <- orphans`, `trial <-` the pre-check.
* **Folding** — `isConst`, `eval`, `foldExpr`, `foldStmt` as recursive functions on
  trees. `OptimizeDone` of Session folds every program it executes.
* **Optimized** — a program is executed as parsed, then bound, folded and executed
  again by a new executor; histories keep what it prints and which node throws.
  `Placed` says where each node of a program stands in its text: in which blocks, fors
  and functions, by the names these declare. It is what the scopes of Resolver and the
  environments of the executor are both compared with.
* **Debugger**, **DebugSession** — `beforeStatement`, `shouldPause`, the commands and
  the watch lists; `DebugSession` interleaves them with a session in debug mode.
  While `notified` holds a statement the executor is inside the call and does
  nothing. `DebugSession!Plain` is the same session without a debugger, and
  `DebuggerIsTransparent` says that a debug run is one of its runs. Two histories, `nextEnvs` and
  `fewestEnvs`, tell whether the scope in which "next" was given is still open.
* **Repl** — `Shell::run`: how lines become statements. A line is a sequence of
  tokens of the grammar of statements (`if`, `else`, `for`, braces, a whole simple
  statement, one that reads an undeclared name, one that does not parse). `Parse`
  follows `Parser::statement` with a stack of what is open; `Settle` and `Complete` cut
  from it the activations that return at once.
* **Braces** — `netBraces` and the tokenizer reading the same characters side by
  side; `Repl` counts brace tokens, and `BracesAgree` says when that is right.
* **Tokens** — the tokenizer on a text of characters: one action per branch of
  `scanToken`, tokens with their first and last character and their line. It extends
  Braces, whose two scanners read the text as it is typed, so that Braces' short
  account of the tokenizer is checked against the long one.
* **Grammar** — the parser, one operator per method: tokens in, tree and rest out, or
  the token an error names. The methods call each other through one recursive
  function, `Parser`. The same module holds the grammar as rules and generates the
  sentences it has, without parsing anything; and it runs `Repl`'s parser of
  statement tokens on the same texts.
* **Arrays** — `array(n)`, `a[i]`, `a[i] = v` and `print`, on a heap in which arrays
  contain each other. `walk` is the recursion of `stringify`. Doubles have a few bits
  of mantissa and the integer types `LongBits` bits, and a stream writes `Digits`
  decimal digits (six in the code), so that rounding, infinities and out-of-range casts
  happen in a small instance as they do at 53 and 64 bits. Between two multiples of the
  last digit the nearer is written; either, where a number lies midway.
* **Programs**, **FilePrograms** — constructors for the small programs of the `MC`
  modules, and the files.
* **Induction**, **Stacks** — lemmas on numbers and on stacks; **ExecutorProofs** (and
  Binding), **SessionProofs** (Checker, Session and DebugSession), **OptimizedProofs**,
  **TokensProofs** (and Braces), **ArraysProofs**, **ReplProofs** — the theorems of the modules
  they are named after.

Order of work: the pipeline and its state first (Ast, Checker, Binding,
Executor, Session, Ledger), since everything else feeds it; then the debugger,
which interleaves with it; then the REPL loop and the scanners, which decide
what it is fed; then the passes that are functions (folding, tokens, grammar) and
the data the pipeline abstracts from (Arrays).

## What is checked

Every run gives the programs by definition; `Name` and `Node` follow from them
(`Node` with the trees that folding makes of them, so folding itself is a function
on `Foldable`, any tree, and `FoldAssumption` says it stays in `Node`).

| Run | Bounds | What it asks |
|---|---|---|
| `session` | a shell on one of nineteen files, or a shell at the prompt with eleven lines and four pre-checked blocks over three names, in every order and without limit on their number; the tables saturate, so the state space is finite | After any history of lines that succeed, fail in the checker or fail half-way through execution: stacks agree (`CheckerStacksAgree`), nothing is left between inputs (`IdleIsClean`), a return is always caught (`ReturnIsCaught`), the checker knows what the executor holds (`HeldNamesAreKnown`, `GlobalsDefinedOnce`, with the exception that `orphans` records), the shell implements `Ledger` (`LedgerSpec`), the prompt comes back (`EveryLineEnds`), unless a call into a destroyed environment ended the process. The inputs include recursion, a closure over a block, a call through a dangling closure, returns out of nested frames, duplicate parameters and self-reads. The files visit every kind of node and raise each runtime error once: `EnvironmentStack` on every way out of every visitor, `StoreInBounds` with a program that puts a shorter array into the variable while the value is evaluated, `CallRunsCheckedDecl` with one that declares the callee anew in an argument, and `FileEnds`: `runFile` always returns. |
| `optimizers` | every way to declare a name or not in three nested scopes of five kinds and to read or assign it in each; declarations that are skipped, that come too late, or stand in a scope of their own; expressions of two operators over five leaves in twelve places (operand, condition never reached, beside a division by zero, …); four programs with folding in every kind of statement | `ScopesAreEnvironments`: where a variable is used, the environments are the scopes around the use. `StaticIsDynamic`: the environment a distance leads to is the one a search would find; of a name that is declared later in its scope only that the distance stays below `global_`. `SameOutcome`: what is printed, how and at which node it ends, and what exists afterwards are the same with and without the optimizers, unless a distance led elsewhere. The one difference it admits is that the message about a variable that is not there at its distance lacks the line. A declaration that is skipped is tried with a variable of its name around it and without one. |
| `debug` | seven files, two breakpoint lines, three watches, every sequence of commands | `NextStepsOverFrames`, `ContinueRunsToEnd`, `ObserverRemoved`; `NextStepsOverFrames` with scopes of one depth after each other (iterations, blocks, `g() + g()`): `next` stays in its scope while that is open, and may stop in a later one of no greater depth. `WatchIsWhatIsPrinted` at every stop before a `print`, with recursion and shadowing, where the distance leads to what a search finds; one file declares a name after the function that reads it, and there it does not; `DebuggerIsTransparent`: every step is a step of the same file without a debugger, or none. |
| `repl` | every line of up to two tokens and five longer ones with chains of ifs, up to five tokens collected (`MaxTokens`) before another line is typed | `DepthIsOpenBraces`, `WaitsForAReason`, `NeverCutsAnIf`, `OnlyClosingLinesSpoil`. The chains reach an if in an else in an if, typed on one line or on several, and an if in an if or a for; the two-token lines reach a block in a block. |
| `text` | texts of up to six characters over three alphabets of six (braces and what hides them; words and numbers; operators) | `LongestMatch`, `NothingDropped`, `LinesAreRight` say what the tokens of a text are without saying how they are found; `BraceTokensAreCounted` and `BracesAgree` tie the tokens to the shell's brace counting. Every pair of scanner states is reached within five characters, and a string, a comment and a line end fit into six. |
| `arrays` | two arrays of up to two elements; mantissas of two bits and integers of five: as with 53 and 64 bits, the largest integer (15, 31) is no double and rounds up to a power of two; a stream writes one digit, so both integers beyond `long long` and halves are rounded | `VisitedIsPath`, `DotsMeanCycle`, `NothingIsLost`, `PrintEnds` over every heap, with self-reference, mutual reference and sharing; `CastsKeepTheNumber`, `TextSaysNumber` over every double: an integer that a `long long` holds is written exactly, any other number off by half of the last digit at most. |
| `grammar` | texts of six to eleven words over nine alphabets, each for some methods of the parser; a text is extended while it may still become a program | `AcceptsTheGrammar`: exactly the sentences of the grammar are accepted. `ErrorsAreFinal`: an error at a token is reported only when no program begins like the text. `TreeIsTheText` and `TreeBindsRight` determine the tree. `ReplReadsTheSame`: the parser that `Repl` uses, and its `hasPendingElse`, agree with the real ones on every sequence of six statement tokens. |

`MaxArrays` bounds the arrays of a session: no input is taken once there are
more. Every property has a mutant in `PROJECT.json`: a plausible bug in
the code under which the property fails.

**Fairness.** `Session` asks for `WF(Pipeline)`: there is one thread, and what has
begun goes on; nothing makes a user type, so `Input` has no fairness. Under the
debugger the command loop waits for a person: the commands have no fairness,
`BeforeStatement` and the pipeline have. Programs of the runs terminate; for
programs with endless loops the liveness properties do not hold, nor should
they. In `session` and `debug` the next-state relation may only stutter at the
end (`Stopped`, and `Done` in `Optimized`); in `Repl` `Closed` plays that role.
`Arrays` asks for `WF(Stringify)`: printing goes on by itself, programs do as they
like. `text` and `grammar` end when the text does, so their deadlock check is off.
Symmetry is not used: names, lines and words mean something to the passes.

### What the program does otherwise than documented

The runs named `Find…` each check one statement of the documentation or of a
comment that the model refutes; `PROJECT.json` quotes it.

| Run | Statement | What happens |
|---|---|---|
| `FindClosure` | closures are valid during `execute()` | a recursive call declares an inner function anew; after its return the outer call uses the destroyed environment |
| `FindPrinted` | an integer is printed as it is | 2^63 (written 9223372036854775807 or ...808) is let through to an out-of-range cast and prints negative |
| `FindStrictArray` | `array(n)` creates an array | not on a line inside a block: the pre-check takes `array` for an undeclared variable |
| `FindRefused` | "already declared" means a second `var` | a rejected line leaves its declarations in the checker |
| `FindNext` | `next` runs the current statement | it stops inside an `if` without braces |

Smaller disagreements seen on the way, which no run is spent on: a variable
created by a line that failed later is refused by the pre-check as undeclared (the
`orphans` of Session); a read through a distance whose declaration was skipped
(`{ if (0) var a = 2; print a; }`), and an array too long for a vector, raise errors
without the "[line N]" that `docs/index.html:820` and `:878` say all of them have, and if
a variable of the name exists further out, the program as parsed prints that one;
`docs/index.html:541` has `10 / 3` print 3.33333333333333, and a stream's six digits make
it 3.33333 (and 1.23457e+19 of 12345678901234567890); once the scope in which `next` was
given is left, the next stop may be in a function or block that has since been entered
at the same depth, such as `h` in `g() + h()`; after an unchecked
line that starts with `}` good lines may be skipped (`OnlyClosingLinesSpoil` says
that nothing else does it); `src/README.md` draws constant folding before static
binding, `main.cpp` installs them the other way round, which `SameOutcome` shows to
be harmless in that order.

## What is proved

TLC answers for the programs and bounds above; the theorems hold for every value
of the constants. They rest on the named assumptions only, all of which TLC
evaluates in the runs:

* `NodeAssumption`, `ArityAssumption`, `KidsAssumption` (Ast): the trees the
  constructors of `Expr.h` and `Stmt.h` can build, with statements and expressions
  where the classes have them;
* `SessionAssumption`, `ProgramAssumption`, `FoldAssumption` (Session): lines, blocks
  and files are sequences of statements, the parser returns no null statement, trees
  are finite (`Height`) and `Node` has what folding makes of them;
* `DebuggerAssumption`, `MaxLengthAssumption`, `ReplAssumption`: types of constants;
  `AlphabetsAssumption`: what `peek` returns behind the text is no character;
* `PlacedAssumption`, `SiteAssumption`, `SourcesAssumption` (Optimized): see below;
* `ArraysAssumption`, `PowersOfTwo`, `PowersOfTen`, `MemoryAssumption`, `StoredAssumption` (Arrays): the
  integers have more bits than a mantissa and fewer than the exponent reaches, no
  vector is longer than a `ptrdiff_t` counts; `PowersOfTwo` and `PowersOfTen` are arithmetic the
  provers lack.

`Induction` proves `SetInduction` and `LeastNumber`, induction over numbers with a set
in the place of the predicate, which the library has with an operator parameter
only. It is what the arguments about folding, texts and heaps below use. `Stacks`
holds what the proofs need of the operators of Ast on sequences.

### Each pass by itself

* **`StacksAgree`**, `Spec => []CheckerStacksAgree`, and **`CheckerTypes`**: at every
  moment `scopes_` has one entry for each visitor on the call stack that opened one
  and `functionDepth_` is the number of functions open, whichever `CheckError` is on
  its way out. Not inductive by itself: that `check()`, which opens no scope and pops
  none, is the bottom activation and no other (`CheckAtBottom`), and that it is entered
  only while nothing is being checked (`CheckerInPhase`), make it `SessionInv`.
  There is one lemma per kind of step of the checker, over lemmas on the shape of its
  stack, and one per group of the shell's actions.
* **`EnvironmentsAreAStack`**, `Spec => []EnvironmentStack`: `ScopeGuard` and `DepthGuard`
  restore what their visitors found. The `env_` a guard restores is right only if its
  frame saved the environment just below (`Aligned`); the chain that a call starts is
  right only if the closure of its function is alive (`ClosuresAlive`), which takes
  `Destroy` to cut off closures that leave with a frame, and the callee to be a name;
  so `ExecutorInv` types the work that frames have left (`FramesTyped`, `TaskType`).
  `ExecutorProofs` splits a step by what it does to the stack: `ProceedsInv`,
  `EnterFrameInv`, `LeaveScopeInv`; one lemma per group of visitors refers each action
  to one of the three.
* **`SessionTypes`**, `Spec => []SessionTypeOK`, **`NothingIsLeft`**, `Spec => []IdleIsClean`,
  and **`StoresInBounds`**, `Spec => []StoreInBounds`: the last two need to know which
  value on `vals` is which. A task takes values and leaves one, or none if it is about
  a statement (`Needs`, `Gives`); so the work that is left in a frame fixes how many
  values there are at each of its tasks (`Leveled`), and a frame starts where the task
  that entered it left off (`Balanced`). What an
  assignment to an element will find below its value, an array and a checked index
  (`CheckedElements`), lies deeper than anything the tasks before it touch (`Shelved`),
  although these may run any function; and no array ever gets shorter. The invariant
  is `RestInv`.

### What one pass relies on of another

The checker sees a statement once and knows nothing of runs. What it found out must
hold of statements that run much later, out of `functions_`, after folding, and after
lines that failed. In between stand properties of trees, each the greatest set of
nodes closed under the parts a run goes on with: no return outside a function
(`ReturnFree`), every function in it declared (`FuncsIn`), every name it would create
declared (`Admitted`), a name it does not declare (`Without`).

* **The checker establishes them**, by an argument from the end: when the rest of the
  work succeeds, what is still to be visited has the property in the state it will be
  visited in (`CheckSees`); with no work left this is trivial, and every visitor hands
  it back to the node it replaced by its children.
* **Folding keeps them**: `FoldStmt` is its recursive definition on parsed statements
  (`FoldStmtUnfolds`, by `SetInduction` on `Height`), and each case keeps each property.
* **The executor hands them on**: one lemma per property says that the work a visitor
  leaves in its place has it too. `Vouched` says what the checker has promised between
  the passes, `RunInv` what is then true of frames and functions, `RunsInPhase` that only
  `execute()` has frames. Their conjunction with the two invariants above is
  `ContractInv`.

From it follow **`ReturnsAreCaught`** (`ReturnIsCaught`), **`HeldNamesKnown`**
(`HeldNamesAreKnown`), **`GlobalsOnce`** (`GlobalsDefinedOnce`), **`CallsRunCheckedDecl`**
(`CallRunsCheckedDecl`), and **`SessionImplementsLedger`**, `Spec => LedgerSpec`: every
step of a session is a step of `Ledger` or none. `HeldNamesAreKnown` is not inductive
without `Covered`: a function that is held may create names later, when it is called,
and these have to be known, or recorded in `orphans`, all the time. The same case is
why `Ledger` has `lost`: a function that an abandoned line left behind creates a name
which that line declared, and which nobody knows by then.

### The text and the run

`Resolver` counts scopes while it walks the text, the executor counts environments
while the program runs, jumps into functions and comes back through exceptions. Two
invariants that meet in the text (`Placed`) say that both numbers are about the same
thing; with the types of the other passes they are `OptimizedInv`.

* **`ChainIsLexical`**, `Spec => []ScopesAreEnvironments`. The invariant is `RunPlaced`: every
  environment can be given the names of one scope (`ctx`) such that it holds no others
  (`HoldsDeclared`), the work left in each frame stands in the scopes its chain has been
  given (`WorkStands`), and so does the declaration of each function in those of its
  closure (`FunctionStands`); without the last part a call would know nothing. A step
  goes on in the same scopes, enters the one scope that a block, a for or a body opens,
  or leaves it (`ProceedsStands`, `EntersStands`, `LeavesStands`). After a call of a
  destroyed closure (`dangled`) nothing of the kind is true.
* **`DistanceIsSearch`**, `Spec => []StaticIsDynamic`. While the pass runs, what is left to
  be visited stands in as many scopes as `scopes_` has (`BindPlaced`); what
  `computeDistance` passes on its way is therefore a scope of the text, and a distance
  that was written passes none that declares the name, if that was known by then
  (`Resolved`, `timely`). With `ChainIsLexical` no environment before the distance holds
  the name, so a search gets as far.

The places are assumed to be those of the program: `PlacedAssumption` (a part stands in
the scopes of its node, and in one more if that opens one; a declaration's name is
among those of its scope; folding moves nothing) and `SiteAssumption` (two uses that
the model's `Site` does not tell apart stand in the same scopes), which TLC evaluates
for the programs of the run.

### Under the debugger

* **`NextIsRight`**, `DebugSpec => NextStepsOverFrames`: while the scope in which "next"
  was given is open, the program stops (without a breakpoint) at the next statement of
  that very scope and nowhere else; once it was left, at the next statement with no more
  environments than there were. It follows from `EnvironmentStack` (depths are
  environments minus one), from `StopInv`: a program that waits for the debugger is
  inside a frame, and `nextDepth_` still belongs to the `nextEnvs` of the last "next"; and
  from `FewestInv`: there are never fewer environments than `fewestEnvs` remembers, so as
  long as those of "next" are among them the depth cannot be smaller.
* **`NoDanglingObserver`**, `DebugSpec => []ObserverRemoved`: after every exit of
  `runDebug` the executor has forgotten the `Debugger` that was a local variable.
* **`DebugStacksAgree`**, **`DebugEnvironments`**, **`DebugKeepsTheRest`**: the invariants of
  the session hold under the debugger, where `DebugQuitRequest` is one more exception,
  thrown at any statement.
* **`DebuggerUnnoticed`**, `DebuggerIsTransparent` for the modes that read files: every
  step of a debug session is a step of the same files in file mode, or none. It rests
  on `ReturnsAreCaught`: for a `ReturnException` that nobody catches `runDebug` would roll
  the checker back and `runFile` would not.
* **`WatchesAreRight`**, `DebugSpec => []WatchIsWhatIsPrinted`: what a stop
  shows before a `print` of a variable, or of an element by its number, is what the
  statement prints, unless it throws or the debugger stops once more before that. A
  watch searches the chain by name, the statement reads at a distance computed before
  the run; so the property is about a print whose distance leads where a search does
  (`LeadsWhereSearched`). `DistanceIsSearch` proves
  that of `Optimized`, a pipeline without a shell, for names that are declared when the
  distance is computed; of a name that is declared later in its scope it may be false,
  and there a watch and its print may differ, as in one file of the run `debug`. The
  invariant, `WatchInv`, follows the visit of the print from the stop to the output, task by task (`Followed`): what is left of
  it is at the top of the work, no other task in any frame belongs to such a visit
  (`Lead`, `Quiet`), and what a stop would show of the expression (`Due`) is at first
  what it did show, then what is on `vals`. That a newer stop forgets the older one,
  and that no function can run in between, is `HeardInv` and the shape of the print.

### The prompt, texts and arrays

* **`DepthsAreRight`** (`DepthIsOpenBraces`), **`WaitsAreReasoned`** (`WaitsForAReason`),
  **`IfsAreNotCut`** (`NeverCutsAnIf`), **`BlocksStayGood`** (`OnlyClosingLinesSpoil`), for
  lines of every length. `ReplInv` adds that what is pending is an if that could take
  an else. The depth may then be 0 because a text that parses has as many braces
  closed as opened: the parser's stack holds one block for each brace that is open
  (`ParsedStack`, by induction on the text), and ends with nothing but ifs that have
  no else. Of a text without a for, that stack is a chain of else branches with an if
  at its end exactly when an else could follow, which is what `hasPendingElse` asks.
  A line that is let into a block has passed the pre-check, whose candidate is the
  text `Spoilt` asks about.
* **`VisitedArrays`** (`VisitedIsPath`), **`DepthIsBounded`**: on every heap `visited` is the
  path of arrays `stringify` is inside of, no array twice, so the recursion is never
  deeper than there are arrays. **`CutsAreCycles`** (`DotsMeanCycle`): only an array that
  contains itself is cut, since every activation is for an element of the one below
  (`WalkLinked`) and a set closed under elements that holds one of them holds all
  above. **`AllIsWritten`** (`NothingIsLost`): at the end of a print every array in what
  it wrote out was itself written out at least once, for the elements that have been
  passed over are (`Written`).
* **`CastsAreExact`**, **`TextsAreExact`** (`CastsKeepTheNumber`, `TextSaysNumber`), for
  integers, mantissas and digits of every width: the
  limits the code compares with are doubles (the lower one exactly, the upper one
  rounded up by one), so a cast behind them is exact but for the one double that
  `TextSaysNumber` names and `FindPrinted` shows. What the stream writes is off by half of its
  last digit at most (`RoundedIsNear`, `StreamedIsNear`), and that is little beside the number, since
  the unit of the last digit is chosen by it (`UnitIs`).
* **`BracesAlwaysAgree`** (`BracesAgree`), for texts of every length: `netBraces` counts
  the braces that become tokens as long as no string literal holds a backslash or a
  line end. Until then the two scanners are in the same state (`InStep`): equal counts
  alone would not survive the next character.
* **`NothingIsDropped`** (`NothingDropped`), **`LinesAreAlwaysRight`** (`LinesAreRight`),
  **`TokensAreLongest`** (`LongestMatch`), **`BracesAreTokens`** (`BraceTokensAreCounted`), for
  texts of every length over every alphabet. The branches of `scanToken` are brought
  to one form first: a lexeme up to j, a comment or a blank up to j, or a throw
  (`Steps`); where a loop over `peek` stops is `LeastNumber`. That comments and tokens
  are apart needs `CommentsEnd`: a comment that reaches the next character to be read
  has a line end or nothing there. For the braces, `CountInv` has a history of the
  states that Braces' tokenizer was in while the text was typed (`RunOf`); at the
  place where the scan is, that state is one between two tokens (`Between`) and its
  `net` is the number of brace tokens so far. **`TextsAreRead`**, `TextSpec => Spec`:
  every text is one Braces reads, so `BracesAlwaysAgree` holds of it.

### Only model-checked

`SameOutcome` compares two runs of one program that follow each other: it needs a
simulation between two executors, which is not written. The properties of `Grammar` say
what a recursive descent returns for every text; its methods are one recursive
function over words and positions, and the sentences they are compared with are
generated. Liveness under fairness (`EveryLineEnds`, `FileEnds`,
`ContinueRunsToEnd`, `PrintEnds`) is out of the prover's reach.

The invariants over sets of trees or of values (`Vouched`, `RunInv`, `EnvsTyped`) cannot be
evaluated by TLC as they stand, for they quantify over all sets of nodes; the
properties that follow from them are checked in the runs.

## Not modelled

* **Fractions, long strings and the text of numbers** in the pipeline: there numbers
  are integers and programs divide without a remainder, and strings are known by
  their length, over one letter. `Arrays` has halves, infinities and NaN, and the number of
  digits that a stream prints; it does not model whether they come with an exponent.
* **`array(n)` beyond memory.** A length of 2^64 and more is cast out of range and
  may become a short array (`CastsKeepTheNumber` names the exception); below that
  the allocation fails in the library. `stod` may throw for literals of hundreds of
  digits.
* **Lines in trees.** `Tokens` checks the line of every token, `Grammar`'s trees have
  none, `Session`'s have the lines their programs give them.
* **Every name and keyword.** `Grammar` has one type name and one alias for the lists
  of `statement()`, `Tokens` one keyword.
* **`inspect`, `breakpoints`, `watches`** in the debugger print and change nothing;
  arguments that are no numbers are refused with a message.
* **The usage errors of `main`**, and `NoOpOptimizer`, which nobody installs.
* **Memory exhaustion and stack overflow** of the host.
* `ownedStmts_`: trees are never freed, so a pointer to a declaration is always
  good; the model keeps the declaration itself.
