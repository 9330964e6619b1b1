# Verification of the PL/0E compiler

TLA+ models of the compiler in `src/compiler`, the TLC runs that check them on
small instances, and proofs for every value of the constants that TLAPS checks.
Line numbers refer to the source as it is in this repository.

1. [The system](#1-the-system)
2. [What is hard in it](#2-what-is-hard-in-it)
3. [The modules](#3-the-modules)
4. [The runs](#4-the-runs)
5. [Disagreements found](#5-disagreements-found)
6. [The proofs](#6-the-proofs)
7. [Fairness](#7-fairness)
8. [What is not modelled](#8-what-is-not-modelled)
9. [The plan](#9-the-plan)

To repeat a run: `tlc -workers 2 -config <cfg> <MC module>`; a proof: `tlapm <module>`.

## 1. The system

One sequential process; a phase runs to its end before the next begins, and the
phases talk through global data: the token (`token`, `tokbuf`, `toklineno`), the
syntax tree, the symbol tables and `syments`, the list of instructions
(`xhead`..`xtail`), the function and block objects (`mod`). `test/test.c` calls
init, parse, analysis, genir, gen_irasm; it never calls `optim()`, so the three
optimizer passes are library code.

| component | state | operations | properties that make it correct |
|---|---|---|---|
| scanner (`scan.c`) | line buffer and column, state of the automaton, `tokbuf`, line counters | `gettok`, `readc`, `unreadc`, `getkw` | tokens are the longest lexemes of the text; line numbers; it stops |
| parser (`parse.c`) | one token of look-ahead, the one before it, the calls that are open | one function per grammar rule, `match` | accepts programs of the grammar in its comments and no other text; stops at the first token that cannot follow; always reads on |
| symbol table (`symtab.c`) | list of open scopes, tables with buckets and offset counters, `syments` | `scope_entry`, `scope_exit`, `symget`, `symfind`, `symadd`, `syminit`, `symalloc` | lexical scoping; frame slots apart from each other; `syments` not overrun |
| semantic analysis (`anlysis.c`) | the walk over the tree, `errnum`, `idp->symbol` | one function per tree node | every use resolves to the right declaration; a call's arguments fit the parameters it is checked against; nothing reported reaches code generation |
| code generation (`generate.c`, `ir.c`) | the instruction list, allocated temporaries and labels | one function per tree node, `emit1..3` | arguments on the stack when they are popped; temporaries computed before they are read, and read; code of the shape the flow graph needs |
| flow graph (`optimize_cfg.c`) | function objects, basic blocks, links, `lab2bb` | `partition_basic_blocks`, `construct_flow_graph` | blocks cover the code, one entry and one exit; no path missing |
| DAG (`optimize_dag.c`) | `nodes`, `symmap`, `insts2` | `check_dagable`, `construct_graph`, `build_referred_info`, `regen_instructions` | nodes have the values of the symbols; shared where equal; generated code has the block's meaning |
| live variables (`optimize_lva.c`, the bit sets of `util.c`) | `use`, `def`, `in`, `out`, `insts3` | `calc_use_def`, `data_flow_anlys`, `elim_dead_assign` | the least solution of the data flow equations is reached; only stores go that nobody reads |
| IR assembler (`irassembler.c`) | a line for each instruction, an element for each routine | one `asmbl_` function per operation, `fn_` per kind of declaration, the printers | what a line names is declared for its routine; what was computed is named, not printed as a number |
| back end (`irasm_to_stackvm.c`) | none | a stub | - |
| errors, phases (`error.h`, `init.c`) | `phase`, `errnum` | `rescue`, `giveup`, `chkerr`, `panic` | a reported error ends the compiler at the end of the phase |

Interactions worth a composition: analysis calls the symbol table (Analysis
EXTENDS Symtab); the code generator allocates in tables whose scopes are closed
(Analysis, `symalloc`); the code generator's list is the flow graph's input
(IRCode, which IRGen is checked to establish and FlowGraph assumes) and, copied
field by field, the assembler's (IRAsm EXTENDS IRGen: both run in one behaviour);
the flow graph's links are the live variable analysis' input (FlowGraph's LinksMutual
states what LiveVars takes for granted of a graph).

## 2. What is hard in it

Nothing runs concurrently and nothing is persisted, so the hazards are those of a
sequential program with much implicit protocol: names and overloads resolved
through hash chains while scopes are half open; one table that grows three
counters (arguments, locals, temporaries) at different times; errors that are
reported and then worked around; argument pushes of nested calls that interleave;
an uninitialised array (`lab2bb`) whose reads are right only if the generator
kept its side; fixed-size arrays with and without checks; iterations that must
end; values that are looked up by name after the name has changed its meaning.
`PROJECT.json` lists them at their lines, with the properties that cover them.

## 3. The modules

| module | source | what it is |
|---|---|---|
| `LexicalScope` | - | abstract: what a symbol table promises, a stack of finite maps and the key last asked for |
| `Symtab` | `symtab.c` | tables, buckets, symbols, offsets, as operators and actions |
| `Grammar` | comments of `parse.c` | the productions as data, and which tokens may follow a text |
| `Parser` | `parse.c` | EXTENDS Grammar; one action per `parse_` function |
| `Analysis` | `anlysis.c`, `error.h` | EXTENDS Symtab; one action per declaration, heading, use, call |
| `IRCode` | - | the shape of instruction lists shared by the next two |
| `IRGen` | `generate.c`, `ir.c` | one action per `gen_` function |
| `IRAsm` | `irassembler.c` | EXTENDS IRGen; what is copied of an instruction, and the printed words |
| `FlowGraph` | `optimize_cfg.c` | partition and linking, one action per instruction or block |
| `Dag` | `optimize_dag.c` | one block's graph, one action per instruction and per node |
| `LiveVars` | `optimize_lva.c`, `util.c` | use and def, rounds of the data flow analysis, elimination |
| `Scanner` | `scan.c` | a turn of the automaton's loop as the action, line buffer included |
| `MC*` | - | the instances TLC checks |
| `ScannerProofs`, `ParserProofs`, `AnalysisProofs`, `IRProofs` (of IRGen and IRAsm), `FlowGraphProofs`, `DagProofs`, `LiveVarsProofs` | - | theorems |
| `NumberFacts` | - | least and greatest members of sets of numbers, which stand for induction |

How state corresponds:

* **Symtab, Analysis.** A table is its `tid`, an index of `tabs`; a symbol its
  `sid`, an index of `syms`; a bucket the chain of sids behind its hair entry;
  `scopes` the list that `top` heads. Names are abstract, a key is a name with
  the types `make_symkey` appends. The program is not given: each step chooses
  what the grammar allows next, so all programs within the bounds are walked.
  A step is a whole declaration or use, with every error path. `phase` goes from
  SEMANTIC to IR, in which temporaries are allocated in any closed table.
* **Parser.** `stack` is what the open calls still have to do, innermost first: a
  token for a pending `match`, a name for the rest of a function. The text is not
  given: whenever `match` succeeds the next token is any of `Token`, so texts of
  any length are walked, as long as no more than `MaxCalls` calls are open.
  `live` is history: the set of continuations Grammar still allows for the tokens
  read so far, advanced at each match and never looked at by the parser.
  `Grammar`'s nonterminals have the names of `parse.c`'s comments, a `[x]` or `{x}` of a
  comment is one of its own, and `Unfold` replaces the first nonterminal of a form
  until it begins with a token. The tree is left out, except that a constant without a name leaves `idp` NULL.
* **IRGen.** The tree is not stored either: `work` is what the recursion has left
  to do, `vals` the symbols returned by `gen_expr`, `gen_term`, `gen_factor`.
  Targets of assignments, for and read are variables, parameters and function
  results, and array elements: analysis does not check the category (a hazard in
  the list), but nothing in the repository says what other targets should mean.
  A statement names what is declared in the scopes that enclose its routine.
  `Budget` counts the nodes beyond the least tree (a number is the least factor,
  the empty statement the least statement); `Ops` and `Relations` are the operations
  and branches used, of which any two of a kind are treated alike.
  An `unlikely()` sets `pc` to the place it is at.
* **IRAsm.** A label is the sid it is printed from. A word of a line is a label or
  the number in `initval`, "written" if it was computed from numbers of the source.
  WRITE_STRING's printer reads arguments nobody set, in memory from realloc: both
  outcomes are in the model.
* **FlowGraph.** The list is the input; `bb_t` is `[fun, first, last]`; `lab2bb`
  has 0 where nothing was written and a read of that sets `pc` to "undefined".
* **Dag.** One block, since `dag_optim` keeps nothing between blocks but ids. A
  node is its place in `nodes`; `reflist`, which nothing reads, is `Names(n)`.
  The unchecked `nodes[g->nodecnt++]` beyond MAXDAGNODES sets `pc` to "undefined".
  The properties compare terms: what a symbol holds when the block begins, or an
  operation on terms. A block is one that `generate.c` may emit (`Emitted`): each literal of
  the text has a symbol of its own, so only variables and named constants are read
  in several places. With `Copies` a store has the term of what it stores (the value
  of a node), without it the store is an operation like others (its expression).
  A symbol is its own place: a reference parameter that stands for another
  variable is not modelled.
* **LiveVars.** Graph and instruction lists are the input; operations are grouped
  as in the cases of `calc_use_def`, which takes one step for each instruction. A
  variable is its sid, a set the array of NBITARR words of `util.c` in which POS and
  OFF give the sid its bit; the properties speak of the variables in it (`Members`)
  and of the first mentions in the instructions, never of the words. `Var` are the variables of
  any routine, as they are for the code; `Outer` says which belong to others, and only OnlyDeadGo
  looks at it. The properties of `live_vars` are about what calc_use_def takes an instruction
  to use and define, OnlyDeadGo is about what it reads and assigns. POP_OP goes
  through the case of PUSH with its NULL operand: `crash`.
* **Scanner.** Characters are the members of a small set, of classes that the
  automaton tells apart; all are 7 bit. `fgets` takes `Width` characters. A token
  longer than MAXTOKSIZE ends the run as undefined.

Definitions whose comment begins with "Variant:" are plausible mistakes in the
definition below them. No specification uses them; each run's properties are
shown to notice one (`mutants` in `PROJECT.json`).

## 4. The runs

| run | question | bounds, and why they are enough |
|---|---|---|
| `analysis_scoping` | Do the tables implement lexical scoping? `LexicallyScoped` is the refinement of LexicalScope: each declaration and each use is tied to the key it asks for, so a use must find the declaration of that key in the innermost block that has one, a repeated key must be an error, and "unknown" may end the compiler only when no open block has the key | two names, three scopes, five symbols with the entry point, one bucket: chains hold shadowed, overloaded and foreign entries together, which takes two names and two scopes |
| `analysis_frames` | Are frames laid out right, `syments` kept within bounds, closed frames left alone, duplicates kept from code generation? | arrays of length 0 and 2, parameter lists up to 2, two temporaries after closing, MAXSYMENT reached |
| `analysis_calls` | Does a call that is accepted fit its callee, and is the parameter list never of another length? | two types, up to two arguments that are a literal, a negated one or a variable, both parameter kinds, three scopes, six symbols: a program, two routines of one name, in one scope or nested, that differ in the number or in the types of their parameters, and calls with two arguments of which some go by reference. Declarations and statements that such calls do not need (DeclForm, UseForm) are left out, and so are array elements and sums as arguments, which the proofs have |
| `parser` | Is every text that passes a program of the grammar, is every text that is given up the beginning of none, are names taken while they are still there, does it always read on? | every token at every place; with seven open calls every branch of every function is taken, in a routine inside a program |
| `irasm` | Is the stack balanced, is every argument on top when its callee starts, are temporaries computed first, is the code of FlowGraph's shape; is all that the text names declared, is what was computed named? | three nodes more than the least tree over three nested routines: a call in an index in an argument, nested ifs and loops; a reference of the outer routine used in the inner one |
| `irasm_literals` | see section 5 | as `irasm` |
| `flow_graph` | Do blocks cover the code with one way in and out, are all paths linked, do both passes end without panic or garbage? | two routines of five and two instructions: every adjacency of labels, jumps, brackets; MAXBBLINK 2 is the most the well-formed code needs |
| `live_vars` | Do the words hold what is first used and first defined, is the fixed point reached, is it the least, is IN what a path uses, do exactly the stores go that no path from the ends of their block uses, does it end? | every graph of three blocks that LinksMutual allows: loops, dead blocks, branches; eight lists, one of them with a POP, that use and define a variable and a parameter in every way; two words of two bits, with the same offset for both variables, so that a bit in the wrong word is seen |
| `live_vars_dead` | see section 5 | one block of two instructions: the routine at fault |
| `dag` | Do nodes have the values of the symbols at every instruction, is no expression made twice, is the array outgrown only by large blocks, is every node generated once behind its operands, is a block with nothing to share left as it was? | every block of up to three instructions over two variables, a named constant, a literal and two temporaries, the literal and each temporary read in one place; MAXDAGNODES 5 is both enough and not enough |
| `dag_results` | see section 5 | as `dag`, with room for every node |
| `scanner` | Are the tokens the longest lexemes, are lines counted right where they fit the buffer, does it stop? | every text of up to four characters of twelve kinds, buffer of three: every state meets every class, the end of a buffer and the end of the file |

Deadlock is checked in `parser`, whose only stop is a step of its own. Elsewhere
`CHECK_DEADLOCK FALSE` stands in the cfg: the phases end, and the process exits.

## 5. Disagreements found

Each is a run that TLC ends with a counterexample. Those of `Dag` and `LiveVars` are
about passes that the driver never calls.

* `dag_results` - of several symbols with one node only the first is stored to
  (`optimize_dag.c:205`): `x := c; y := c`, with a named constant c, loses the store to y
  (not so with two literals, whose symbols and leaves differ). The same property
  fails where a node's symbol has moved on to a later node: its instruction gets
  NULL for its target, and those that read it NULL for an operand.
* `live_vars_dead` - `elim_dead_assign` (`optimize_lva.c:286`) asks only what is live at the
  ends of the block, so `x := 1; p := x` loses the store to x, which is read behind it,
  if x is dead at both ends. It also takes out stores to any VARIABLE_OBJ
  (`optimize_lva.c:283`), as x of the run is one of the program, though nothing is live
  out of the last block: f12 in `t47-access-var.pas:5` would lose its `x := 99`, which the
  program writes out (`Code <- LastStore`). And a WRITE defines its operand for
  `calc_use_def` (`optimize_lva.c:133`), so a store goes that only a `write(x)` in a later
  block reads (`Code <- WrittenOut`, `N = 2`, `Outer = {}`).
* `irasm_literals` - an operand is printed as its number if its *type* is that of
  a literal (`irassembler.c:1084`), and a sum or product of literals has that type:
  `2 * 3 + 4` (`t22-expr.pas:13`) becomes a MUL of 2 and 3 and an ADD of 0 and 4. In
  the same way `-(5+3)` is folded to the number 0 (`generate.c:313`).

Met while modelling, without a run (nothing in the repository promises the
contrary, or it takes no state to see):

* a source line longer than the buffer counts as a line for each `fgets`
  (`scan.c:263`), so LinesCounted is about lines that fit;
* `const = 5` dereferences the NULL `idp` (`parse.c:184`); the parser takes a character
  literal as a factor and a block without a body, which its comments leave out;
  Grammar has both;
* a leading plus, which the grammar in `parse.c:770` has, ends in `unlikely()`
  (`generate.c:327`); so does `write("a", 3)` (`generate.c:295`);
* the upper bound of a `for` is computed once if it is an expression and read in
  every round if it is a variable (`generate.c:188`);
* any call with arguments makes `calc_use_def` dereference POP's NULL operand
  (`optimize_lva.c:121`); the driver never calls the optimizer, so nobody saw it;
* a named constant is printed by its label, which no element declares, and its
  value is printed nowhere; the index behind a PUSH_ADDR is not copied
  (`irassembler.c:720`);
* the printer of WRITE_STRING looks at an argument that was never set
  (`irassembler.c:1275`).

## 6. The proofs

All are of the specifications TLC checks, for every value of the constants that
satisfies the modules' ASSUMEs.

* **`AnalysisProofs!TypeCorrect`**: `Spec => []TypeOK`. `TypeInv` strengthens
  TypeOK by what the operators need of it: the open scopes are tables there are,
  the buckets hold sids there are, a heading belongs to the innermost scope. One
  lemma per operator of Symtab says what it returns and keeps; one per action of
  Analysis puts them together.
* **`AnalysisProofs!SidBound`**: `Spec => []SidInBounds`: `syments` is never written
  outside. Inductive with TypeInv.
* **`AnalysisProofs!FramesDisjoint`**: `Spec => []SlotsDisjoint`. Disjointness alone is
  not inductive: a new slot is placed by the table's counters, so `SlotInv` adds
  that every slot lies below its counter (FramesOK) and that parameters are
  numbered below the count of parameters (ParamsBelow). `PutSlots` shows that
  entering one symbol keeps it, `KeepSlots` that steps that enter none do.
* **`AnalysisProofs`**, second part, on scopes and what is declared in them. Its invariants are built
  in three layers, each inductive with the ones below it and TypeInv.
  - `ScopeInv`: the open scopes are nested, exactly the scope of an open heading
    has no routine (Nested); while no error was reported each other scope and its
    routine point at each other, and a parameter list is the argument slots of
    its scope in order (RoutineInv); a routine's key has the types of its parameters, and
    only parameters are in a scope whose heading is open (KeyInv). The condition on errors is
    needed: a duplicate heading ties its first declaration to a second scope, and
    only chkerr keeps that from the later phases. It gives `ScopesTied`
    (RoutineScopes) and `ParamsPlaced` (ParamLayout). `ClosedFrames`
    (ClosedFramesFixed) needs TypeInv alone: each step writes only the counters of
    scopes on the list.
  - `CallInv`: `CallsFit` (CallMatches) and `NoLastResort` (NoLengthError). The key a
    call was found by is its arguments' types, KeyInv makes it the parameters'
    types too, so lists of different lengths never meet in anlys_arg_list.
  - `LookupInv`: a bucket has exactly the sids of its table whose keys hash to
    it (ChainInv); while a scope is open no table has two symbols of one
    key (UniqueInv; it ends there, since what the code generator allocates all has one key);
    sids have room (RoomInv); the program's scope goes by no identifier
    (NspaceInv).
  - `LexicalScoping`: `Spec => LexicallyScoped`, the refinement of LexicalScope. With LookupInv,
    `symfind` is the abstract `Visible` (FoundIsVisible: the chain of one bucket
    and the search along `scopes` find the innermost block's only declaration), entering a symbol is one
    binding more in one block (PutEnv), and each action has a lemma `Map...` that
    names the abstract step it is. Collisions are covered because `Hash` is any
    function into `Bucket`.
* **`ScannerProofs`**, for files of any length and any cut of them into buffers:
  `TokensAreTheLexemes` (TokensAreLexemes) and `LinesAreCounted` (LinesCounted). Lexemes are
  defined over the text as a whole, by functions that recur to the right; their equations are
  shown to have a solution at the least place where one would fail (SolidSolved,
  LexemesSolved). The machine sees one character at a time, so IInv says where in the text it is.
  Buffered: `linebuf` is the piece of the text that ends at `pos`, so reading and
  giving back a character move one place `At` by one (ReadIs, TurnReads). Begun: what each state
  means, that is, which part of a lexeme `tokbuf` holds, and that nothing before `At` has ended it.
  Ahead: the lexemes behind those returned are those of the rest of the text. A turn
  in each state, with each class of character, either goes further in the same lexeme,
  ends the longest one that begins there, or meets a place where none does (Turn, one lemma for each
  state). So a character is given back exactly where the longest lexeme ends before it.
  Numbered: while every line fits the buffer, a buffer begins where a line does,
  and `lineno` counts the line feeds before it; since no lexeme ends with a line
  feed, the character read behind one is in the same buffer as its last character
  (TurnLine), which is why `toklineno` is right although it is read afterwards.
* **`ParserProofs`**, for texts of any length and calls open to any depth. None of the properties
  is inductive, since `live` is a set of forms and `stack` a list of places in the code. So
  each code that may be on the stack is given what it stands for: a token or a
  nonterminal (`Means`), or, for code that goes on behind a name, the forms it may read
  (`Rest`); the forms a whole stack may still read are `Reading`. ParserInv says that
  while no error is noted or about to be (Right) each of them, unfolded, is
  among the continuations in `live` (Promise), and where code behind a
  name can be on the stack, and that `prevtok` is still the name there (Shape). Each function
  leaves on the stack what a production allows (`Spells`, one fact per branch of `parse.c`), so
  unfolding the rest gives no continuation that was not there (PlainRun; LookingRun and NamingRun
  for names). `AcceptsOnlyPrograms` (AcceptsPrograms): at the end the stack is empty, and
  the empty form is one of `live`. `ErrorsStopTheParser` (StopsAtFirstError): every
  form unfolds to something (SomeForm), so `live` is not empty while nothing is wrong.
  `NamesAreIdentifiers` (PreviousIsName) is part of Shape. `Unfold` is a recursive function with
  no measure to its recursion: Unfolding shows that its equation has a solution, the
  forms at the end of chains of replacements, which is all the proofs use of it.
* **`IRProofs`**: `TypeCorrect` (TypeOK), `Balanced` (StackBalanced) and `OnTopOfStack`
  (ArgumentsOnTop), for programs and nested calls of any size. The list of what
  each instruction finds pushed (`Pushed`) is history no action reads, so the
  invariant is about `work`: WorkInv says the work left is a chain of places from where
  the generator stands to the end, a place being the number of values waiting in `vals`, the
  arguments pushed so far, and whether the routine has begun; between statements no
  value waits. Each entry of
  `work` goes from one place to the next (`Step`), the code so far leaves the
  first place's arguments on the stack (`Leaves`), and each instruction is lawful
  where it stands. An action replaces the first entry by entries that make a chain
  between the same two places, so one lemma on chains (ChainJoin) serves every `gen_`
  function; what `gen_arg_list` queues for a call is a chain as long as the
  parameter list.
* **`IRProofs!FlowGraphFed`** (FlowGraphInput): for every program, the finished list is the
  WellFormed code that FlowGraph assumes of its input and FlowGraphProofs of
  every theorem on it. The list so far is not well formed (a jump is emitted before
  its label, a routine's start before its end), so the invariant is about the list
  as it will be: ShapeInv says that the marks of `code`, followed by those the entries of
  `work` will add, are Shaped (routines between their marks, each label marked once,
  jumped to at most once and from its own routine). An action puts marks in the place of one entry:
  if they are shaped by themselves and their labels are new, the whole stays shaped
  (Spliced); a new label is a new sid of the symbol table (FreshLabels).
* **`IRProofs!TempsInOrder`** (TempsComputedFirst): each temporary is computed by one
  instruction, before the one that reads it, and no jump from in front comes in between. The
  invariant TempInv follows each temporary through its life: none is defined twice, and each
  waits to be the result of one call in `work` (Awaits), or is computed and waits in `vals`
  (Held), or has been read by one instruction behind its definition (ReadAt, Behind).
  That no jump enters between definition and use rests on WorkInv: a label is emitted where no
  value waits. The label in front of a for's body is the exception; it is a new sid, so
  nothing in front of it jumps to it. The lemmas OwnGrow, OwnWalk, OwnEmit and OwnReturn say what a
  step may do to the lives of temporaries; each action is an instance of them.
* **`IRProofs!AllDeclared`** (OperandsDeclared) and **`TempsAppear`** (TempsNamed), for the
  text of every program. Neither follows from the text's own steps: a line is a copy of an
  instruction, and what the instruction names was found long before. So DeclInv says, while the
  generator runs, that each instruction of the code lies in one routine and names only what is
  Known there (a number or constant, a routine, a variable of an enclosing scope, a
  temporary or string of the routine's own table), that the values in `vals` and the entries
  of `work` up to the next routine do too, and that of a routine that was begun the routines
  declared in it are begun as well, or a `gen_pf_dec_list` in `work` is going to begin them
  (RoutinesLeft). A table only grows, so what is Known stays
  Known. AsmInv says that the result has an element for each FN_START and each
  line the words of its own instruction. When the printing is done (Printed), a Known symbol is declared
  (KnownDeclared); for the label of a jump ShapeInv is needed too: it says that the label is
  marked in the jump's own routine (LabelMarked).
* **`LiveVarsProofs!EndsAtSolution`**: the analysis stops only at a solution of its
  equations, for any number of blocks, any graph and any width of the words. Each
  sid has one place in the words and shares it with no other (PlaceUnique), so the
  operators on words do what sets do (SetBits, JoinBits, SameBits). UseDefInv: after n
  instructions of a block its words hold what the first n of them mention first
  as a use or a definition, by induction over the steps of calc_use_def. FlowInv: within a
  round, either something changed, or each block done so far satisfies its
  equation; it needs that IN and OUT only grow, since OUT is never cleared.
* **`LiveVarsProofs!LeastSolution`**: at every step the sets are within every
  solution, by induction over steps; so the solution reached is the least.
* **`LiveVarsProofs!LiveMeansReached`** (LiveIffReached): a variable is in that
  solution if and only if a walk reaches a use of it. Walks are closed after N
  steps, since N blocks cannot take in a new one N times (WalksClosed, with
  cardinalities); what walks find is then a solution (ReachedSolves), so the least
  is within it, and every solution has what a walk finds (WalksCarry).
* **`LiveVarsProofs!UnreadGo`** (UnreadStoresGo): what is left of each block is a copy of it,
  in order, that lacks exactly what Eliminated says (CopyInv), which are the stores whose
  variable no walk from the beginning or the end of the block uses first (EliminatedUnread,
  from LiveMeansReached). It does not say that those stores are dead: they may be read in
  their block and by other routines, which is what OnlyDeadGo is violated by.

* **`FlowGraphProofs`**: for every well-formed code of any number of routines, what
  the run `flow_graph` checks. `BlocksRight` (BlocksCover): each instruction is in
  one block. `OneEntryOneExit` (OneWayInOut). `NoGarbageRead`: lab2bb is never read where it was
  not written. `PathsComplete` (EdgesComplete) and `LinksRight` (LinksMutual). The
  invariant has four parts: what functions and blocks are made of and that they lie
  in the order of the code (PartInv); that the instructions in front of `leader` are
  covered (CoverInv); that lab2bb holds the block of each label of the function
  met so far (LabInv); what each pass has behind it (PhaseInv). The two theorems on links
  add that a block has exactly the links that are due at its place in
  the two steps (LinkInv); they assume MAXBBLINK >= 2 (it is 32, `limits.h:33`), which
  is enough because a label of generated code is jumped to once (IRCode).

* **`DagProofs`**, for blocks of any length over any symbols: what the run `dag` checks.
  Terms of nodes and of instructions are recursive functions; what their equations say is shown
  at a least place where it would fail (TermsAre, ValuesAre, and GenCurrNode for
  gen_curr_node's recursion over the graph). DagInv says, behind the first k instructions, that a node
  works on earlier ones only and that equal nodes are one (Shape), that `symmap` leads from each
  symbol to a node of its value (Agrees), that each node of an operation was made for an
  instruction and is tied to it (Made, Own, Tied), and that leaves are
  symbols the instructions mention (Mentions); then that `order` is what the
  recursion yields for the nodes so far (Generated). `GraphIsSound` (TypeOK), `GraphHasTheValues`
  (ValuesRight), `OneNodeForEach` (NoExpressionTwice: two expressions differ if the nodes do),
  `SmallBlocksFit` (OutgrownIfLarge, by cardinalities), `EachOnceInOrder` (GeneratedOnce)
  and `UnsharedIsKept` (UnsharedUnchanged).

The types of FlowGraph and LiveVars (TypeOK) are proved and not checked in a run.
Assumed are only the named ASSUMEs (finite sizes, the constants' sorts, `Hash`
into `Bucket`, no identifier spelled like a generated name, each character of one class
and the file shorter than the model's bound on line numbers) and, where a theorem
says so, MAXBBLINK >= 2.

Only model-checked: `RejectsNoProgram` of Parser, and all liveness.
RejectsNoProgram is the converse of what ParserInv says: that the branches a function does not take
lead to no continuation with the token at hand. It depends on what may follow each symbol, and the
grammar is ambiguous (an ELSE after nested ifs), so that `live` really loses
continuations when the stack changes, though no text. TLAPS has no rules for fairness
and ENABLED. The properties of section 5 are refuted.

## 7. Fairness

`Scanned`, `ReadsOn`, `Completes` and `Terminates` are checked under `WF_vars(Next)`:
each phase or pass is a loop of one sequential process that runs once it is called, so
some next step is always taken if there is one. Nothing stronger is assumed, and
in particular no fairness between alternatives.

## 8. What is not modelled

* `irasm_to_stackvm.c`: a stub that translates nothing yet. `conv.c`: prints the
  tree, and nothing calls it. `temp/`: a draft that is not built.
* The parser's tree: IRGen meets what the grammar allows, not what a given parse
  produced. Each of the two is checked against the grammar on its side.
* Values: literals have none beyond whether they come from the source, strings
  no characters, arithmetic is not done.
* What a call does to the variables it reaches: LiveVars' CALL uses and defines nothing,
  as in `calc_use_def`.
* Widths: `int` offsets are naturals; keys are not cut at MAXSTRLEN. That a sid
  is below MAXSETBITS is an assumption of LiveVars, which SidInBounds of Analysis
  gives (MAXSYMENT and MAXSETBITS are one number, `limits.h`).
* The rest of `util.c`: strings, names of files, dumps of sets.
* Options, file names, messages, columns of the printed text and debug dumps. Of
  the driver, `phase` and `errnum` are in Analysis and Parser.

## 9. The plan

Done: Symtab, Analysis and LexicalScope with their proofs; LiveVars with its
proofs; FlowGraph with its proofs; Grammar and Parser; IRGen and IRAsm; Scanner;
Dag; the theorems of section 6. To come, in this order:

1. **Optimizer composition** - FlowGraph's result as LiveVars' input in one
   behaviour, so that what LinksMutual promises is used, not assumed.
2. **Pipeline** - the phases and `errnum` over the components' promises: no
   phase begins with an error pending.
3. **Proofs** - RejectsNoProgram, with what may follow each symbol as a set computed from
   the grammar.
