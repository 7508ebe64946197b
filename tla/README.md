# TLA+ models and proofs of the Crux interpreter

Crux (`src/`) is a statically checked scripting language in C: a scanner, a
single-pass compiler that emits bytecode while it parses, and a stack VM with
closures, modules, a mark-and-sweep collector and its own slab allocator. It is
single-threaded. What is hard in it is not concurrency but *re-entrance and
agreement*: a table that grows calls the allocator, which may collect, which
deletes entries of that very table; a native calls back into the interpreter
loop that called it; a compiler compiles an imported file in the middle of its
importer; and the compiler's idea of the stack, of a global's index or of a
module's state has to be the VM's.

Paths below are relative to `src/` (so `src/table.c` is `src/src/table.c` of the
checkout, as in the `map` of PROJECT.json).

## 1. Inventory

| component | state | operations | what makes it correct |
|---|---|---|---|
| String table (`src/table.c`) | entries, capacity, count (tombstones included) | set, get, delete, find_string, remove_white | it is a map; every probe ends; growth survives a collection in its middle |
| Object table (`src/object.c`, Table and Set values) | entries, capacity, size (tombstones not included) | set, remove, get, contains, rehash | it is a map; a call returns unless removed entries fill the array |
| Slab allocator (`src/memory/slab_allocator.c`) | slabs, free lists | allocate, free, new slab | a slot has one owner; the free list holds exactly the free slots |
| Allocation (`src/memory/alloc.c`) | byte counters | allocate_object, reallocate | the new object is reachable or complete when a collection can see it |
| Collector (`src/memory/garbage_collector.c`) | mark bits, gray stack, `vm->objects` | mark roots, trace, clean the intern pool, sweep, shutdown | frees what is unreachable, all of it, nothing else; ends |
| Heap objects (`src/object.c`) | kinds and references, the intern pool | constructors, copy_string, write barriers | equal strings are one object |
| Compiler: scopes (`src/compiler/`) | locals, scope depth, loop contexts, pending temporaries | blocks, let, loops, break/continue/return, closures, match, give | the slot compiled for a name is the slot its value is in |
| Calls, closures, upvalues (`src/vm/`) | frames, value stack, open upvalues | call, return, nested run, OP_CLOSURE, capture, close | a variable outlives its scope, is shared, and is nobody else's |
| Modules, sessions, panics (`vm_helpers.c`, `panic.c`, `main.c`, use in the compiler) | module states, module cache, names and indexes, globals arrays, import stack | interpret, compile an import, use, finish a use, panic | a file is compiled and run once, before its importer; an index means one name |
| Types (`src/type_system.c`, type checks of `compiler.c`) | the type of each variable, narrowed or not; the values | declare, assign, `op=`, arithmetic, cast, call, if / else with tests of nil and typeof | the static type is true of the value, so that instructions chosen by type need not look |
| Type annotations (`parse_type_record`) | the open calls with the parts they have read, the VM stack that protects these | read a type of each form | what is read is what is written; parts survive the allocations of the next |
| Match expressions (`new_match_expression`, OP_MATCH to OP_GIVE) | the target's type, flags and counts of what is covered, the type of the result; the value | an arm of each kind, the end of the match | what compiles has an arm for every value; the value left has the type the compiler goes on with |
| Numbers (`vm_helpers.c`, the typed opcodes of `vm_run.c`) | a number and what is known of its type | arithmetic, bits, shifts, negation, compound assignment, in each of the ways the source has for it | the result is the exact one, an Int where it fits; all the ways agree |
| Arrays (`object.c`, `stdlib/array.c`) | values, size, capacity; the walks over it | push, pop, insert, remove, clear, concat, slice, equals, index, loops, map, filter, reduce, sort | it is a list, also while it is walked by what changes it |
| Ranges (`object.c`, `stdlib/range.c`) | start, step, end; an iterator | literal, iterate, len, contains, to_array, reversed, slices by it | every query computes the same elements |
| Matrices (`object.c`, `stdlib/matrix.c`, the matrix opcodes) | rows, columns, the entries in one block of memory; the copies that eliminations work on | Matrix, IMatrix, AMatrix, get, set, row, col, add, sub, mul, scale, transpose, determinant, inverse, trace, rank, equals, copy, to_array, mul_vec, operators | answers are those of linear algebra, of the declared type; nothing outside the block is touched |
| Natives and constructors as users of memory (`src/vm/`, `stdlib/`, `object.c`) | C variables, the value stack, the struct instance stack | the instructions and natives that allocate more than once or call back | what is used later is rooted; the stack is left as it was found |
| `stdlib/buffer.c` | array, capacity, read and write positions | writes, reads, peeks, skip, compact, clone | it is a queue of bytes, in big-endian units |
| `stdlib/fs.c` | open File objects, C streams with their buffers, the file system | open, read, readline, write, seek, close; whole-file reads and writes, copy, rename, remove | what is answered to be done is done; lines are the text's; no stream is left open |
| Scanner, chunk/debug/value, the rest of the standard library, vendored linenoise and UTF-8 | | | not modelled, section 7 |

How they interact:

* `table_set` → `adjust_capacity` → `ALLOCATE` → collection → `table_remove_white`
  on the table being grown (**StringTable** takes these as separate steps).
* `copy_string` looks a text up in the intern pool. The pool is a root, so it keeps the
  strings of scripts; between tracing and sweeping the collector deletes what is not marked
  from it, which is the immortal names of the library, for they are never marked (**Heap**).
* The compiler emits code while it parses; nothing later corrects a wrong pop
  count (**Scopes** runs the code as it is emitted).
* A closure is made by OP_CLOSURE in a loop of capture_upvalue; scopes and
  returns close upvalues; natives re-enter `run` through `execute_callable`
  (**Upvalues**).
* `interpret` → `compile` → `use_statement` → `compile_module_statically` →
  `compile` …; later `run` → OP_USE_MODULE → nested `run`; `runtime_panic`
  jumps out of all of it to `interpret` (**Session**).
* The compiler chooses OP_ADD_INT and its like by the static types of the
  operands, and the VM trusts it: what the compiler concludes from a test has to
  be so when the code runs (**FlowTyping**).
* Any allocation may collect, and the collector knows the value stack, the struct
  instance stack and the intern pool, but no C variable: what a constructor, an
  instruction, a native or the type parser holds has to be on one of them, and
  complete (**Rooting** with **Constructors** and **Natives**; **TypeSyntax**).
* map, filter, reduce and loops read an array anew for each element while the script
  they run may change it (**Arrays**).
* The arms of a match are checked by flags and counts in the compiler and tested by
  other code in the VM (**Matches**).
* Every File call goes through a C stream that buffers, while other calls change
  the same file by its path (**Files**).

The hazards, each with its line and the properties aimed at it, are in
PROJECT.json under `hazards`.

## 2. Modules

A module of a component has one action per operation of the code and is parameterised
by CONSTANTS with named assumptions. Definitions whose names say what they forget
(`ReturnUnclosed`, `DeterminantUnsigned`, `RemoveAtShort`) are the variants
used to test the properties: each property is known to fail when one of them
takes the place of the code's definition.

* **Dictionary** — abstract: a map from names to cells with set, delete, get and
  silent deletion. Both tables are shown to implement it. Its cells keep the
  key object last stored, and its answers are those the C functions return.
* **StringTable** — `src/table.c`. `SetInPlace` is a set without growth. A set
  that grows is `SetGrows` (pending call), `FreshArray` (the allocation, which is
  the point where `RemoveWhite` may come in between), `RehashSlot` per old slot,
  `FinishSet`. `Delete`, `Get`, `FindString` and `RemoveWhite` are single steps.
  find_entry is `FindsAt`: the slot where the probe sequence first stops, with
  the reuse of the first tombstone.
* **ObjectTable** — the table behind Table and Set values. Probing goes by
  `index * 5 + 1` (`Orbit`), which visits every entry of a power-of-two array (proved,
  section 6); a call that meets neither its key nor an empty entry does not
  return (`hung`). find_entry is told the capacity in `CapacityBits` bits: where that is 0
  the probes leave the array.
* **SlabAllocator**, **Heap** — slots, free lists, `vm->objects`, mark bits, gray
  stack, intern pool and value stack. The script allocates, pushes, stores,
  loads, removes, interns and pauses collection; a collection is `MarkRoots`,
  `BlackenObject` per gray object, `RemoveWhite`, `SweepObject` per object,
  `EndSweep`. `NewObject` for a set is in two steps, because a collection may run
  between the two allocations. Immortal objects (those of the library) exist
  from the start; `Shutdown` is free_objects.
* **Constructors**, **Natives**, **Rooting** — the C functions that make and grow objects,
  and 45 instructions and natives (34 of them in the passing run), as programs of a small
  machine: allocate into a C variable, write a part, push, pop, peek, store with a write barrier,
  run a script, loop, choose. A method puts the native over the value below the receiver, keeps
  that value in a C variable and puts it back. Rooting runs one program with a collection before
  any of its allocations. Objects are never numbered twice, so that a C variable whose object was
  freed shows.
* **Scopes** — the compiler's `locals` and `scope_depth` next to the stack that the
  emitted code produces. `nest` is the recursion of the parser with what each
  level keeps in C variables. Clean-up is the sequence of OP_POP and
  OP_CLOSE_UPVALUE that cleanupLocalsToDepth or emit_cleanup_for_jump emits,
  interpreted by `Execute`.
* **Variables** — abstract: what closures promise. Each execution of a declaration
  makes a variable; closures refer to variables.
* **Upvalues** — frames, slots, the sorted list of open upvalues, `OP_CLOSURE` one
  upvalue at a time, calls by scripts, calls of natives (`Invoke`; `InvokeOver`, where
  handle_invoke or OP_INVOKE_STDLIB puts the method into the slot of the topmost local, and
  `NativeReturns`, where the local gets its value back), calls by natives (`execute_callable`,
  which starts a nested run), returns, and a panic, after which the globals of a session still
  hold their closures. `natives` is the C stack of the natives in progress with their variable
  `original`. It implements Variables; while a native has the slot of a variable, the
  refinement takes the variable's value from there (`Original`).
* **Session** — compilers (a stack), module states, names and indexes, globals
  arrays, runs (a stack), the import stack. A line is compiled declaration by
  declaration, with imports compiled in the middle, and then run instruction by
  instruction.
* **Types** — type records and the relations of `type_system.c` on them as recursive
  functions (`Equal`, `Compatible`, `Strip`), the text typeof answers and the type
  a text is read as, what a cast looks at; and, for reference, which values a type has
  (`Has`).
* **FlowTyping** — one action per statement: it is compiled (refused, or the types change)
  and, if its branch is taken, run (the values change). `types` is `locals[i].type` or the
  entry of the type table; `nest` is the recursion of if_statement with its C locals
  `narrow_state` and `original_type`. `Instruction` is what binary emits for two
  static types, `Outcomes` what running it on two values gives, *misread* if it takes an
  operand for what it is not. Of numbers only the representation is kept.
* **TypeSyntax** — parse_type_record as a stack of open calls (`frames`), one action per way
  a call begins, goes on after a part or ends, over texts of tokens; `stack` is what the calls
  keep on the VM's stack. The reference is in **TypeTexts**, the texts of a type.
* **Matches** — a step compiles one arm (refused or not, with the flags it sets) and, if no
  earlier arm was taken, runs its test and body.
* **Numbers** — `Generic`, `Typed` and `Assign` are the ways the source has for an operation;
  literals are wrapped as the scanner's are. Floats are exact fractions (**Floats**). The
  reference is the arithmetic of the integers and fractions themselves.
* **Matrices** — `stdlib/matrix.c`: each method and operator one step with what it answers
  (`answer` in the suite), but for determinant, inverse and rank, which go on a column at a time on
  copies (`job`). `stray` says that memory outside a matrix was used. What the compiler is told of
  each method is `Declared`. The references are the determinant as a sum over permutations and the
  rank as the size of the largest minor that is not 0.
* **List** — abstract: what an array promises, with walks by position. **Arrays** — memory of
  `capacity` values, of which `size` are elements; map, filter, reduce and loops as walks whose
  function or body is any operation of the array. It implements List.
* **Sorting** — a round of partition's loop, the exchange of the pivot and the two recursive
  calls, as steps on a stack of parts.
* **Ranges** — a range, its iterator and its slices, where there are `Span` Ints.
* **ByteQueue** — abstract: a queue of bytes, with writes and reads of units of several
  bytes. **Buffer** — `stdlib/buffer.c`: the array, its growth and compaction, positions
  that wrap like uint32_t (at `Word`), integers written in either order of bytes and read back with
  their sign. It implements ByteQueue.
* **Files** — `stdlib/fs.c` on an external file system (paths, inodes) and external
  C streams (what is buffered, flushed, lost). One action per call. The external parts
  are modelled by what the code relies on and marked so in the map.
* **ProofBasics**, **TableProofs** (both tables), **SessionProofs**, **UpvaluesProofs**, **RuntimeProofs**
  (Heap, Ranges, Buffer and Numbers), **ScopesProofs**, **LibraryProofs** (Files, Sorting and Arrays), **TypesProofs** (TypeSyntax,
  FlowTyping and Matches) — the proofs, section 6.
* **MCTables**, **MCCollections**, **MCMemory**, **MCTypes** — suites: several components that
  share no state, side by side. Their variable `part` says which component a
  behaviour is about; the others keep their initial state. Where a `VIEW` (`Read`) leaves out the last answer or
  operation, invariants do not speak of it, and action properties are checked on every
  step all the same. The other MC modules give values to one component each. Conjunctions of
  invariants that are checked together have a name (`ScopesAreSound` and so on).

## 3. Programs that the passing runs leave out

Some programs make the interpreter do something other than it says. Where that
is so the module has a switch (a constant of the `.cfg`). The passing run states what holds for programs without
the idiom, and the switched-on configuration shows the disagreement:

| switch | program | what happens | run |
|---|---|---|---|
| Scopes `capture` | a block captures a local declared below an uncaptured one | OP_POPs are emitted twice | `scope_exit` |
| Scopes `exit` | break, continue out of a match arm | the match's target stays on the stack, and its handler is never given back (nor is it at a return, which the passing run has); after 16 every match panics | by hand |
| Scopes `temporary` | a match that binds names is an operand | the name is compiled to another slot | by hand |
| Scopes `arm`, `bare`, `give` | declarations directly in an arm's block; an arm without give; give from inner blocks | values stay on the stack | by hand |
| Upvalues `CallbacksCall` | a function called by a native calls a function | the nested run ends at the inner return | `nested_return` |
| Heap `Kinds` with `"set"` | a script keeps a Set over a collection | its table object is freed | `heap_sets` |
| Upvalues `OpenBelow` | in a function, a method of an array is called right above a local that its callback captures: `let sum = 0; xs.map(fn (x) { sum = sum + x; … });` | the native is in the slot of `sum` meanwhile: the callback reads the native, and what it writes is lost when the slot is given back | by hand |
| Upvalues `OpenAtPanic` | the REPL goes on after a panic, with closures in globals whose variables were on the stack | they read and write what the next line pushes there | by hand |
| Tables `Truncated` | a Table or Set reaches the capacity 65536 | its probes leave the array | by hand |
| Rooting `OP_CLOSURE_upvalues`, `OP_TUPLE`, `OP_SET`, `new_set`, `new_tuple` | a closure of several upvalues, a tuple, a set is made when a collection is due | the collector reads a part that is not written, or frees one that is not rooted | by hand |
| Rooting `OP_TABLE_grows`, `table_pairs_two`, `array_filter_removes` | a literal of more than 12 pairs; pairs() of two pairs; filter with a function that removes the element | what a C variable holds is freed before it is stored | by hand |
| Rooting `array_map_over_object` | a method that allocates twice or calls back, called right above a local that holds an object | the value below the receiver is in a C variable only; its mark lasts for one collection | by hand |
| Rooting `string_native`, `format_unknown` | the text of a native; format with a name that is not in the table | the text's memory is freed under the string; names stay on the stack | by hand |
| Session `outer` | a file reads a name only its importer has | the importer's index is used on the file's own array | by hand |
| Session `later` | a second REPL line declares a name | the write is past the end of the globals array, which is allocated once | by hand |
| Session `failed` | the REPL goes on after a failed line | core functions are never defined | by hand |
| Collections `Remainders` | a range whose step does not divide its length is reversed | it starts at a number that is no element | by hand |
| Collections `Wide` | the distance from start to end of a range is no Int | lengths and elements wrap | by hand |
| Collections `Middle` | a value is inserted before the end of an array | it takes the place of the element there, and what memory holds after the end becomes an element | by hand |
| Arrays, the hypothesis of `WritesFitTheArray` | an array of more than UINT16_MAX - 1 values, which push and add allow, is sliced or sorted; an array literal of 65535 values | the values are written past the new array | by hand |
| Collections, property `ReduceArgumentsInOrder` | reduce | its function gets the element and the accumulator in the other order | by hand |
| Collections `Huge` | a buffer of 2^31 bytes is appended to itself | the sum of positions wraps and nothing is grown | by hand |
| Files `SameFile` | a file is copied onto itself or onto a link to it | it is emptied before it is read, and the answer is Ok | by hand |
| Files `Full` | the disk is full when a stream is closed | the error of fflush and fclose is not looked at: Ok for bytes that are lost | by hand |
| Files `LineBuffer = 1` | a line as long as readline's buffer | its newline is left for the next call, which answers an empty line | by hand |
| Files `EndsInCR` | a text ends in a carriage return after an empty line | read_lines drops that empty line | by hand |
| Types `Promotions` | an Int result that became a Float is used by a typed opcode | its low word is taken for an Int | by hand |
| Matches `unions` | a match on a union of three with an arm for each | the union is read as A \| (B \| C): an arm for B counts for C too, and a match without one for C compiles | by hand |
| Matches `untyped` | a match on a value of type Any with arms for Ok and Err, or Some and None, only | it compiles as exhaustive, and for another value no arm is taken: the value is left as the match's | by hand |
| Matches `MatchIdioms`: `wide`, `promoted` | an arm for a type whose bit is above 15 (Set, Tuple, Option …); a Float that holds an Int | the arm is not taken | by hand |
| Matches `any` | an arm gives what it has bound of a target Option[Any] or Result[Any], after one that gives another type | Any agrees with every type, and the whole is of the first arm's | by hand |
| Matches `MatchIdioms`: `widening`, `block`, `branches` | a later arm's type includes the first's; an arm without give; give in both branches of an if | the match leaves a value of another type than is compiled | by hand |
| Matrices `far` | rows, columns or an index of more than 16 bits | the memory is of the dimensions cut to 16 bits, and filled by the whole ones; an index passes the check cut and is used whole | by hand |
| Matrices `divide` | `m / 2` | the opcode takes the matrix it gets for a Result and reads its memory as one | by hand |
| Matrices `Misdeclared` | copy, equals, row, col | the first two answer a bare value where a Result is declared, the others an Array where a Vector is | by hand |
| Types `Matrices`, `Tails` | `Matrix[2, 3]`; `Vector[] \| Int` | refused; the union is not read | by hand |
| FlowTyping `overflow` | an Int sum, product or negation that does not fit | a Float is in a variable of type Int, and OP_ADD_INT reads its bits | by hand |
| FlowTyping `compound` | `x /= 2` with x of type Int | the same | by hand |
| FlowTyping `any` | a value of type Any is assigned or passed where a type is declared, or put into an array of a type | nothing checks it (the gradual part of the typing) | by hand |
| FlowTyping `cast` | `as Array[Int]`, `as Int \| Nil` | only the kind of value is looked at, of a union nothing | by hand |
| FlowTyping `not`, `else` | if not (typeof(x) == "Int"); the else of an `and` of tests | the branch is compiled as if the test had held, or had failed | by hand |
| FlowTyping `text` | if x == "Nil"; if x == "some text" | taken for a test of the type; the local is left without a type | by hand |
| FlowTyping `through` | if f(x) == nil | x itself is narrowed | by hand |
| FlowTyping `coarse`, `parts` | typeof(x) == "Float" with x a Float, which may hold an Int, or a union with one; typeof(x) == "Array" | an Int answers "Int" and is in the else, which loses it with Float; arrays that hold something say "Array[…]" | by hand |
| FlowTyping `outer` | a function tests a global of the script | the narrowing of the else stays for the rest of the function | by hand |
| FlowTyping `closure`, `call` | a closure is made, or assigns, where its variable is narrowed | it keeps the narrowed type; the narrowing is stale after the call | by hand |

"By hand" means: set the constant in the `.cfg` of the passing run, or leave the hypothesis
out, and TLC reports the violation (those of Matches are in `MatchIdioms`, for `outer` of FlowTyping also `Outer = {"y"}`, for `parts` also "Array" in `Texts`; the switch of Matrices is `MatrixIdioms`, and `Misdeclared` is
made smaller). Whether an idiom of FlowTyping is a bug or the
price of gradual typing is for the reader to say; the run, and the theorems of section 6,
say that there are no others among the statements modelled. The state `hung` of ObjectTable needs no switch:
`OnlyTombstonesHang` says exactly when a call fails to return. With the initial
capacity of 16, a Table used as a sliding window of three keys gets there.

The PROJECT.json `findings` quote the comment or doc each disagrees with.

Some lines of the repository say something else than the code, where the model follows the
code and the passing runs hold of what the code does:

* `include/table.h:42-43` says that table_set returns true "if a new key was added or an existing
  key was changed from nil". table_set (`src/table.c:87,95`) returns whether the entry had no key: for
  an existing key with the value nil that is false. Dictionary, StringTable and
  `RefinesDictionary` have the code's answer; no caller in `src/` looks at it for such a key.
* `tests/modules/array.crux:81-84` says "sort modifies in place" and "sort is currently not
  working correctly, skip test", printing "(known issue)". array_sort_method
  (`src/stdlib/array.c`) sorts a copy, answers it in a Result and leaves the array as it was. That
  copy is sorted (`SortSorts`), which is no contradiction to "not in place": a test that looks at
  the array after a call of sort fails, one that looks at the answer would pass.
* `src/stdlib/fs.c:379-380` says "Only skip the very first iteration's empty result if we are
  immediately at EOF (i.e. the file was empty)". The condition under it, `at_eof && count == 0`,
  skips the empty last line at every end of file, so that a text that ends in a newline has no empty
  line after it. `LinesAreTheText` says so of lines; `EndsInCR` above is where the same
  condition drops a line that the text has.
* `tests/features/match.crux:27` says "if no arm matches then the value you are trying to match
  against is returned". With `default` compiled as an arm, what returns the value in that test is an
  arm that is a block without give (`block`); that no arm is taken happens with `untyped`, `wide`,
  `promoted` and `unions`. `tests/modules/matrix.crux:6-11` matches on an untyped parameter
  with Ok and Err (`untyped`).

## 4. Runs

| run | module | question | bounds |
|---|---|---|---|
| `tables` | MCTables | are both tables maps, do probes end, does a growing set return, when does a call not return? | string table: 4 string objects of 3 texts (two equal), colliding at the end of the array so that probes wrap; capacities 0, 4, 8. Object table: 5 keys of which an Int and a Float are equal; capacities 4, 8 |
| `collections` | MCCollections | are arrays lists while they are walked, buffers queues, ranges their elements, and does sort sort? | arrays of 3 elements in memory for 1, 2 or 4, of which 2 is the limit of those that are made at once; every range in Ints of 4 bits, sizes 0 to 7; arrays to sort of up to 4 of 8 elements; bytes of one bit, integers of 2 and 3 bytes, positions of 3 bits, capacities 2, 4 and the refused 8 |
| `memory` | MCMemory | is collection exact, are free lists, marks and interning sound, does it end? is what constructors, instructions and natives hold rooted and complete, and the stack as it was? | 4 slots in slabs of 2, stack of 2, 2 texts of which one belongs to the library; 34 procedures in a world of 15 objects, loops of up to two rounds |
| `types` | MCTypes | are types read as written, do matches that compile match, is arithmetic exact, and linear algebra? | every text of up to 4 of 13 tokens, and the 3473 texts of 2107 types; 15 types of targets, 14 values; Ints of 4 bits, 12 numerals, 3 fractions; matrices of up to 3 by 3 (239 of them, 4 to add or multiply), each with at most one entry that set has written, dimensions of 2 bits |
| `scopes` | MCScopes | do the compiler's slots agree with the stack? | 6 open constructs, 5 values, 3 match handlers |
| `upvalues` | MCUpvalues | do slots and upvalues implement variables? | 2 closures of 2 upvalues, 3 variables, 2 frames, 2 values of which one is a native method, natives as deep as the frames allow |
| `session` | MCSession | compiled once, run once, in order; indexes mean names | 2 files, 2 names, 2 lines of 2 declarations |
| `files` | MCFiles | is what is answered done, are lines the text's, are streams closed? | 2 paths, 3 inodes, 1 File object, 3 modes, 2 texts, 3 characters per file |
| `flow_typing` | MCFlowTyping | are static types true of values, and narrowings undone? | a local of 12 types and a global of a union of three; typeof against three names; ifs two deep about one variable |
| `heap_sets` | MCMemory | are reachable objects kept with sets? (no) | those of `memory` |
| `scope_exit` | MCScopes | with idiom `capture`? (no) | 5 constructs, 4 values |
| `nested_return` | MCUpvalues | with callbacks that call? (no) | 3 frames, 1 closure |

Why the bounds are enough for the questions asked. The table needs a growth from 0
(no rehash) and one with a rehash, a tombstone that is reused and one that is
not, and a wrap. A heap needs a cycle, a free list that spans two slabs, and a
slot that is freed and reused. A procedure holds at most four objects at a time; a second
round of a loop is where what the first left unrooted is lost, and a third finds what
the second finds. Arrays need a growth while they are walked, memory
that holds what a removal left, and a walk that a removal cuts short; Ranges are
checked in all Ints of their width, those next to the largest and smallest included. Sort needs
parts of two and three, equal elements that differ, and one that compares as equal to
all. Types needs one part of each kind inside each other kind, at the
beginning and at the end, and every short text that is no type. Numbers is checked for all
Ints of its width but for the middle of the range of numerals. Matrices needs a pivot
that is not in its place in the first column and one in the second, matrices of every rank, square and not,
and a determinant whose sign a swap changes. Scopes needs a block in a loop in an operand in a
match, one of each at two depths; the number of handlers is 16 in the code, and 3
here, so that the limit is met. Upvalues needs two upvalues on one list in
both orders of capture, one variable shared by two closures, one that outlives
its frame and a slot used again; FRAMES_MAX is 128 in the code. Session needs two files
that import each other and the script that imports both. FlowTyping needs a
variable whose type loses two members one after the other, one of each place
(local, global), and every kind of type with parts once; ifs nested about different
variables do not meet in the compiler's state; of the names, one that no other type is compatible
with, one that stands for nil, and Float, which accepts Int. Buffer needs a growth, a compaction and a
unit that spans the end of what is written. Files needs a rename onto an open file, a
second path to copy to, a line end of two bytes and a limit on open streams that a copy
meets. The bounds are
CONSTANTS, most of them named `Max…`, and appear only in guards (a capacity, a stack or a
text that would grow past the bound is not taken).

Symmetry is used over closures, upvalues and variables (Upvalues), over files
and names (Session) and over paths (Files): those constants are never ordered or told apart, and no
liveness property is checked in those runs.

Deadlock is not checked where the program really stops: a call of the object table that
does not return (`tables`), shutdown and the end of a procedure (`memory`), the bound on a
Buffer where every write is refused, the end of a walk and of a sort (`collections`), the end of
a text, of a match, a panic of arithmetic (`types`), the return of the function (Scopes),
the last line or the death of the process (Session), a panic that ends the script
(FlowTyping); and in Upvalues, where the variables are used up. It is checked for Files.

Fairness. *StringTable* assumes weak fairness of `FreshArray`, `RehashSlot` and
`FinishSet`: a `table_set` that has begun runs to its end, the code having nothing
that could suspend it but the collection in its allocation. *Heap* assumes weak
fairness of the collector's steps (`Collector`): collect_garbage is one C call with the
world stopped. The liveness properties are `GrowthReturns` and `CollectionEnds`.
Nothing is assumed of scripts.

## 5. What the passing runs show

* StringTable and ObjectTable are maps (`RefinesDictionary`, `RefinesMap`): tombstones, growth and
  rehash are invisible, whatever the collector deletes meanwhile.
* A collection frees exactly what is unreachable and not immortal
  (`CollectionIsExact`); nothing reachable has been freed, the write barriers' early marks do
  not survive it, strings that scripts create are unique, and the free list is sound
  (`HeapIsSound`: `ReachableIsAllocated`, `MarksAreGray`, `MortalStringsAreUnique`, `FreeListSound`).
* With a collection at every allocation of the sound procedures, nothing freed is
  used, no part is read before it is written, every way out leaves the stack
  as it was, and what is left on it is complete (`NativesAreSound`).
* The compiled slots are the stack's slots (`ScopesAreSound` with `LocalsInTheirSlots`,
  `StackHeightIsKnown`), with returns from inside any construct; captured locals leave the stack
  only through their closing.
* Slots and upvalues implement variables (`ImplementsVariables`), also while native methods
  have slots of variables that no closure has: the walks over the
  sorted list of open upvalues miss none, and dead slots have none (`UpvaluesAreSound`).
* A file is compiled by one compiler at a time and run once, never before what it
  imports; the import stack is the stack of runs (`SessionIsSound`); a global read finds
  what the definition of that name wrote, within the array.
* Outside the idioms above, a variable holds what its static type says wherever the code
  runs (`ValuesHaveTheirTypes`), no unchecked instruction or function body is given
  anything else (`OperandsAreWhatOpcodesRead`), and a narrowing ends with its if (`FlowIsSound`
  with `NarrowingIsUndone`).
* parse_type_record takes every text of a type, whole, and what it returns is what
  the text says (`AnnotationsAreRead`); the parts it holds are rooted while it
  allocates (`PartsAreProtected`).
* A match that compiles takes an arm (`SomeArmIsTaken`) and leaves a value of its type
  (`ResultHasItsType`), outside the idioms.
* The three ways of each arithmetic operation give the exact result, an Int where it fits
  (`ResultsAreExact`), division and remainder belong together (`IntegerLaws`).
* The determinant is the sum over permutations, a matrix is refused as singular exactly when it is
  0, an inverse inverts, rank is rank; transposing undoes itself and turns products around;
  add, sub, mul and mul_vec agree; between two columns the copy and the sign, or the copy and what
  is made, still say what the matrix was. Methods answer what is declared, but for four, and touch
  nothing outside the matrix (`MatricesAnswerRight`).
* An array is a list whatever a walk's function does to it (`RefinesList`), nothing is
  written past its memory (`ArraysAreSound`) or a buffer's (`BufferIsSound`); the queries of a
  range agree (`RangesAreTheirElements`); sort ends with an ordered permutation, or refuses (`SortSorts`).
* A Buffer is a queue of bytes whatever it grows, compacts and clones (`BuffersAreQueues`).
* What fs answers to be done is in the file, through buffering, renames and rewrites
  (`AcknowledgedIsDone`); reading line by line gives the lines of the text
  (`LinesAreTheText`); no call leaves a stream open on any of its ways out
  (`FilesAreSound` with `NoDescriptorLeaks`).

## 6. Proofs

The theorems hold for every value of the constants that the modules' named assumptions
allow: any number of keys, slots, files, names, frames, upvalues and so on, and any program
over them. Some hypotheses leave programs out, each because TLC shows the property to be
false with them (section 3): no later REPL line declares a name (`"later" \notin Idioms`), or
none of Session's idioms is used (`Idioms = {}`); no panic comes while an upvalue is open
(`~OpenAtPanic`); callbacks do not call functions (`~CallbacksCall`); scripts create no sets
(`"set" \notin Kinds`); the disk does not fill up and no file is copied onto itself (`~Full`,
`~SameFile`); scripts do not insert before the end of an array (`~Middle`); the distance from start to end
of a range is an Int, and a range that is reversed is divided by its step (`~Wide`, `~Remainders`); no
position of a buffer comes to 2^32 (`~Huge`); no Int expression whose value became a Float is
used again by an opcode for Ints (`~Promotions`); no native method takes the slot of an open upvalue (`~OpenBelow`); programs use none of Scopes' idioms (`Idioms = {}`);
programs use none of FlowTyping's (`Idioms = {}`), or only not two of them; matches use none of theirs
(`MatchIdioms = {}`), or only not four. The passing runs have the same constants, so that they check exactly
what is proved, on small instances; TLC also checked each inductive invariant before it was
proved. Every proof has the same outline: the property is not inductive, a stronger invariant
is, one lemma per action shows that the action preserves it, and a last lemma derives the
property from it.

**ProofBasics** has what several of them use: a set of numbers that is not empty has a
least element, and if it is bounded a greatest (from well-foundedness; how "the first slot
where a probe stops", "the walk stops somewhere" and inductions over positions are made
precise), what pushing, popping and cutting does to a sequence used as a stack, and the
division of integers (the floor of a quotient and its remainder), which ranges, buffers and
numbers need.

### String table (TableProofs)

* `TypeCorrect`: `Spec => []TypeOK`. TypeOK is inductive.
* `ProbingAlwaysEnds`: `Spec => []ProbingEnds`. That there is an empty slot follows from
  counting. The invariant `RoomInv` is TypeOK and three parts: fewer slots are used (tombstones
  included) than there are (`Room`); outside a growth `count` is at least the number of used
  slots (`Counted`), so the load check, which reads `count`, keeps a slot free; during a
  growth the new array has at most `count` used slots and at most as many as have been copied
  (`Filling`), so that it has room when it takes the old one's place. So one slot is empty;
  probing from the home slot reaches every slot (`ProbeSurjective`), so there is a *first* stop.
* `EveryEntryIsAlwaysFound`: `Spec => []EveryEntryIsFound`. `FoundInv` is TypeOK and
  the property for the array in use and, during a growth, for the one being filled: what
  is copied into it stays found. A store fills the first place where the
  probe for its text would stop or an earlier tombstone, and a deletion leaves a
  tombstone: neither changes where any other probe stops.
* `TableIsADictionary`: `Spec => RefinesDictionary`, the refinement. The cell of a text in the
  dictionary is what the one slot that holds the text has (one, by EveryEntryIsFound). The
  invariant `MapInv` adds `Moved`: while a growth is under way the new array holds exactly the
  live entries the loop has passed, so that when it takes the old one's place, with the key
  that caused the growth, the map changes by that key only. Collections in the middle map to
  `Withdraw` or to nothing. It needs SlotAssumption (NULL is no slot), which TLC evaluates.

### Object table (TableProofs)

find_entry has no exit but an equal key or an empty entry, so everything rests on which entries
its probes reach. `index * 5 + 1` modulo a power of two is a generator of full period, but no
source says so and it is not obvious: `PowersJump` shows by halving that 2^k steps at once
take the index y to (1 + 4·2^k·u)·y + 2^k·(1 + 2w), so that `JumpsAdd` t such jumps add 2^k·t
modulo 2^(k+1), and `PowersSeparate` two probes meet modulo 2^k only if they are a multiple of
2^k apart. So the first `cap` probes are of different entries (`OrbitInjective`) and, there being `cap`
entries, of all (`OrbitCovers`). CapacityAssumption says that the first capacity is a power of two, as
new_object_table has it (16, or the next power of two; an array of 65534 elements or more starts a table or
set at 65534, which is left out); that it stays one is part of the invariant.

The invariant `ObjectInv` is the type, in which `size` is the number of occupied entries and the
load is at most 65%, and `ArrayInv`: the capacity is a power of two, every occupied entry is what
find_entry finds for its key (nothing before it on its orbit stops the probe), and an entry that
is not occupied is empty or a tombstone. A store takes the first place where its probe would stop or
the first tombstone before, a removal leaves a tombstone, neither moves where another probe stops; the rehash
keeps the entries and their number (`RehashKeeps`, by induction over the loop of adjust_capacity)
and leaves no tombstone, and the array it fills is never full (`NextIsPower`).

* `CallsReturn`: `ObjectSpec => []OnlyTombstonesHang`. What is neither occupied nor a tombstone
  is empty, and one empty entry ends every probe. Its hypothesis `CapacitiesFit` is
  that find_entry is told the capacities whole: tables that have, and start with, less than 65536 entries (section 3's
  `Truncated` shows what happens beyond).
* `ObjectTableIsAMap`: `ObjectSpec => RefinesMap`, without that hypothesis: a call that returns
  answers as the map does, and one that does not changes nothing.

### Sessions (SessionProofs)

The invariant has a layer for each place where the code keeps track of modules, each proved
inductive from those before it: types, with the shape of the instructions (`TypeInv`); the
stack of compilers (`CompilersInv`: a line is compiled before it runs, the files being compiled
enclose one another and are exactly those the cache has as loading); the activations of run
with the import stack (`RunsInv`: each but the first runs a loaded file, no two the same, and
was started by the instruction that the one below it executed last); the states in the
cache with the code (`ReadyInv`: a text compiled without error uses only files whose code may
run, an executed file only executed ones, and an activation has executed what it used so
far, but for the file it waits for); that files whose code may run do not import in circles,
stated as a ranking (`Ranked`), so that a use never meets a file that is running; and that a
file with an array of globals is running or has run (`HasRun`).

* `SessionTypeOK`, `CirclesEndInAnError` (a file is loading exactly while a compiler compiles
  it, the import stack is the stack of runs, so that an import circle always meets the
  compiler's check and never the VM's), `ImportsReady`: `Spec => []ImportsAreReady`, and
  `RunOnce`: `Spec => ModulesRunOnce`. These hold for all idioms.
* `DefinitionsFit` and `SessionsAreSound`: `Spec => []SessionIsSound`, if no later line
  declares a name. `FitInv`: every definition in a text, in a file's code or in the code of
  a run has an index below the count of names that the array was, or will be, made for.
* `ReadsFindDefinitions`: `Spec => []ReadsSeeDefinitions`, without idioms. `ReadInv` says of
  each read in a text that a definition of the name with the same index comes before it,
  or is in a text already run; of each run, that the definitions before its position have been
  written.

### Calls, closures and upvalues (UpvaluesProofs)

* `ClosuresKeepTheirVariables`: `Spec => []UpvaluesAreSound`. That an upvalue points to its
  variable's slot as long as there is one depends on the two walks over the list of open
  upvalues, capture_upvalue's and close_upvalues', which stop at the first that fails their
  test. So the invariant `VariableInv` says that the list is sorted by slot and holds exactly
  the open upvalues (`Sorted`, `Listed`), that no variable has two slots or two upvalues
  (`OneSlotEach`, `OneUpvalueEach`), and that an upvalue has a variable exactly when some closure
  refers to it (`Referred`).
* `UpvaluesImplementVariables`: `Spec => ImplementsVariables`, the refinement, step by step.
  The value of a variable is that of its slot, the one a native has saved of its slot, or of its
  closed upvalue. That this determines the store (`Valued`) rests on VariableInv; natives keep
  slots below the frames of what they call, two natives never the same (`SlotsTaken`), and with
  `~OpenBelow` none that an open upvalue points to (`TakenApart`), so that no instruction reads or
  writes one meanwhile; that every action changes one variable as the
  abstract action does is one lemma per action.
* `NestedRunsEndWithTheirFrame`: a nested run of the interpreter ends with the frame a native
  called. The invariant `RunsAreTop`: the runs are those of the uppermost frames, one each.
  The property is the one run `nested_return` shows violated when callbacks call functions.

### Heap (RuntimeProofs)

* `ReachableObjectsAreKept`: `Spec => []HeapIsSound`. Reachability is not preserved step by
  step in any useful form; what is, is a set it is contained in. `Survivors` are the
  allocated objects that the sweep under way will not free (outside a sweep: all). The
  invariant `HeapInv` says that the stack and the pool lead to survivors and that these are
  closed under references (`Safe`); that allocated slots and free list are complements
  (`Slots`); that the list of objects has all that are not immortal (`Linked`); the tricolour
  invariant of the marking, that what is marked is reachable, and that between collections
  marked is gray (`Coloured`); and that each string that survives is the one the
  pool has for its text (`Interned`). The critical step is RemoveWhite, where
  `Survivors` shrinks to the marked and immortal objects: nothing is gray, so they are closed.
* `CollectionsAreExact`: `Spec => CollectionIsExact`. What is marked is reachable by
  `Coloured`; what is reachable is marked because reachability is the least closed set.

### Ranges (RuntimeProofs)

* `RangesAgree`: `RangeSpec => []RangesAreTheirElements`, for Ints of any width and collections of any
  size. The members of a range are start, start + step and so on; how many there are is the distance
  from start to end, divided by the size of the step and rounded up (`Count`), which is what range_len computes by
  adding the step less one before it divides. The sums and products on the way are Ints for every index
  below that, so that the wraps are identities; this is where `~Wide` is used. A number is a member
  exactly when it is in between and the step divides its distance from start, which is what contains
  looks at. If the step divides the whole distance, one step before the end is the last member, and
  the reversed range has the same members; else it is none, section 3's `Remainders`. All of
  this is true of every range of that kind (`Fine`). The invariant `RangeInv` says that the
  range held and the one it was reversed from are of that kind, that the iterator has given the first
  `index` members, and that the reversal and the slice were right when they were made.

### Buffers (RuntimeProofs)

* `BufferStaysSound`: `BufferSpec => []BufferIsSound`. That grow_buffer's doubling gets to what is
  required, and not below what there was, is `Grown`, by induction over what is missing.
* `BuffersImplementQueues`: `BufferSpec => BuffersAreQueues`, the refinement, for bytes of any even base.
  The invariant `BufferInv` adds that what is below the write position has been written. One lemma says
  that a write adds its bytes at the end of what is readable, whatever memory it is moved to
  (`Writes`), one that a read takes its own from the front (`Advances`). For numbers the abstract queue
  says which bytes are those of a number, by recursion over the digits from the most
  significant; the code shifts and masks each byte on its own. `BigBytes` shows that the shifted bytes are the
  digits of the number modulo the power of the base, `ReadBytes` that the shifted sum that the code
  reads is the number of the digits, both by induction over the digits, and `NumbersRead` that
  the cast to a signed type of as many bytes is the one number in its range with that remainder.
  The recursions exist by `FunctionsByRank`.

### Numbers (RuntimeProofs)

* `ArithmeticIsExact`: `NumberSpec => ResultsAreExact`, for Ints of any width, literals and
  Floats of any size. NumberTypeOK is inductive: whatever the opcode, the result is a number of the
  representation its tag says, or a panic. Each way that the source has for an operation is compared with
  arithmetic on its own: operations on two Ints (`IntsAreExact`), on fractions (`FloatsAreExact`),
  then the tables of the generic opcodes, the typed ones and the compound assignments
  (`IntAnswers`, `FloatAnswers`, `CompoundAnswers`). Only the typed ones need `~Promotions`: they
  take for an Int what the compiler calls one. That a fraction is reduced without changing
  its value needs that the greatest common divisor divides both (`DivisorDivides`, by induction over the smaller).
* `IntegersFollowTheirLaws`: `NumberSpec => []IntegerLaws`, with Promotions too. C's quotient is that of
  the absolute values with a sign (`QuotientIs`), and it is an Int but for MinInt by -1 (`DivisionFits`).
  For the bits a sum over a set of positions is defined by recursion (`BitSum`). The digits of
  a number add up to it (`BitSumOfDigits`), different sets have different sums (`BitSumsDiffer`), so every set of
  bits is that of exactly one Int (`FromBitsIs`), the sum of its bits where the greatest counts
  against it (`SignedIs`); the laws of and, or, exclusive or and not hold bit by bit and so, by induction, for
  the sums. All recursions exist by `FunctionsByRank`.

### Files (LibraryProofs)

* `NoCallLeaksADescriptor`: `Spec => []FilesAreSound`, whether or not the disk fills up. This
  invariant is inductive as it stands, with the types of TypeOK: that a new file gets an inode
  no path names and no stream holds is counting (`FreshIsFree`: there are as many inodes as
  paths and handles).
* `AnswersAreTrue`: `Spec => AcknowledgedIsDone`, an action property, from the same
  invariant. The lemma it rests on is `OverlayTwice`: two texts, one written behind the
  other, may be written at once or one by one, past the end of the file too; so it makes no
  difference when the C library writes what is pending. That other paths read what they read
  follows from each inode having one name.

### Scopes (ScopesProofs)

* `LocalsAreWhereTheCompilerThinks`: `Spec => []ScopesAreSound`;
  `StackIsAsHighAsTheCompilerThinks`: `Spec => []StackHeightIsKnown`; `NoClosureDangles`: `Spec
  => CapturedLocalsAreClosed`, all with `Idioms = {}`. They rest on `NestInv`, the parser's
  grammar as an adjacency: the kind of a construct says in what it may be (`Nesting`), and what
  is parsed next says what the innermost one is (`ModeFits`). So there is an arm between a match
  and any statement, and a break or continue that leaves no arm leaves no match; there are at
  least as many handlers taken as matches open (a return from an arm keeps its own). Of the
  three none is inductive: a construct can only
  be closed rightly if what it was opened with is remembered, which the code does in the frames
  of the recursive descent and the model in `nest`. The invariant `ScopesInv` says that there
  are numbers for each level of the nest (`LevelsInv`): the scope depth in it (`D`), the number
  of locals when it was opened (`B`), the values on the stack beside the locals (`O`). Each
  level owns the locals from `B[i]` to `B[i+1]`, none of them deeper than it, so that what
  `Trim` keeps is what there was before (`KeptAt`); a declaration under way owns one local,
  without a value; a level that owns locals has no temporary below them (`Owns`), which is why
  their place in the array is their slot; in a block or loop the captured locals are the last
  (`LastCaptured`), which is when the code of cleanupLocalsToDepth is right (`ScopeCode`, by
  induction over the loop that emits it); after a give the arm has no locals of its own
  (`Bare`). The numbers are found, not stored: opening extends them (`PushLevel`), closing cuts
  them (`CutLevels`), so every way out of nested scopes is one lemma (`Left`), for end_scope,
  break, continue and return. The height of the stack is then counting: `O` of the innermost
  level is the operands and matches less the declarations and bindings (`OffsetIsBalance`), and
  the locals without a value are as many as the declarations (`Uninitialized`, a bijection).
  That there is always an id for a new local is counting as well (`FreshIsUnused`).

### Sorting (LibraryProofs)

* `EveryArrayIsSorted`: `Spec => []SortSorts`, for elements of any types and ranks, NaN among
  them. The invariant says that the parts that quick_sort has still to sort are disjoint and
  follow each other (`Follow`), that the partition under way is of the first, and that two
  positions that do not share a part are in order (`Ordered`). `ExchangeKeepsOrder`: an
  exchange in the first part keeps that, since what is outside is in order with all of it.
  `SplitPart`: when the pivot is put in its place its part is two. This needs `PivotParts`:
  compare_values answers 0 for a NaN, so that "equal" is not transitive; but what is
  greater than the pivot has a rank, and so the step that partition relies on holds. Exchanges
  keep the elements by a bijection of positions (`ExchangeKeepsCounts`).

### Arrays (LibraryProofs)

* `ArrayWritesFit`: `ArraySpec => []ArraysAreSound`. The invariant adds that the array has memory
  at all, so that doubling it gets somewhere, and that what map and filter make fits in the
  memory it has before they add to it (`Rooms`). That ensure_capacity stops at enough, and where
  calculateCollectionCapacity does, is `DoublingReaches`: between a power of two and the next no
  number is missed, up to 2^30, where the code stops doubling (ArraysAssumption has the sizes
  below).
* `ArraysAreLists`: `ArraySpec => RefinesList`, the refinement, for scripts that do not insert
  before the end (`~Middle`, section 3). One lemma per call says that what it does to the
  memory is, on the first `size` values, what the list's operation does to the list, those of
  SequencesExt among them (RemoveAt, Reverse, Front, SelectInSeq); the memory beyond does not
  show. A walk of the array is the same walk of the list, whatever its function does in between.

### Type annotations (TypesProofs)

* `PartsStayProtected`: `Spec => []PartsAreProtected`, for texts of any length and types nested to
  any depth. The invariant `SyntaxInv` says that there are numbers, one for each open call, for
  where on the stack of protected values what the call holds begins (`Layout`). How much it holds
  (`Held`) follows from where it is: the parts it has read so far, their names in a shape or a
  struct, the table of a set or a function. So it needs saying of the innermost call, which is
  the one that goes on (`GoesOn`), and of each of the others, which wait for a part (`Waits`). That
  each way out of a call pops what it holds (`PopsWhatIsHeld`) then makes the calls below find
  their own parts on top. As with Scopes' levels the numbers are found, not stored: entering a
  call extends them (`PushLayout`), leaving cuts them (`CutLayout`), a part that was read
  changes the last (`ReplaceLayout`). No program is left out.

### Static types (TypesProofs)

For any variables, types and values of any depth, unions of any length and ifs nested to any depth:

* `StaticTypesAreTrue`: `FlowSpec => []ValuesHaveTheirTypes`, and `NothingIsMisread`:
  `FlowSpec => []OperandsAreWhatOpcodesRead`, for programs without the idioms of section 3
  (`Idioms = {}`): the list of idioms is complete for the statements modelled, and TLC violates
  a property with each of them alone.
* `NarrowingsEnd`: `FlowSpec => []FlowIsSound`, for programs that do not use `text` or `outer`; the
  other eleven do not matter to it.

The argument has three layers. The relations of Types are functions defined by recursion on
the parts of types. `FunctionsByRank` of ProofBasics makes them usable: a function whose
definition looks only at arguments of lower rank is what its definition says. `Rank` is a
constant for that, any measure that is smaller for parts (RankAssumption). On it rests
`CompatibleIncludes`: if the compiler accepts a type where another is declared, and no part of it
is Any (`Vague`), its values are of the other, by induction on the sum of the ranks (arguments of
functions change sides).

On expressions, `OutcomesFit` is the agreement of compiler and VM: an instruction that
`Instruction` chooses for two types, given values of them, misreads neither and gives one of
`ResultType`, or panics. `ExpressionsFit` extends it to everything that can be assigned. `StripIsSound` says
that what strip_type leaves has the values that did not pass the test and no others than the type
had, whatever the union, and `TestsAreSound` and `ConditionsAreSound` carry that through tests, `and` and `or`.

On statements, neither property is inductive: an end of an if, or an else, brings back a type
that was kept when the if began, and the value has changed since. The invariant is `TypedInv`. Its
part `FlowInv` says that the ifs being compiled are about one variable, that only its type is not
the declared one, and that the outermost has kept that. The rest (`LevelFits`) says of each open if
whose branch runs that the types kept by it and by those around it include the one its branch is
compiled with; of one whose test has failed, that the value is of the type its else will be compiled
with, which the kept one includes; and that where the code runs the value is of the innermost type. An
assignment is checked against the innermost type; by the inclusions the value is then of all that an
end can bring back.

The assumptions are about records, not programs: a record has the parts its constructor gives it, and
what strip_type leaves is a record (TypesAssumption); values are of bases that values have
(ValuesAssumption). TLC evaluates them in `flow_typing` and, over other records, in `types`. Two say less than the code allows:
there is one struct type of a name, and the functions that are values take and give types of lower
rank than the function types they are compared with (RankAssumption); without `any`, functions
have no arguments of type Any (ArgumentsAssumption).

### Match expressions (TypesProofs)

For any targets, nested to any depth, unions of any length and any arms in any order:

* `MatchesRunAnArm`: `MatchSpec => []SomeArmIsTaken`, for matches that use none of `wide`, `untyped`,
  `promoted` and `unions` (`PlainTargets`). What arms give does not matter to it.
* `MatchesAgree`: `MatchSpec => []ResultHasItsType`, for matches without idioms (`MatchIdioms = {}`).

That some arm is taken is not inductive: at the end it follows from what the arms before it have found
out. `MatchInv` says that while no arm has been taken, the value is the target's still, a flag is only
set for what it is not (with `has_ok` it has no part, with `has_err` it has one, and so on), and no
type that is counted as matched is of its base. At the end each way to be exhaustive contradicts
that. For the flags it is immediate. For the count of types it takes a count: the alternative with
the value's base is not among the matched ones, which are all alternatives, so that they are fewer than
there are (`SomeAlternativeIsLeft`, with the cardinalities of injections). With nested unions an
alternative has many bases, and matching one of them counts it whole: that is where `unions` fails.
The loop of record_type_pattern_coverage is unrolled by `FunctionsByRank` and a least position
(`CoverageIs`).

For the type, `TypedMatch` adds that once an arm was taken and left a value, the type of the whole is
known and the value has it. An arm that runs later cannot change it; an arm that is only compiled
does not either. The arm that runs gives a value of its own type (`BodyFits`), which the arms'
agreement makes one of the whole by `CompatibleIncludes`, the lemma of the static types. Its
hypothesis, that the type given is not vague, is where `any` was found.

MatchesAssumption says that the values written down are of scalar types, that there are Nil and Error, and that
every value has a bit in TypeMask.

### What is only model-checked

Liveness (`GrowthReturns`, `CollectionEnds`) is outside what the proof system handles, and so
is what recursive operators and functions compute by induction over data of any shape: the texts of
a type (`AnnotationsAreRead`), the lines that read_lines cuts a text into (`LinesAreTheText`), the
determinants and eliminations of Matrices (`MatricesAnswerRight`). `NativesAreSound`
speaks of a fixed list of procedures, each of finitely many steps, of which TLC sees every
state with every point at which a collection can come; a proof would repeat that enumeration.

## 7. What is not modelled

Scanner (a pure function). Chunk, disassembler, printing. Standard library beyond
arrays, ranges, matrices, `buffer` and `fs`: pure functions over values, and system calls; the
mathematics of vectors and complex numbers. Vendored linenoise and UTF-8 code.

Of the modelled components: the byte counters that decide when a collection
runs (a collection may run at any allocation instead); path resolution and native
modules; integer widths but those of Buffer, Ranges, Numbers, Matrices and the object table's
capacity; the objects that are immortal and unlinked by a sweep, which nobody frees at
shutdown; the stack trace of a panic in an imported module, which reads a pointer that is
never set, but for the state `crashed` of Session; the struct instance stack and the match
handlers after a panic; queries of Buffer and fs, the field `position` of
a File, which no code reads, and the read-ahead of C streams.

* *Rooting*: instructions and natives that allocate once; contents without references.
* *FlowTyping*: match arms, loops, members of structs, iterators, matrices and complex
  numbers, and that structs of one name from two modules are one type and arrays are
  covariant though they can be written to through either name: types are per variable
  there, and containers are values.
* *Matches*: matches inside arms. A block arm without give has type Nil and leaves the value
  that was bound, or the target's (idiom `block`): `tests/features/match.crux:28-43` uses that value.
* *TypeSyntax*: what follows a refused text, failed allocations, texts that are longer than
  the bound and no text of a type.
* *Numbers*: Floats are exact fractions, without rounding, infinities and not-a-number; powers
  have small natural exponents; panics are not told apart; the low word of a Float that a typed
  opcode takes for an Int is 0, as that of a Float with few digits is.
* *Matrices*: Floats are exact fractions, so that what rounding leaves of a 0 never meets EPSILON;
  AMatrix from an array that is not of numbers; collections during a method.
* *ObjectTable*: a table or set made from 65534 elements or more, whose first capacity,
  65534 (calculateCollectionCapacity), is not a power of two, so that its probes meet only some entries.
* *Sorting*: the depth of the recursion, which is the length of an array in order.
* *Arrays*: functions that panic in the middle of a walk.

## 8. Plan

1. *This model*: tables, heap and rooting, scopes, upvalues, sessions, types, their syntax,
   matches, numbers and matrices, arrays, ranges, sort, buffers and files; the tables,
   sessions, upvalues, the heap, files, scopes, sort, arrays, ranges, buffers, numbers, how annotations are
   rooted, static types and matches proved. Order: what every script relies on first (strings
   and the heap), then the compiler and VM agreement, then sessions, types and
   the standard library's collections.
2. *Proofs next*: that transposing undoes itself and the cases of `MatricesAnswerRight` that need no
   induction over rows.
3. *Composition*: Scopes with Upvalues (calls within match arms, the handlers all
   frames share); Session with panics that find the struct and match stacks in
   use; Heap with the procedures of Natives as its scripts.
4. *Further modules*: the shapes of matrices and vectors in the compiler; the pre-scan of a file's function declarations;
   the scanner's nesting of string interpolation, if it earns its place.
