------------------------------ MODULE Session ------------------------------
(***************************************************************************)
(* A session: the lines given to interpret (a script is one line, the REPL *)
(* many), the modules they import, and the global variables of each        *)
(* (src/src/vm/vm_helpers.c, src/src/vm/vm_run.c, src/src/main.c, and      *)
(* compile, init_compiler, use_statement, named_variable in the compiler). *)
(*                                                                         *)
(* A line is compiled whole, with every module it imports for the first    *)
(* time, and then run; a module runs when its use is reached.  The text of *)
(* a line or of a file is chosen declaration by declaration as it is       *)
(* compiled (a file is compiled once).  Only what stands at the top level  *)
(* is kept: definitions, reads of globals, uses, errors.                   *)
(***************************************************************************)
EXTENDS Naturals, Sequences, FiniteSets

Sq == INSTANCE SequencesExt
Fs == INSTANCE FiniteSetsExt

CONSTANTS Main,      \* the module record of the script or of the REPL
          File,      \* the files that can be imported
          Name,      \* names of globals
          Core,      \* a core function, println say: a global of every module
          Idioms,    \* what the lines and files may do: see Idiom
          MaxLines,  \* bounds: lines, and declarations in each text
          MaxText

(***************************************************************************)
(* "outer":  a file reads a name that only its importer declares.          *)
(* "later":  a line after the first that ran declares a name.              *)
(* "failed": the session goes on after a line that failed.                 *)
(***************************************************************************)
Idiom == {"outer", "later", "failed"}

ASSUME IdiomsAssumption == Idioms \subseteq Idiom
ASSUME NamesAssumption == Core \notin Name /\ Main \notin File

Module == File \cup {Main}
GlobalName == Name \cup {Core}

VARIABLES state,      \* module->state, or "none": not in the module cache
          names,      \* module->global_names: the indexes of its names
          count,      \* module->global_count
          room,       \* the length of module->globals; 0: NULL
          globals,    \* the name whose definition wrote each element
          publics,    \* module->publics
          closure,    \* module->module_closure: the code of the module
          compilers,  \* the compilers in progress, each enclosing the next
          runs,       \* the activations of run, each started by the one before
          imports,    \* vm->import_stack
          lines,      \* lines started
          failed,     \* has a line failed?
          crashed     \* has the process died?

moduleVars == <<state, names, count, room, globals, publics, closure>>
vars == <<moduleVars, compilers, runs, imports, lines, failed, crashed>>

Nowhere == [from |-> Main, name |-> Core]
Empty == [x \in {} |-> 0]
With(f, x, v) == [y \in DOMAIN f \cup {x} |-> IF y = x THEN v ELSE f[y]]

Init == /\ state = [m \in Module |-> IF m = Main THEN "loading" ELSE "none"]
        /\ names = [m \in Module |-> Empty]
        /\ count = [m \in Module |-> 0]
        /\ room = [m \in Module |-> 0]
        /\ globals = [m \in Module |-> Empty]
        /\ publics = [m \in Module |-> {}]
        /\ closure = [m \in Module |-> <<>>]
        /\ compilers = <<>>
        /\ runs = <<>>
        /\ imports = <<>>
        /\ lines = 0
        /\ failed = FALSE
        /\ crashed = FALSE

-----------------------------------------------------------------------------
(***************************************************************************)
(* Instructions                                                            *)
(***************************************************************************)
Define(x, i, public) == [op |-> "define", name |-> x, index |-> i, public |-> public]
Get(x, i) == [op |-> "get", name |-> x, index |-> i]
UseModule(m) == [op |-> "use", from |-> m]
FinishUse(m, x, i) == [op |-> "finish", from |-> m, name |-> x, index |-> i]

-----------------------------------------------------------------------------
(***************************************************************************)
(* Compiling                                                               *)
(***************************************************************************)
\* init_compiler: the names of the module, and the core functions it does not
\* know yet, defined by the first instructions of the text
Compiler(m) ==
    LET known == Core \in DOMAIN names[m]
    IN  [module |-> m,
         table  |-> IF known THEN names[m] ELSE With(names[m], Core, count[m]),
         count  |-> IF known THEN count[m] ELSE count[m] + 1,
         code   |-> IF known THEN <<>> ELSE <<Define(Core, count[m], FALSE)>>,
         ok     |-> TRUE,
         using  |-> Nowhere,
         length |-> 0]

\* init_compiler writes the index of a core function through to the module
CoreNamed(m) == names' = [names EXCEPT ![m] = Compiler(m).table]

Idle == compilers = <<>> /\ runs = <<>> /\ ~crashed

\* repl, runFile: interpret is called with the next line
Interpret ==
    /\ Idle
    /\ lines < MaxLines
    /\ failed => "failed" \in Idioms
    /\ lines' = lines + 1
    /\ compilers' = <<Compiler(Main)>>
    /\ CoreNamed(Main)
    /\ UNCHANGED <<state, count, room, globals, publics, closure, runs, imports,
                   failed, crashed>>

Top == Sq!Last(compilers)

Becomes(c) ==
    compilers' = Append(Sq!Front(compilers), [c EXCEPT !.length = @ + 1])

Declaring == /\ compilers # <<>>
             /\ Top.using = Nowhere
             /\ Top.length < MaxText

MayDeclare == Top.module = Main /\ room[Main] # 0 => "later" \in Idioms

OnlyCompiles == UNCHANGED <<moduleVars, runs, imports, lines, failed, crashed>>

\* mutant: the count is not advanced
CompileDefinitionInPlace(x, public, isFunction) ==
    /\ Declaring
    /\ MayDeclare
    /\ Becomes([Top EXCEPT
                 !.ok = @ /\ x \notin DOMAIN Top.table,
                 !.table = With(@, x, Top.count),
                 !.code = Append(@, Define(x, Top.count, public))])
    /\ OnlyCompiles

(***************************************************************************)
(* var_declaration, struct_declaration and fn_declaration: an error when   *)
(* the name is known, and then a function does not count; the new index is *)
(* in the table in either case.                                            *)
(***************************************************************************)
CompileDefinition(x, public, isFunction) ==
    /\ Declaring
    /\ MayDeclare
    /\ Becomes([Top EXCEPT
                 !.ok = @ /\ x \notin DOMAIN Top.table,
                 !.count = IF isFunction /\ x \in DOMAIN Top.table THEN @ ELSE @ + 1,
                 !.table = With(@, x, Top.count),
                 !.code = Append(@, Define(x, Top.count, public))])
    /\ OnlyCompiles

\* named_variable: the index in the nearest compiler that knows the name
CompileRead(x) ==
    LET knowing == {i \in DOMAIN compilers : x \in DOMAIN compilers[i].table}
        nearest == Fs!Max(knowing)
    IN  /\ Declaring
        /\ \/ /\ knowing = {}
              /\ Becomes([Top EXCEPT !.ok = FALSE])
           \/ /\ knowing # {}
              /\ nearest < Len(compilers) => "outer" \in Idioms
              /\ Becomes([Top EXCEPT
                           !.code = Append(@, Get(x, compilers[nearest].table[x]))])
        /\ OnlyCompiles

\* any other error: the parser notes it and goes on
CompileError ==
    /\ Declaring
    /\ Becomes([Top EXCEPT !.ok = FALSE])
    /\ OnlyCompiles

\* mutant: a module that is being compiled is compiled again
CompileModuleLoading(m, x) ==
    /\ Declaring
    /\ state[m] \in {"none", "loading"}
    /\ state' = [state EXCEPT ![m] = "loading"]
    /\ compilers' = Sq!Front(compilers)
                    \o <<[Top EXCEPT !.using = [from |-> m, name |-> x]], Compiler(m)>>
    /\ CoreNamed(m)
    /\ UNCHANGED <<count, room, globals, publics, closure, runs, imports, lines,
                   failed, crashed>>

\* compile_module_statically of a file that is not in the module cache
CompileModule(m, x) ==
    /\ Declaring
    /\ state[m] = "none"
    /\ state' = [state EXCEPT ![m] = "loading"]
    /\ compilers' = Sq!Front(compilers)
                    \o <<[Top EXCEPT !.using = [from |-> m, name |-> x]], Compiler(m)>>
    /\ CoreNamed(m)
    /\ UNCHANGED <<count, room, globals, publics, closure, runs, imports, lines,
                   failed, crashed>>

(***************************************************************************)
(* The rest of use_statement.  A module in error adds nothing; one that is *)
(* loading (a circle) or lacks the name is an error, but the name is added.*)
(***************************************************************************)
CompileUse(m, x) ==
    /\ compilers # <<>>
    /\ \/ Declaring /\ state[m] # "none"
       \/ Top.using = [from |-> m, name |-> x]
    /\ MayDeclare
    /\ \/ /\ state[m] = "error"
          /\ Becomes([Top EXCEPT !.ok = FALSE, !.using = Nowhere])
       \/ /\ state[m] # "error"
          /\ Becomes([Top EXCEPT
               !.using = Nowhere,
               !.ok = @ /\ state[m] # "loading" /\ x \in DOMAIN names[m],
               !.count = @ + 1,
               !.table = With(@, x, Top.count),
               !.code = @ \o <<UseModule(m), FinishUse(m, x, Top.count)>>])
    /\ OnlyCompiles

\* the end of compile: names and count are kept, errors or not
KeepNames ==
    /\ names' = [names EXCEPT ![Top.module] = Top.table]
    /\ count' = [count EXCEPT ![Top.module] = Top.count]

\* mutant: a module with errors counts as loaded
EndModuleLoaded ==
    /\ Len(compilers) > 1
    /\ Top.using = Nowhere
    /\ compilers' = Sq!Front(compilers)
    /\ KeepNames
    /\ closure' = [closure EXCEPT ![Top.module] = Top.code]
    /\ state' = [state EXCEPT ![Top.module] = "loaded"]
    /\ UNCHANGED <<room, globals, publics, runs, imports, lines, failed, crashed>>

\* the end of compile_module_statically
EndModule ==
    /\ Len(compilers) > 1
    /\ Top.using = Nowhere
    /\ compilers' = Sq!Front(compilers)
    /\ KeepNames
    /\ closure' = [closure EXCEPT ![Top.module] = IF Top.ok THEN Top.code ELSE <<>>]
    /\ state' = [state EXCEPT ![Top.module] = IF Top.ok THEN "loaded" ELSE "error"]
    /\ UNCHANGED <<room, globals, publics, runs, imports, lines, failed, crashed>>

\* interpret goes on to run the line: globals are allocated when there are none
EndLine ==
    /\ Len(compilers) = 1
    /\ Top.using = Nowhere
    /\ compilers' = <<>>
    /\ KeepNames
    /\ \/ /\ Top.ok
          /\ room' = [room EXCEPT ![Main] = IF @ = 0 THEN Top.count ELSE @]
          /\ runs' = <<[module |-> Main, code |-> Top.code, pc |-> 1]>>
          /\ UNCHANGED <<state, failed>>
       \/ /\ ~Top.ok
          /\ failed' = TRUE
          /\ state' = [state EXCEPT ![Main] = "error"]
          /\ UNCHANGED <<room, runs>>
    /\ UNCHANGED <<globals, publics, closure, imports, lines, crashed>>

-----------------------------------------------------------------------------
(***************************************************************************)
(* Running                                                                 *)
(***************************************************************************)
Run == Sq!Last(runs)

Executes(op) == /\ runs # <<>>
                /\ Run.pc <= Len(Run.code)
                /\ Run.code[Run.pc].op = op

Instruction == Run.code[Run.pc]

Advanced == Append(Sq!Front(runs), [Run EXCEPT !.pc = @ + 1])

\* a write outside the array goes to memory that is not the array's
WriteGlobal(m, i, x) ==
    globals' = IF i < room[m] THEN [globals EXCEPT ![m] = With(@, i, x)]
                              ELSE globals

\* runtime_panic: back to interpret, or, in an imported module, whose
\* enclosing_module nothing sets, a dereference of NULL
Panic ==
    /\ runs' = <<>>
    /\ IF Run.module = Main
       THEN /\ failed' = TRUE
            /\ state' = [state EXCEPT ![Main] = "error"]
            /\ UNCHANGED <<imports, crashed>>
       ELSE /\ crashed' = TRUE
            /\ imports' = <<>>
            /\ UNCHANGED <<state, failed>>
    /\ UNCHANGED <<names, count, room, globals, publics, closure, compilers, lines>>

\* OP_DEFINE_GLOBAL, OP_DEFINE_PUB_GLOBAL
ExecuteDefine ==
    /\ Executes("define")
    /\ WriteGlobal(Run.module, Instruction.index, Instruction.name)
    /\ publics' = IF Instruction.public
                  THEN [publics EXCEPT ![Run.module] = @ \cup {Instruction.name}]
                  ELSE publics
    /\ runs' = Advanced
    /\ UNCHANGED <<state, names, count, room, closure, compilers, imports, lines,
                   failed, crashed>>

\* OP_GET_GLOBAL, with what the statement does to the value: it may panic
ExecuteGet ==
    /\ Executes("get")
    /\ \/ /\ runs' = Advanced
          /\ UNCHANGED <<moduleVars, compilers, imports, lines, failed, crashed>>
       \/ Panic

\* OP_USE_MODULE
ExecuteUse ==
    /\ Executes("use")
    /\ LET m == Instruction.from
       IN  \/ /\ \E i \in DOMAIN imports : imports[i] = m
              /\ Panic
           \/ /\ \A i \in DOMAIN imports : imports[i] # m
              /\ \/ /\ state[m] = "loaded"
                    /\ imports' = Append(imports, m)
                    /\ room' = [room EXCEPT ![m] = IF @ = 0 THEN count[m] ELSE @]
                    /\ runs' = Append(Advanced,
                                      [module |-> m, code |-> closure[m], pc |-> 1])
                 \/ /\ state[m] # "loaded"
                    /\ runs' = Advanced
                    /\ UNCHANGED <<room, imports>>
              /\ UNCHANGED <<state, names, count, globals, publics, closure,
                             compilers, lines, failed, crashed>>

\* OP_FINISH_USE
ExecuteFinishUse ==
    /\ Executes("finish")
    /\ \/ /\ \/ state[Instruction.from] = "error"
             \/ Instruction.name \notin publics[Instruction.from]
          /\ Panic
       \/ /\ state[Instruction.from] # "error"
          /\ Instruction.name \in publics[Instruction.from]
          /\ WriteGlobal(Run.module, Instruction.index, Instruction.name)
          /\ runs' = Advanced
          /\ UNCHANGED <<state, names, count, room, publics, closure, compilers,
                         imports, lines, failed, crashed>>

\* mutant: the module stays loaded
ReturnLoaded ==
    /\ runs # <<>>
    /\ Run.pc > Len(Run.code)
    /\ runs' = Sq!Front(runs)
    /\ imports' = IF Run.module = Main THEN imports ELSE Sq!Front(imports)
    /\ UNCHANGED <<moduleVars, compilers, lines, failed, crashed>>

\* run returns: to interpret, or to OP_USE_MODULE of the importer
Return ==
    /\ runs # <<>>
    /\ Run.pc > Len(Run.code)
    /\ runs' = Sq!Front(runs)
    /\ \/ /\ Run.module = Main
          /\ UNCHANGED <<state, imports>>
       \/ /\ Run.module # Main
          /\ state' = [state EXCEPT ![Run.module] = "executed"]
          /\ imports' = Sq!Front(imports)
    /\ UNCHANGED <<names, count, room, globals, publics, closure, compilers, lines,
                   failed, crashed>>

Next ==
    \/ Interpret
    \/ \E x \in Name, public, isFunction \in BOOLEAN :
          CompileDefinition(x, public, isFunction)
    \/ \E x \in GlobalName : CompileRead(x)
    \/ CompileError
    \/ \E m \in File, x \in Name : CompileModule(m, x) \/ CompileUse(m, x)
    \/ EndModule
    \/ EndLine
    \/ ExecuteDefine
    \/ ExecuteGet
    \/ ExecuteUse
    \/ ExecuteFinishUse
    \/ Return

Spec == Init /\ [][Next]_vars

-----------------------------------------------------------------------------
IsIndex(f) == /\ DOMAIN f \subseteq GlobalName
              /\ \A x \in DOMAIN f : f[x] \in Nat

(***************************************************************************)
(* The type invariant.                                                     *)
(***************************************************************************)
TypeOK ==
    /\ state \in [Module -> {"none", "loading", "loaded", "error", "executed"}]
    /\ DOMAIN names = Module /\ \A m \in Module : IsIndex(names[m])
    /\ count \in [Module -> Nat]
    /\ room \in [Module -> Nat]
    /\ \A m \in Module : /\ DOMAIN globals[m] \subseteq Nat
                         /\ \A i \in DOMAIN globals[m] : globals[m][i] \in GlobalName
    /\ publics \in [Module -> SUBSET Name]
    /\ \A i \in DOMAIN compilers : /\ compilers[i].module \in Module
                                   /\ IsIndex(compilers[i].table)
                                   /\ compilers[i].count \in Nat
                                   /\ compilers[i].ok \in BOOLEAN
    /\ \A i \in DOMAIN runs : runs[i].module \in Module /\ runs[i].pc \in Nat \ {0}
    /\ imports \in Seq(File)
    /\ failed \in BOOLEAN
    /\ crashed \in BOOLEAN

(***************************************************************************)
(* A file is loading exactly while a compiler works on it, and one does at *)
(* most: files that import each other end in an error, not in a recursion. *)
(***************************************************************************)
LoadingIsBeingCompiled ==
    /\ \A i, j \in DOMAIN compilers :
          compilers[i].module = compilers[j].module => i = j
    /\ \A m \in File : state[m] = "loading" <=>
                       \E i \in DOMAIN compilers : compilers[i].module = m

(***************************************************************************)
(* A file whose code may run imports only files whose code may run, and an *)
(* executed one only executed ones: no module is used before it has run,   *)
(* and none runs that has an error in anything it imports.                 *)
(***************************************************************************)
ImportsAreReady ==
    \A m \in File : state[m] \in {"loaded", "executed"} =>
       \A i \in DOMAIN closure[m] : closure[m][i].op = "use" =>
          LET used == state[closure[m][i].from]
          IN  /\ used \in {"loaded", "executed"}
              /\ state[m] = "executed" => used = "executed"

(***************************************************************************)
(* The import stack holds the files that are running, in order, and the    *)
(* check for circles at run time, behind the one at compile time, never    *)
(* finds one.                                                              *)
(***************************************************************************)
ImportStackIsTheRuns ==
    ~crashed =>
       /\ runs = <<>> => imports = <<>>
       /\ runs # <<>> => imports = [i \in 1 .. Len(runs) - 1 |-> runs[i+1].module]
       /\ Executes("use") => \A i \in DOMAIN imports : imports[i] # Instruction.from

(***************************************************************************)
(* A module's code runs once in a session, whoever imports it: its globals *)
(* are allocated when it starts, and have not been before.                 *)
(***************************************************************************)
ModulesRunOnce ==
    [][Len(runs') > Len(runs) /\ runs # <<>> => room[Sq!Last(runs').module] = 0]_vars

(***************************************************************************)
(* A read of a global finds the element that a definition of that name, in *)
(* the module the code belongs to, has written.                            *)
(***************************************************************************)
ReadsSeeDefinitions ==
    Executes("get") =>
       /\ Instruction.index \in DOMAIN globals[Run.module]
       /\ globals[Run.module][Instruction.index] = Instruction.name

(***************************************************************************)
(* Every global the code defines has its place in the array allocated for  *)
(* the module ("allocate module globals array", vm_helpers.c:1498).        *)
(***************************************************************************)
DefinitionsFitTheArray ==
    (Executes("define") \/ Executes("finish")) => Instruction.index < room[Run.module]

(***************************************************************************)
(* What the session keeps of modules in three places agrees: the states in *)
(* the module cache, the compilers at work and the import stack.  Circles  *)
(* end in an error when they are compiled, and no definition is outside    *)
(* the array that was allocated for the globals of its module.             *)
(***************************************************************************)
SessionIsSound ==
    TypeOK /\ LoadingIsBeingCompiled /\ ImportStackIsTheRuns /\ DefinitionsFitTheArray
=============================================================================
