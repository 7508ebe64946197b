---------------------------- MODULE SessionProofs ----------------------------
(***************************************************************************)
(* Sessions, whatever the lines and the files do: circles among the files  *)
(* end in an error, what a file imports is ready, and a file runs once.    *)
(*                                                                         *)
(* The invariant has a layer for each of the three places that keep track  *)
(* of modules: the compilers at work, the activations of run with the      *)
(* import stack, and the states in the module cache; each is proved        *)
(* inductive from those before it.                                         *)
(***************************************************************************)
EXTENDS Session, ProofBasics

-----------------------------------------------------------------------------
(***************************************************************************)
(* Type correctness, with the types of the instructions.                   *)
(***************************************************************************)
Tables == UNION {[D -> Nat] : D \in SUBSET GlobalName}
Cells == UNION {[D -> GlobalName] : D \in SUBSET Nat}

Defines == [op : {"define"}, name : Name, index : Nat, public : BOOLEAN]
CoreDefines == [op : {"define"}, name : {Core}, index : Nat, public : {FALSE}]
Gets == [op : {"get"}, name : GlobalName, index : Nat]
Uses == [op : {"use"}, from : File]
Finishes == [op : {"finish"}, from : File, name : Name, index : Nat]
Instructions == Defines \cup CoreDefines \cup Gets \cup Uses \cup Finishes

Code == Seq(Instructions)
Target == [from : Module, name : GlobalName]
CompilerState == [module : Module, table : Tables, count : Nat, code : Code,
                  ok : BOOLEAN, using : Target, length : Nat]
Activation == [module : Module, code : Code, pc : Nat \ {0}]

TypeInv ==
    /\ state \in [Module -> {"none", "loading", "loaded", "error", "executed"}]
    /\ names \in [Module -> Tables]
    /\ count \in [Module -> Nat]
    /\ room \in [Module -> Nat]
    /\ globals \in [Module -> Cells]
    /\ publics \in [Module -> SUBSET Name]
    /\ closure \in [Module -> Code]
    /\ compilers \in Seq(CompilerState)
    /\ runs \in Seq(Activation)
    /\ imports \in Seq(File)
    /\ failed \in BOOLEAN
    /\ crashed \in BOOLEAN

\* The types of the instructions included, so TypeOK.
LEMMA TypeInvMeansTypeOK == TypeInv => TypeOK
<1> SUFFICES ASSUME TypeInv PROVE TypeOK
  OBVIOUS
<1>t. \A f \in Tables : IsIndex(f)
  BY DEF Tables, IsIndex
<1>1. \A m \in Module : IsIndex(names[m])
  BY <1>t DEF TypeInv
<1>2. \A m \in Module : /\ DOMAIN globals[m] \subseteq Nat
                        /\ \A i \in DOMAIN globals[m] : globals[m][i] \in GlobalName
  <2>1. \A g \in Cells : /\ DOMAIN g \subseteq Nat
                         /\ \A i \in DOMAIN g : g[i] \in GlobalName
    BY DEF Cells
  <2> QED BY <2>1 DEF TypeInv
<1>3. \A i \in DOMAIN compilers : compilers[i] \in CompilerState
  BY LenProperties, ElementOfSeq DEF TypeInv
<1>4. \A i \in DOMAIN compilers : /\ compilers[i].module \in Module
                                  /\ IsIndex(compilers[i].table)
                                  /\ compilers[i].count \in Nat
                                  /\ compilers[i].ok \in BOOLEAN
  BY <1>t, <1>3 DEF CompilerState
<1>5. \A i \in DOMAIN runs : runs[i] \in Activation
  BY LenProperties, ElementOfSeq DEF TypeInv
<1>6. \A i \in DOMAIN runs : runs[i].module \in Module /\ runs[i].pc \in Nat \ {0}
  BY <1>5 DEF Activation
<1> QED BY <1>1, <1>2, <1>4, <1>6 DEF TypeInv, TypeOK

\* Adding a name to a table, or writing an element.
LEMMA WithTable ==
    ASSUME NEW f \in Tables, NEW x \in GlobalName, NEW v \in Nat
    PROVE  With(f, x, v) \in Tables
<1>1. PICK D \in SUBSET GlobalName : f \in [D -> Nat]
  BY DEF Tables
<1>2. With(f, x, v) \in [D \cup {x} -> Nat]
  BY <1>1 DEF With
<1> QED BY <1>2 DEF Tables

\* An element written by a definition.
LEMMA WithCells ==
    ASSUME NEW f \in Cells, NEW i \in Nat, NEW x \in GlobalName
    PROVE  With(f, i, x) \in Cells
<1>1. PICK D \in SUBSET Nat : f \in [D -> GlobalName]
  BY DEF Cells
<1>2. With(f, i, x) \in [D \cup {i} -> GlobalName]
  BY <1>1 DEF With
<1> QED BY <1>2 DEF Cells

\* Either changes one element.
LEMMA WithDomain ==
    ASSUME NEW f, NEW x, NEW v
    PROVE  /\ DOMAIN f \subseteq DOMAIN With(f, x, v)
           /\ x \in DOMAIN With(f, x, v)
           /\ \A y \in DOMAIN With(f, x, v) : y = x \/ y \in DOMAIN f
           /\ With(f, x, v)[x] = v
           /\ \A y \in DOMAIN f : y # x => With(f, x, v)[y] = f[y]
BY DEF With

\* The instructions that the compiler emits.
LEMMA InstructionTypes ==
    /\ \A x \in Name, i \in Nat, p \in BOOLEAN : Define(x, i, p) \in Instructions
    /\ \A i \in Nat : Define(Core, i, FALSE) \in Instructions
    /\ \A x \in GlobalName, i \in Nat : Get(x, i) \in Instructions
    /\ \A m \in File : UseModule(m) \in Instructions
    /\ \A m \in File, x \in Name, i \in Nat : FinishUse(m, x, i) \in Instructions
BY DEF Define, Get, UseModule, FinishUse, Instructions, Defines, CoreDefines, Gets,
       Uses, Finishes

\* The compiler and the activation at work.
LEMMA TopIs ==
    ASSUME TypeInv, compilers # <<>>
    PROVE  /\ Len(compilers) \in Nat \ {0} /\ Len(compilers) \in 1 .. Len(compilers)
           /\ Top = compilers[Len(compilers)] /\ Top \in CompilerState
           /\ Sq!Front(compilers) = SubSeq(compilers, 1, Len(compilers)-1)
BY StackTop DEF TypeInv, Top, Sq!Last, Sq!Front

\* The activation at work is the last.
LEMMA RunIs ==
    ASSUME TypeInv, runs # <<>>
    PROVE  /\ Len(runs) \in Nat \ {0} /\ Len(runs) \in 1 .. Len(runs)
           /\ Run = runs[Len(runs)] /\ Run \in Activation
           /\ Sq!Front(runs) = SubSeq(runs, 1, Len(runs)-1)
BY StackTop DEF TypeInv, Run, Sq!Last, Sq!Front

\* A new compiler knows the core function.
LEMMA CompilerType ==
    ASSUME TypeInv, NEW m \in Module
    PROVE  /\ Compiler(m) \in CompilerState
           /\ Core \in DOMAIN Compiler(m).table
<1>1. names[m] \in Tables /\ count[m] \in Nat
  BY DEF TypeInv
<1>2. /\ With(names[m], Core, count[m]) \in Tables
      /\ Core \in DOMAIN With(names[m], Core, count[m])
  <2>1. Core \in GlobalName
    BY DEF GlobalName
  <2> QED BY <1>1, <2>1, WithTable, WithDomain
<1>3. <<>> \in Code /\ <<Define(Core, count[m], FALSE)>> \in Code
  <2>1. Define(Core, count[m], FALSE) \in Instructions
    BY <1>1, InstructionTypes
  <2> QED BY <2>1, StackOne DEF Code
<1>4. Nowhere \in Target
  BY DEF Nowhere, Target, Module, GlobalName
<1> QED BY <1>1, <1>2, <1>3, <1>4 DEF Compiler, CompilerState

-----------------------------------------------------------------------------
(***************************************************************************)
(* What a declaration does to the compiler at work.                        *)
(***************************************************************************)
\* mutates nothing but the top of the compilers
Edits(d) ==
    /\ compilers # <<>>
    /\ compilers' = Append(Sq!Front(compilers), d)
    /\ OnlyCompiles
    /\ d.module = Top.module /\ d.using = Nowhere
    /\ DOMAIN Top.table \subseteq DOMAIN d.table

Adds(d, x) == /\ d.table = With(Top.table, x, Top.count)
              /\ d.count = Top.count + 1

EditsText(d) ==
    /\ Top.ok
    /\ \/ \E x \in Name, public \in BOOLEAN :
             /\ MayDeclare /\ x \notin DOMAIN Top.table
             /\ Adds(d, x)
             /\ d.code = Append(Top.code, Define(x, Top.count, public))
       \/ \E x \in GlobalName, i \in Nat :
             /\ "outer" \notin Idioms => x \in DOMAIN Top.table /\ i = Top.table[x]
             /\ d.table = Top.table /\ d.count = Top.count
             /\ d.code = Append(Top.code, Get(x, i))
       \/ \E m \in File, x \in Name :
             /\ MayDeclare /\ state[m] \notin {"error", "loading"}
             /\ state[m] = "none" => Top.using.from = m
             /\ Adds(d, x)
             /\ d.code = Top.code \o <<UseModule(m), FinishUse(m, x, Top.count)>>

Declares == \/ \E x \in Name, public, isFunction \in BOOLEAN :
                  CompileDefinition(x, public, isFunction)
            \/ \E x \in GlobalName : CompileRead(x)
            \/ CompileError
            \/ \E m \in File, x \in Name : CompileUse(m, x)

\* Becomes counts the declaration, and changes nothing else of its argument.
LEMMA BecomesStep ==
    ASSUME TypeInv, compilers # <<>>, NEW c \in CompilerState,
           Becomes(c), OnlyCompiles, c.module = Top.module, c.using = Nowhere,
           DOMAIN Top.table \subseteq DOMAIN c.table,
           c.ok => EditsText(c)
    PROVE  \E d \in CompilerState : Edits(d) /\ (d.ok => EditsText(d))
<1> DEFINE d == [c EXCEPT !.length = @ + 1]
<1>1. d \in CompilerState
  BY DEF CompilerState
<1>2. /\ d.module = c.module /\ d.using = c.using /\ d.table = c.table
      /\ d.code = c.code /\ d.count = c.count /\ d.ok = c.ok
  BY DEF CompilerState
<1>3. compilers' = Append(Sq!Front(compilers), d)
  BY DEF Becomes
<1> HIDE DEF d
<1>4. Edits(d)
  BY <1>2, <1>3 DEF Edits
<1>5. d.ok => EditsText(d)
  BY <1>2 DEF EditsText, Adds
<1> QED BY <1>1, <1>4, <1>5

\* A declaration replaces the compiler at work by one that has taken it.
LEMMA DeclareStep ==
    ASSUME TypeInv, Declares
    PROVE  \E d \in CompilerState : Edits(d) /\ (d.ok => EditsText(d))
<1> DEFINE Goal == \E d \in CompilerState : Edits(d) /\ (d.ok => EditsText(d))
<1>n. compilers # <<>>
  BY DEF Declares, CompileDefinition, CompileRead, CompileError, CompileUse, Declaring
<1>t. Top \in CompilerState /\ Len(compilers) \in Nat \ {0}
  BY <1>n, TopIs
<1>f. /\ Top.module \in Module /\ Top.table \in Tables /\ Top.count \in Nat
      /\ Top.code \in Code /\ Top.ok \in BOOLEAN
  BY <1>t DEF CompilerState
<1>w. Nowhere \in Target
  BY DEF Nowhere, Target, Module, GlobalName
<1>bad. ASSUME NEW c, c = [Top EXCEPT !.ok = FALSE] \/ c = [Top EXCEPT !.ok = FALSE,
                 !.using = Nowhere],
               c.using = Nowhere, Becomes(c), OnlyCompiles
        PROVE  Goal
  <2>1. c \in CompilerState
    BY <1>t, <1>w, <1>bad DEF CompilerState
  <2>2. c.module = Top.module /\ c.table = Top.table /\ c.ok = FALSE
    BY <1>t, <1>bad DEF CompilerState
  <2> QED BY <1>n, <1>bad, <2>1, <2>2, BecomesStep
<1>1. ASSUME NEW x \in Name, NEW public \in BOOLEAN, NEW isFunction \in BOOLEAN,
             CompileDefinition(x, public, isFunction)
      PROVE  Goal
  <2> DEFINE known == x \in DOMAIN Top.table
             n == IF isFunction /\ known THEN Top.count ELSE Top.count + 1
             table == With(Top.table, x, Top.count)
             code == Append(Top.code, Define(x, Top.count, public))
             c == [Top EXCEPT !.ok = @
               /\ ~known, !.count = n, !.table = table, !.code = code]
  <2>1. Becomes(c) /\ OnlyCompiles /\ MayDeclare /\ Top.using = Nowhere
    BY <1>1 DEF CompileDefinition, Declaring
  <2>2. /\ code \in Code /\ table \in Tables /\ n \in Nat
        /\ DOMAIN Top.table \subseteq DOMAIN table
        /\ (Top.ok /\ ~known) \in BOOLEAN
    <3>1. code \in Code
      <4>1. Define(x, Top.count, public) \in Instructions
        BY <1>f, InstructionTypes
      <4> QED BY <1>f, <4>1, AppendProperties DEF Code
    <3>2. table \in Tables /\ DOMAIN Top.table \subseteq DOMAIN table
      <4>1. x \in GlobalName
        BY DEF GlobalName
      <4> QED BY <1>f, <4>1, WithTable, WithDomain
    <3> QED BY <1>f, <3>1, <3>2
  <2>3. /\ ~known => n = Top.count + 1
        /\ code = Append(Top.code, Define(x, Top.count, public))
        /\ table = With(Top.table, x, Top.count)
        /\ known <=> x \in DOMAIN Top.table
    OBVIOUS
  <2> HIDE DEF known, n, table, code
  <2>4. c \in CompilerState
    BY <1>t, <2>2 DEF CompilerState
  <2>5. /\ c.module = Top.module /\ c.using = Top.using /\ c.table = table
        /\ c.code = code /\ c.count = n /\ c.ok = (Top.ok /\ ~known)
    BY <1>t, <2>2 DEF CompilerState
  <2> HIDE DEF c
  <2>6. c.ok => EditsText(c)
    BY <2>1, <2>3, <2>5 DEF EditsText, Adds
  <2> QED BY <1>n, <2>1, <2>2, <2>4, <2>5, <2>6, BecomesStep
<1>2. ASSUME NEW x \in GlobalName, CompileRead(x) PROVE Goal
  <2> DEFINE knowing == {i \in DOMAIN compilers : x \in DOMAIN compilers[i].table}
             nearest == Fs!Max(knowing)
             i == compilers[nearest].table[x]
             code == Append(Top.code, Get(x, i))
             c == [Top EXCEPT !.code = code]
  <2>d. OnlyCompiles /\ Top.using = Nowhere
    BY <1>2 DEF CompileRead, Declaring
  <2>1. CASE Becomes([Top EXCEPT !.ok = FALSE])
    <3>1. [Top EXCEPT !.ok = FALSE].using = Nowhere
      BY <1>t, <2>d DEF CompilerState
    <3> QED BY <1>bad, <2>d, <2>1, <3>1
  <2>2. CASE /\ knowing # {}
             /\ nearest < Len(compilers) => "outer" \in Idioms
             /\ Becomes(c)
    <3>1. /\ Len(compilers) \in Nat /\ DOMAIN compilers = 1 .. Len(compilers)
          /\ \A j \in DOMAIN compilers : compilers[j] \in CompilerState
      BY LenProperties, ElementOfSeq DEF TypeInv
    <3>2. \E a \in knowing : \A b \in knowing : a >= b
      <4>1. knowing \in SUBSET (0 .. Len(compilers))
        BY <3>1
      <4> HIDE DEF knowing
      <4> QED BY <2>2, <3>1, <4>1, GreatestNat
    <3>3. nearest \in knowing
      BY <3>2 DEF Fs!Max
    <3>4. nearest \in 1 .. Len(compilers) /\ x \in DOMAIN compilers[nearest].table
      BY <3>1, <3>3
    <3>5. i \in Nat
      <4>1. compilers[nearest].table \in Tables
        BY <3>1, <3>4 DEF CompilerState
      <4> QED BY <3>4, <4>1 DEF Tables
    <3>6. "outer" \notin Idioms => x \in DOMAIN Top.table /\ i = Top.table[x]
      <4>1. "outer" \notin Idioms => nearest = Len(compilers)
        BY <2>2, <3>1, <3>4
      <4> QED BY <1>n, <3>4, <4>1, TopIs
    <3>b. Becomes(c)
      BY <2>2
    <3>7. code \in Code
      BY <1>f, <3>5, InstructionTypes, AppendProperties DEF Code
    <3>8. code = Append(Top.code, Get(x, i))
      OBVIOUS
    <3> HIDE DEF i, code
    <3>9. c \in CompilerState
      BY <1>t, <3>7 DEF CompilerState
    <3>10. /\ c.module = Top.module /\ c.using = Top.using /\ c.table = Top.table
           /\ c.code = code /\ c.count = Top.count /\ c.ok = Top.ok
      BY <1>t, <3>7 DEF CompilerState
    <3> HIDE DEF c
    <3>11. c.ok => EditsText(c)
      BY <3>5, <3>6, <3>8, <3>10 DEF EditsText
    <3> QED BY <1>n, <2>d, <3>b, <3>9, <3>10, <3>11, BecomesStep
  <2> QED BY <1>2, <2>1, <2>2 DEF CompileRead
<1>3. ASSUME CompileError PROVE Goal
  <2>1. [Top EXCEPT !.ok = FALSE].using = Nowhere
    BY <1>3, <1>t DEF CompilerState, CompileError, Declaring
  <2> QED BY <1>3, <1>bad, <2>1 DEF CompileError
<1>4. ASSUME NEW m \in File, NEW x \in Name, CompileUse(m, x) PROVE Goal
  <2> DEFINE found == state[m] # "loading" /\ x \in DOMAIN names[m]
             table == With(Top.table, x, Top.count)
             code == Top.code \o <<UseModule(m), FinishUse(m, x, Top.count)>>
             n == Top.count + 1
             c == [Top EXCEPT !.using = Nowhere, !.ok = @ /\ found, !.count = n,
                              !.table = table, !.code = code]
             b == [Top EXCEPT !.ok = FALSE, !.using = Nowhere]
  <2>1. OnlyCompiles /\ MayDeclare /\ (state[m] = "none" => Top.using.from = m)
    BY <1>4 DEF CompileUse
  <2>2. CASE Becomes(b)
    <3>1. b.using = Nowhere
      BY <1>t, <1>w DEF CompilerState
    <3> QED BY <1>bad, <2>1, <2>2, <3>1
  <2>3. CASE state[m] # "error" /\ Becomes(c)
    <3>b. Becomes(c)
      BY <2>3
    <3>1. code \in Code
      <4>1. UseModule(m) \in Instructions /\ FinishUse(m, x, Top.count) \in Instructions
        BY <1>f, InstructionTypes
      <4> QED BY <1>f, <4>1, StackPushTwo DEF Code
    <3>2. table \in Tables /\ DOMAIN Top.table \subseteq DOMAIN table
      <4>1. x \in GlobalName
        BY DEF GlobalName
      <4> QED BY <1>f, <4>1, WithTable, WithDomain
    <3>3. /\ code = Top.code \o <<UseModule(m), FinishUse(m, x, Top.count)>>
          /\ table = With(Top.table, x, Top.count)
          /\ found => state[m] # "loading" /\ x \in DOMAIN names[m]
          /\ (Top.ok /\ found) \in BOOLEAN
          /\ n = Top.count + 1 /\ n \in Nat
      BY <1>f
    <3> HIDE DEF found, table, code, n
    <3>4. c \in CompilerState
      BY <1>t, <1>f, <1>w, <3>1, <3>2, <3>3 DEF CompilerState
    <3>5. /\ c.module = Top.module /\ c.using = Nowhere /\ c.table = table
          /\ c.code = code /\ c.count = Top.count + 1 /\ c.ok = (Top.ok /\ found)
      BY <1>t, <1>w, <3>1, <3>2, <3>3 DEF CompilerState
    <3> HIDE DEF c
    <3>6. c.ok => EditsText(c)
      BY <2>1, <2>3, <3>3, <3>5 DEF EditsText, Adds
    <3> QED BY <1>n, <2>1, <3>b, <3>2, <3>4, <3>5, <3>6, BecomesStep
  <2>4. Becomes(b) \/ (state[m] # "error" /\ Becomes(c))
    BY <1>4 DEF CompileUse
  <2> QED BY <2>2, <2>3, <2>4
<1> QED BY <1>1, <1>2, <1>3, <1>4 DEF Declares

\* ... and leaves the enclosing compilers alone.
LEMMA EditsShape ==
    ASSUME TypeInv, NEW d \in CompilerState, Edits(d)
    PROVE  /\ compilers' \in Seq(CompilerState) /\ compilers' # <<>>
           /\ Len(compilers') = Len(compilers)
           /\ compilers'[Len(compilers)] = d
           /\ \A i \in 1 .. Len(compilers)-1 : compilers'[i] = compilers[i]
<1>1. compilers # <<>> /\ compilers \in Seq(CompilerState)
  BY DEF Edits, TypeInv
<1>2. compilers' = Append(SubSeq(compilers, 1, Len(compilers)-1), d)
  BY <1>1, TopIs DEF Edits
<1> QED BY <1>1, <1>2, StackReplace

\* A use of a new file opens a compiler for it, inside the one at work.
LEMMA ModuleShape ==
    ASSUME TypeInv, NEW m \in File, NEW x \in Name, CompileModule(m, x)
    PROVE  /\ compilers # <<>> /\ Top.using = Nowhere
           /\ compilers' \in Seq(CompilerState) /\ compilers' # <<>>
           /\ Len(compilers') = Len(compilers) + 1
           /\ compilers'[Len(compilers) + 1] = Compiler(m)
           /\ compilers'[Len(compilers)] = [Top EXCEPT !.using = [from |-> m, name |-> x]]
           /\ LET e == compilers'[Len(compilers)]
              IN  /\ e.module = Top.module /\ e.table = Top.table /\ e.count = Top.count
                  /\ e.code = Top.code /\ e.ok = Top.ok /\ e.using.from = m
           /\ \A i \in 1 .. Len(compilers)-1 : compilers'[i] = compilers[i]
<1> DEFINE u == [from |-> m, name |-> x]
           e == [Top EXCEPT !.using = u]
           r == SubSeq(compilers, 1, Len(compilers)-1)
           k == Compiler(m)
<1>1. compilers # <<>> /\ Top.using = Nowhere /\ m \in Module
  BY DEF CompileModule, Declaring, Module
<1>2. /\ Len(compilers) \in Nat \ {0} /\ Top \in CompilerState
      /\ compilers \in Seq(CompilerState) /\ Sq!Front(compilers) = r
  BY <1>1, TopIs DEF TypeInv
<1>3. compilers' = r \o <<e, k>>
  BY <1>2 DEF CompileModule
<1>4. u \in Target /\ u.from = m
  BY <1>1 DEF Target, GlobalName
<1> HIDE DEF u
<1>5. /\ e \in CompilerState /\ e.module = Top.module /\ e.table = Top.table
      /\ e.count = Top.count /\ e.code = Top.code /\ e.ok = Top.ok /\ e.using.from = m
  BY <1>2, <1>4 DEF CompilerState
<1>6. k \in CompilerState
  BY <1>1, CompilerType
<1>7. r \in Seq(CompilerState) /\ Len(r) = Len(compilers) - 1
      /\ \A i \in 1 .. Len(compilers)-1 : r[i] = compilers[i]
  BY <1>1, <1>2, StackPop
<1>e. e = [Top EXCEPT !.using = [from |-> m, name |-> x]] /\ k = Compiler(m)
  BY DEF u
<1> HIDE DEF e, k, r
<1>8. /\ compilers' \in Seq(CompilerState) /\ compilers' # <<>>
      /\ Len(compilers') = Len(r) + 2
      /\ compilers'[Len(r) + 1] = e /\ compilers'[Len(r) + 2] = k
      /\ \A i \in 1 .. Len(r) : compilers'[i] = r[i]
  BY <1>3, <1>5, <1>6, <1>7, StackPushTwo
<1>9. /\ Len(compilers') = Len(compilers) + 1
      /\ compilers'[Len(compilers)] = e /\ compilers'[Len(compilers) + 1] = k
  BY <1>2, <1>7, <1>8
<1>10. \A i \in 1 .. Len(compilers)-1 : compilers'[i] = compilers[i]
  BY <1>2, <1>7, <1>8
<1> QED BY <1>1, <1>5, <1>8, <1>9, <1>10, <1>e

\* The end of a file goes back to the enclosing compiler.
LEMMA EndModuleShape ==
    ASSUME TypeInv, EndModule
    PROVE  /\ compilers # <<>> /\ Len(compilers) > 1
           /\ compilers' \in Seq(CompilerState) /\ compilers' # <<>>
           /\ Len(compilers') = Len(compilers) - 1
           /\ \A i \in 1 .. Len(compilers)-1 : compilers'[i] = compilers[i]
<1>1. compilers # <<>> /\ Len(compilers) > 1 /\ compilers \in Seq(CompilerState)
  <2>1. Len(compilers) > 1 /\ compilers \in Seq(CompilerState)
    BY DEF EndModule, TypeInv
  <2> QED BY <2>1, EmptySeq
<1>2. compilers' = SubSeq(compilers, 1, Len(compilers)-1) /\ Len(compilers) \in Nat
  BY <1>1, TopIs DEF EndModule
<1>3. /\ compilers' \in Seq(CompilerState) /\ Len(compilers') = Len(compilers) - 1
      /\ \A i \in 1 .. Len(compilers)-1 : compilers'[i] = compilers[i]
  BY <1>1, <1>2, StackPop
<1>4. Len(compilers') # 0
  BY <1>1, <1>2, <1>3
<1>5. compilers' # <<>>
  BY <1>4
<1> QED BY <1>1, <1>3, <1>5

-----------------------------------------------------------------------------
(***************************************************************************)
(* What an instruction does to the activation at work.                     *)
(***************************************************************************)
\* The instruction at work, by its operation.
LEMMA ExecutesIs ==
    ASSUME TypeInv, NEW op, Executes(op)
    PROVE  /\ runs # <<>> /\ Run.pc \in 1 .. Len(Run.code)
           /\ Instruction = Run.code[Run.pc] /\ Instruction \in Instructions
           /\ Instruction.op = op
           /\ op \in {"use", "finish"} => Instruction.from \in File
           /\ op \in {"define", "finish"} =>
                 Instruction.index \in Nat /\ Instruction.name \in GlobalName
           /\ op = "define" => Instruction.public \in BOOLEAN
           /\ op = "define" /\ Instruction.public => Instruction.name \in Name
           /\ op = "use" => Instruction = UseModule(Instruction.from)
<1>1. /\ runs # <<>> /\ Instruction = Run.code[Run.pc] /\ Instruction.op = op
      /\ Run.pc <= Len(Run.code)
  BY DEF Executes, Instruction
<1>2. Run.code \in Code /\ Run.pc \in Nat \ {0}
  BY <1>1, RunIs DEF Activation
<1>3. Run.pc \in 1 .. Len(Run.code)
  BY <1>1, <1>2, LenProperties DEF Code
<1>4. Instruction \in Instructions
  BY <1>1, <1>2, <1>3, ElementOfSeq DEF Code
<1>5. /\ op \in {"use", "finish"} => Instruction.from \in File
      /\ op \in {"define", "finish"} =>
            Instruction.index \in Nat /\ Instruction.name \in GlobalName
  BY <1>1, <1>4 DEF Instructions, Defines, CoreDefines, Gets, Uses, Finishes, GlobalName
<1>6. /\ op = "define" => Instruction.public \in BOOLEAN
      /\ op = "define" /\ Instruction.public => Instruction.name \in Name
  BY <1>1, <1>4 DEF Instructions, Defines, CoreDefines, Gets, Uses, Finishes
<1>7. op = "use" => Instruction = UseModule(Instruction.from)
  BY <1>1, <1>4 DEF Instructions, Defines, CoreDefines, Gets, Uses, Finishes, UseModule
<1> QED BY <1>1, <1>3, <1>4, <1>5, <1>6, <1>7

\* The activation at work goes on to the next instruction.
LEMMA AdvancedShape ==
    ASSUME TypeInv, runs # <<>>
    PROVE  /\ Advanced \in Seq(Activation) /\ Advanced # <<>>
           /\ Len(Advanced) = Len(runs)
           /\ Advanced[Len(runs)].module = Run.module
           /\ Advanced[Len(runs)].code = Run.code
           /\ Advanced[Len(runs)].pc = Run.pc + 1
           /\ \A i \in 1 .. Len(runs)-1 : Advanced[i] = runs[i]
<1> DEFINE r == [Run EXCEPT !.pc = @ + 1]
<1>1. Run \in Activation
  BY RunIs
<1>2. r \in Activation /\ r.module = Run.module /\ r.code = Run.code /\ r.pc = Run.pc + 1
  BY <1>1 DEF Activation
<1>3. Advanced = Append(SubSeq(runs, 1, Len(runs)-1), r)
  BY RunIs DEF Advanced
<1> HIDE DEF r
<1>s. runs \in Seq(Activation)
  BY DEF TypeInv
<1>4. /\ Advanced \in Seq(Activation) /\ Advanced # <<>>
      /\ Len(Advanced) = Len(runs) /\ Advanced[Len(runs)] = r
      /\ \A i \in 1 .. Len(runs)-1 : Advanced[i] = runs[i]
  BY <1>2, <1>3, <1>s, StackReplace
<1> QED BY <1>2, <1>4

\* The code of a module starts, above it.
LEMMA EnterShape ==
    ASSUME TypeInv, runs # <<>>, NEW m \in Module
    PROVE  LET new == [module |-> m, code |-> closure[m], pc |-> 1]
               t == Append(Advanced, new)
           IN  /\ t \in Seq(Activation) /\ t # <<>>
               /\ Len(t) = Len(runs) + 1
               /\ t[Len(runs) + 1] = new
               /\ \A i \in 1 .. Len(runs) : t[i] = Advanced[i]
<1> DEFINE new == [module |-> m, code |-> closure[m], pc |-> 1]
<1>1. new \in Activation
  BY DEF TypeInv, Activation
<1> HIDE DEF new
<1>2. Advanced \in Seq(Activation) /\ Len(Advanced) = Len(runs)
  BY AdvancedShape
<1>3. LET t == Append(Advanced, new)
      IN  /\ t \in Seq(Activation) /\ t # <<>> /\ Len(t) = Len(runs) + 1
          /\ t[Len(runs) + 1] = new
          /\ \A i \in 1 .. Len(runs) : t[i] = Advanced[i]
  BY <1>1, <1>2, StackPush
<1> QED BY <1>3 DEF new

\* The activation at work ends.
LEMMA ReturnShape ==
    ASSUME TypeInv, Return
    PROVE  /\ runs # <<>> /\ runs' \in Seq(Activation)
           /\ Len(runs') = Len(runs) - 1
           /\ \A i \in 1 .. Len(runs)-1 : runs'[i] = runs[i]
<1>1. runs # <<>> /\ runs \in Seq(Activation)
  BY DEF Return, TypeInv
<1>2. runs' = SubSeq(runs, 1, Len(runs)-1)
  BY <1>1, RunIs DEF Return
<1>3. /\ runs' \in Seq(Activation) /\ Len(runs') = Len(runs) - 1
      /\ \A i \in 1 .. Len(runs)-1 : runs'[i] = runs[i]
  BY <1>1, <1>2, StackPop
<1> QED BY <1>1, <1>3

\* A definition writes its element, if it has one, and no other module's.
LEMMA WriteGlobalType ==
    ASSUME TypeInv, NEW m \in Module, NEW i \in Nat, NEW x \in GlobalName,
           WriteGlobal(m, i, x)
    PROVE  /\ globals' \in [Module -> Cells]
           /\ i < room[m] => globals'[m] = With(globals[m], i, x)
           /\ \A n \in Module : n # m => globals'[n] = globals[n]
<1>1. globals \in [Module -> Cells] /\ globals[m] \in Cells
  BY DEF TypeInv
<1>2. With(globals[m], i, x) \in Cells
  BY <1>1, WithCells
<1> QED BY <1>1, <1>2 DEF WriteGlobal

\* The initial state is well typed, and
LEMMA TypeInvInitial == Init => TypeInv
<1> SUFFICES ASSUME Init PROVE TypeInv
  OBVIOUS
<1>1. Empty \in Tables /\ Empty \in Cells
  <2>1. Empty \in [{} -> Nat] /\ Empty \in [{} -> GlobalName]
    BY DEF Empty
  <2> QED BY <2>1 DEF Tables, Cells
<1>2. <<>> \in Code /\ compilers \in Seq(CompilerState) /\ runs \in Seq(Activation)
      /\ imports \in Seq(File)
  BY DEF Init, Code
<1>3. names \in [Module -> Tables] /\ globals \in [Module -> Cells]
      /\ closure \in [Module -> Code]
  BY <1>1, <1>2 DEF Init
<1> QED BY <1>2, <1>3 DEF Init, TypeInv

\* ... every step keeps it so.
LEMMA TypeInvInductive == TypeInv /\ [Next]_vars => TypeInv'
<1> SUFFICES ASSUME TypeInv, [Next]_vars PROVE TypeInv'
  OBVIOUS
<1>m. Main \in Module /\ \A m \in File : m \in Module
  BY DEF Module
<1>1. CASE Interpret
  <2>1. Compiler(Main) \in CompilerState
    BY <1>m, CompilerType
  <2>2. <<Compiler(Main)>> \in Seq(CompilerState)
    BY <2>1, StackOne
  <2>3. Compiler(Main).table \in Tables
    BY <2>1 DEF CompilerState
  <2>4. names' \in [Module -> Tables]
    BY <1>1, <2>3 DEF Interpret, CoreNamed, TypeInv
  <2> QED BY <1>1, <2>2, <2>4 DEF Interpret, TypeInv
<1>2. CASE Declares
  <2>1. PICK d \in CompilerState : Edits(d)
    BY <1>2, DeclareStep
  <2>2. compilers' \in Seq(CompilerState)
    BY <2>1, EditsShape
  <2> QED BY <2>1, <2>2 DEF Edits, OnlyCompiles, moduleVars, TypeInv
<1>3. ASSUME NEW m \in File, NEW x \in Name, CompileModule(m, x) PROVE TypeInv'
  <2>1. compilers' \in Seq(CompilerState)
    BY <1>3, ModuleShape
  <2>2. Compiler(m).table \in Tables
    BY <1>m, CompilerType DEF CompilerState
  <2>3. names' \in [Module -> Tables]
    BY <1>3, <2>2 DEF CompileModule, CoreNamed, TypeInv
  <2>4. state' \in [Module -> {"none", "loading", "loaded", "error", "executed"}]
    BY <1>3 DEF CompileModule, TypeInv
  <2> QED BY <1>3, <2>1, <2>3, <2>4 DEF CompileModule, TypeInv
<1>4. CASE EndModule
  <2>1. compilers # <<>> /\ compilers' \in Seq(CompilerState)
    BY <1>4, EndModuleShape
  <2>2. Top.table \in Tables /\ Top.count \in Nat /\ Top.code \in Code
    BY <2>1, TopIs DEF CompilerState
  <2>3. names' \in [Module -> Tables] /\ count' \in [Module -> Nat]
    BY <1>4, <2>2 DEF EndModule, KeepNames, TypeInv
  <2>4. closure' \in [Module -> Code]
    <3>1. <<>> \in Code
      BY DEF Code
    <3> QED BY <1>4, <2>2, <3>1 DEF EndModule, TypeInv
  <2>5. state' \in [Module -> {"none", "loading", "loaded", "error", "executed"}]
    BY <1>4 DEF EndModule, TypeInv
  <2> QED BY <1>4, <2>1, <2>3, <2>4, <2>5 DEF EndModule, TypeInv
<1>5. CASE EndLine
  <2>1. compilers # <<>>
    <3>1. Len(compilers) = 1
      BY <1>5 DEF EndLine
    <3> QED BY <3>1, EmptySeq
  <2>2. Top.table \in Tables /\ Top.count \in Nat /\ Top.code \in Code /\ Top.ok \in BOOLEAN
    BY <2>1, TopIs DEF CompilerState
  <2>3. names' \in [Module -> Tables] /\ count' \in [Module -> Nat]
    BY <1>5, <2>2 DEF EndLine, KeepNames, TypeInv
  <2>4. compilers' \in Seq(CompilerState)
    BY <1>5 DEF EndLine
  <2>5. CASE Top.ok
    <3>1. [module |-> Main, code |-> Top.code, pc |-> 1] \in Activation
      BY <1>m, <2>2 DEF Activation
    <3>2. runs' \in Seq(Activation)
      BY <1>5, <2>5, <3>1, StackOne DEF EndLine
    <3>3. room' \in [Module -> Nat]
      BY <1>5, <2>2, <2>5 DEF EndLine, TypeInv
    <3> QED BY <1>5, <2>3, <2>4, <2>5, <3>2, <3>3 DEF EndLine, TypeInv
  <2>6. CASE ~Top.ok
    <3>1. state' \in [Module -> {"none", "loading", "loaded", "error", "executed"}]
      BY <1>5, <2>6 DEF EndLine, TypeInv
    <3> QED BY <1>5, <2>3, <2>4, <2>6, <3>1 DEF EndLine, TypeInv
  <2> QED BY <2>5, <2>6
<1>p. CASE Panic
  <2>1. runs' \in Seq(Activation) /\ <<>> \in Seq(File)
    BY <1>p DEF Panic
  <2>2. state' \in [Module -> {"none", "loading", "loaded", "error", "executed"}]
    BY <1>p DEF Panic, TypeInv
  <2> QED BY <1>p, <2>1, <2>2 DEF Panic, TypeInv
<1>6. CASE ExecuteDefine
  <2>1. /\ runs # <<>> /\ Instruction.index \in Nat /\ Instruction.name \in GlobalName
        /\ Instruction.public => Instruction.name \in Name
        /\ Instruction.public \in BOOLEAN
    BY <1>6, ExecutesIs DEF ExecuteDefine
  <2>2. runs' \in Seq(Activation) /\ Run.module \in Module
    BY <1>6, <2>1, AdvancedShape, RunIs DEF ExecuteDefine, Activation
  <2>3. globals' \in [Module -> Cells]
    BY <1>6, <2>1, <2>2, WriteGlobalType DEF ExecuteDefine
  <2>4. publics' \in [Module -> SUBSET Name]
    BY <1>6, <2>1, <2>2 DEF ExecuteDefine, TypeInv
  <2> QED BY <1>6, <2>2, <2>3, <2>4 DEF ExecuteDefine, TypeInv
<1>7. CASE ExecuteGet
  <2>1. runs # <<>>
    BY <1>7 DEF ExecuteGet, Executes
  <2>2. CASE runs' = Advanced /\ UNCHANGED <<moduleVars, compilers, imports, lines,
               failed, crashed>>
    BY <2>1, <2>2, AdvancedShape DEF moduleVars, TypeInv
  <2> QED BY <1>7, <1>p, <2>2 DEF ExecuteGet
<1>8. CASE ExecuteUse
  <2> DEFINE m == Instruction.from
  <2>1. runs # <<>> /\ m \in File
    BY <1>8, ExecutesIs DEF ExecuteUse
  <2>2. CASE /\ imports' = Append(imports, m)
             /\ room' = [room EXCEPT ![m] = IF @ = 0 THEN count[m] ELSE @]
             /\ runs' = Append(Advanced, [module |-> m, code |-> closure[m], pc |-> 1])
             /\ UNCHANGED <<state, names, count, globals, publics, closure,
                            compilers, lines, failed, crashed>>
    <3>1. runs' \in Seq(Activation)
      BY <1>m, <2>1, <2>2, EnterShape
    <3>2. room' \in [Module -> Nat]
      BY <1>m, <2>1, <2>2 DEF TypeInv
    <3>3. imports' \in Seq(File)
      BY <2>1, <2>2, AppendProperties DEF TypeInv
    <3> QED BY <2>2, <3>1, <3>2, <3>3 DEF TypeInv
  <2>3. CASE /\ runs' = Advanced /\ UNCHANGED <<room, imports>>
             /\ UNCHANGED <<state, names, count, globals, publics, closure,
                            compilers, lines, failed, crashed>>
    BY <2>1, <2>3, AdvancedShape DEF TypeInv
  <2> QED BY <1>8, <1>p, <2>2, <2>3 DEF ExecuteUse
<1>9. CASE ExecuteFinishUse
  <2>1. /\ runs # <<>> /\ Instruction.index \in Nat /\ Instruction.name \in GlobalName
    BY <1>9, ExecutesIs DEF ExecuteFinishUse
  <2>2. Run.module \in Module
    BY <2>1, RunIs DEF Activation
  <2>3. CASE Panic
    BY <1>p, <2>3
  <2>4. CASE /\ WriteGlobal(Run.module, Instruction.index, Instruction.name)
             /\ runs' = Advanced
             /\ UNCHANGED <<state, names, count, room, publics, closure, compilers,
                            imports, lines, failed, crashed>>
    <3>1. globals' \in [Module -> Cells]
      BY <2>1, <2>2, <2>4, WriteGlobalType
    <3> QED BY <2>1, <2>4, <3>1, AdvancedShape DEF TypeInv
  <2> QED BY <1>9, <2>3, <2>4 DEF ExecuteFinishUse
<1>10. CASE Return
  <2>1. runs # <<>> /\ runs' \in Seq(Activation)
    BY <1>10, ReturnShape
  <2>2. state' \in [Module -> {"none", "loading", "loaded", "error", "executed"}]
    BY <1>10 DEF Return, TypeInv
  <2>3. imports' \in Seq(File)
    <3>1. CASE Run.module = Main
      BY <1>10, <3>1 DEF Return, TypeInv
    <3>2. CASE Run.module # Main
      <4>1. imports' = SubSeq(imports, 1, Len(imports)-1)
        BY <1>10, <3>2 DEF Return, Sq!Front
      <4>2. imports \in Seq(File) /\ Len(imports) \in Nat
        BY LenProperties DEF TypeInv
      <4> DEFINE n == Len(imports)-1
      <4>3. 1 \in Int /\ n \in Int /\ \A i \in 1 .. n : i \in 1 .. Len(imports)
        BY <4>2
      <4>4. \A i \in 1 .. n : imports[i] \in File
        BY <4>2, <4>3, ElementOfSeq
      <4>5. imports' = SubSeq(imports, 1, n)
        BY <4>1
      <4> HIDE DEF n
      <4> QED BY <4>3, <4>4, <4>5, SubSeqProperties
    <3> QED BY <3>1, <3>2
  <2> QED BY <1>10, <2>1, <2>2, <2>3 DEF Return, TypeInv
<1>11. CASE UNCHANGED vars
  BY <1>11 DEF vars, moduleVars, TypeInv
<1> QED BY <1>1, <1>2, <1>3, <1>4, <1>5, <1>6, <1>7, <1>8, <1>9, <1>10, <1>11
        DEF Next, Declares


-----------------------------------------------------------------------------
(***************************************************************************)
(* The compilers in progress.                                              *)
(***************************************************************************)
\* A line is compiled before it runs.
CompilesThenRuns ==
    /\ compilers # <<>> => runs = <<>> /\ ~crashed
    /\ crashed => runs = <<>> /\ compilers = <<>>

\* Only the outermost compiler works on the line, and each of the others on the
\* file whose use the enclosing one has reached.
Encloses ==
    /\ \A i \in 1 .. Len(compilers) : compilers[i].module = Main <=> i = 1
    /\ \A i \in 1 .. Len(compilers)-1 : compilers[i].using.from = compilers[i+1].module
    /\ compilers # <<>> =>
          LET used == Top.using.from
          IN  used \in File => state[used] \in {"loaded", "error", "executed"}
    /\ \A i \in 1 .. Len(compilers) : Core \in DOMAIN compilers[i].table

CompilersInv ==
    /\ CompilesThenRuns
    /\ state[Main] \in {"loading", "error"}
    /\ Encloses
    /\ LoadingIsBeingCompiled

\* While the code of a line runs, no file is being compiled.
LEMMA RunningCompilesNothing ==
    ASSUME TypeInv, CompilersInv, runs # <<>>
    PROVE  compilers = <<>> /\ ~crashed /\ \A m \in File : state[m] # "loading"
<1>1. compilers = <<>> /\ ~crashed
  BY DEF CompilersInv, CompilesThenRuns
<1>2. DOMAIN compilers = {}
  BY <1>1
<1> QED BY <1>1, <1>2 DEF CompilersInv, LoadingIsBeingCompiled

\* Every step keeps the compilers nested and the loading files theirs.
LEMMA CompilersInvInductive ==
    TypeInv /\ TypeInv' /\ CompilersInv /\ [Next]_vars => CompilersInv'
<1> SUFFICES ASSUME TypeInv, TypeInv', CompilersInv, [Next]_vars PROVE CompilersInv'
  OBVIOUS
<1>m. Main \in Module /\ Main \notin File /\ \A m \in File : m \in Module /\ m # Main
  BY NamesAssumption DEF Module
<1>d. /\ compilers \in Seq(CompilerState) /\ Len(compilers) \in Nat
      /\ DOMAIN compilers = 1 .. Len(compilers)
      /\ compilers' \in Seq(CompilerState) /\ Len(compilers') \in Nat
      /\ DOMAIN compilers' = 1 .. Len(compilers')
  BY LenProperties DEF TypeInv
<1>s. /\ state \in [Module -> {"none", "loading", "loaded", "error", "executed"}]
  BY DEF TypeInv
<1>quiet. ASSUME runs # <<>>, compilers' = compilers, state'[Main] \in {"loading", "error"},
                 \A m \in File : state'[m] = "loading" => state[m] = "loading",
                 crashed' => runs' = <<>>
          PROVE  CompilersInv'
  <2>1. compilers = <<>> /\ \A m \in File : state[m] # "loading"
    BY <1>quiet, RunningCompilesNothing
  <2>2. compilers' = <<>> /\ DOMAIN compilers' = {} /\ Len(compilers') = 0
    BY <1>quiet, <2>1
  <2> QED BY <1>quiet, <2>1, <2>2
          DEF CompilersInv, CompilesThenRuns, Encloses, LoadingIsBeingCompiled
<1>1. CASE Interpret
  <2>1. compilers' = <<Compiler(Main)>> /\ compilers = <<>> /\ ~crashed /\ runs = <<>>
        /\ state' = state /\ crashed' = crashed /\ runs' = runs
    BY <1>1 DEF Interpret, Idle
  <2>2. /\ Compiler(Main).module = Main /\ Compiler(Main).using = Nowhere
        /\ Core \in DOMAIN Compiler(Main).table
    BY <1>m, CompilerType DEF Compiler
  <2>3. Len(compilers') = 1 /\ compilers'[1] = Compiler(Main) /\ Top' = Compiler(Main)
    BY <2>1 DEF Top, Sq!Last
  <2>4. \A m \in File : state[m] # "loading"
    <3>1. DOMAIN compilers = {}
      BY <2>1
    <3> QED BY <3>1 DEF CompilersInv, LoadingIsBeingCompiled
  <2>5. CompilesThenRuns'
    BY <2>1 DEF CompilesThenRuns
  <2>6. Encloses'
    BY <1>m, <2>2, <2>3 DEF Encloses, Nowhere
  <2>7. LoadingIsBeingCompiled'
    BY <1>m, <1>d, <2>1, <2>2, <2>3, <2>4 DEF LoadingIsBeingCompiled
  <2> QED BY <2>1, <2>5, <2>6, <2>7 DEF CompilersInv
<1>2. CASE Declares
  <2>1. PICK d \in CompilerState : Edits(d)
    BY <1>2, DeclareStep
  <2>2. /\ compilers # <<>> /\ compilers' # <<>> /\ Len(compilers') = Len(compilers)
        /\ compilers'[Len(compilers)] = d
        /\ \A i \in 1 .. Len(compilers)-1 : compilers'[i] = compilers[i]
        /\ Top = compilers[Len(compilers)] /\ Len(compilers) \in 1 .. Len(compilers)
        /\ Top' = d
    <3>1. compilers # <<>>
      BY <2>1 DEF Edits
    <3>2. Top' = compilers'[Len(compilers')]
      BY DEF Top, Sq!Last
    <3> QED BY <2>1, <3>1, <3>2, EditsShape, TopIs
  <2>3. /\ state' = state /\ runs' = runs /\ crashed' = crashed
        /\ d.module = Top.module /\ d.using = Nowhere
        /\ DOMAIN Top.table \subseteq DOMAIN d.table
    BY <2>1 DEF Edits, OnlyCompiles, moduleVars
  <2>4. CompilesThenRuns'
    BY <2>2, <2>3 DEF CompilersInv, CompilesThenRuns
  <2>5. Encloses'
    <3>1. \A i \in 1 .. Len(compilers) :
             /\ compilers'[i].module = compilers[i].module
             /\ DOMAIN compilers[i].table \subseteq DOMAIN compilers'[i].table
             /\ i < Len(compilers) => compilers'[i].using = compilers[i].using
      BY <1>d, <2>2, <2>3
    <3> QED BY <1>m, <1>d, <2>2, <2>3, <3>1 DEF CompilersInv, Encloses, Nowhere
  <2>6. LoadingIsBeingCompiled'
    <3>1. \A i \in 1 .. Len(compilers) : compilers'[i].module = compilers[i].module
      BY <1>d, <2>2, <2>3
    <3> QED BY <1>d, <2>2, <2>3, <3>1 DEF CompilersInv, LoadingIsBeingCompiled
  <2> QED BY <2>3, <2>4, <2>5, <2>6 DEF CompilersInv
<1>3. ASSUME NEW m \in File, NEW x \in Name, CompileModule(m, x) PROVE CompilersInv'
  <2> DEFINE n == Len(compilers)
             e == compilers'[n]
             k == Compiler(m)
  <2>1. /\ compilers # <<>> /\ compilers' # <<>> /\ Len(compilers') = n + 1
        /\ compilers'[n + 1] = k
        /\ e.module = Top.module /\ e.table = Top.table /\ e.using.from = m
        /\ \A i \in 1 .. n-1 : compilers'[i] = compilers[i]
    BY <1>3, ModuleShape
  <2>2. /\ n \in Nat \ {0} /\ n \in 1 .. n /\ Top = compilers[n] /\ Top' = k
    <3>1. Top' = compilers'[Len(compilers')]
      BY DEF Top, Sq!Last
    <3> QED BY <2>1, <3>1, TopIs
  <2>3. k.module = m /\ k.using = Nowhere /\ Core \in DOMAIN k.table
    BY <1>m, CompilerType DEF Compiler
  <2>4. /\ state[m] = "none" /\ state' = [state EXCEPT ![m] = "loading"]
        /\ runs' = runs /\ crashed' = crashed
    BY <1>3 DEF CompileModule
  <2> HIDE DEF k, e, n
  <2>e. e = compilers'[n] /\ n = Len(compilers)
    BY DEF e, n
  <2>5. \A i \in 1 .. n : /\ compilers'[i].module = compilers[i].module
                          /\ compilers'[i].table = compilers[i].table
                          /\ i < n => compilers'[i].using = compilers[i].using
    BY <2>1, <2>2, <2>e
  <2>6. \A i \in 1 .. n : compilers[i].module # m
    BY <1>d, <2>4, <2>e DEF CompilersInv, LoadingIsBeingCompiled
  <2>7. CompilesThenRuns'
    BY <2>1, <2>4 DEF CompilersInv, CompilesThenRuns
  <2>8. Encloses'
    <3>1. \A i \in 1 .. n+1 : compilers'[i].module = Main <=> i = 1
      BY <1>m, <2>1, <2>2, <2>3, <2>5, <2>e DEF CompilersInv, Encloses
    <3>2. \A i \in 1 .. n : compilers'[i].using.from = compilers'[i+1].module
      <4>1. \A i \in 1 .. n-1 : compilers'[i].using.from = compilers'[i+1].module
        BY <2>2, <2>5, <2>e DEF CompilersInv, Encloses
      <4> QED BY <2>1, <2>2, <2>3, <2>e, <4>1
    <3>3. \A i \in 1 .. n+1 : Core \in DOMAIN compilers'[i].table
      BY <2>1, <2>2, <2>3, <2>5, <2>e DEF CompilersInv, Encloses
    <3> QED BY <1>m, <2>1, <2>2, <2>3, <3>1, <3>2, <3>3 DEF Encloses, Nowhere
  <2>9. LoadingIsBeingCompiled'
    <3>1. \A i, j \in 1 .. n+1 : compilers'[i].module = compilers'[j].module => i = j
      <4>1. \A i, j \in 1 .. n : compilers[i].module = compilers[j].module => i = j
        BY <2>e DEF CompilersInv, LoadingIsBeingCompiled
      <4> QED BY <1>d, <2>1, <2>2, <2>3, <2>5, <2>6, <4>1, SMTT(30)
    <3>2. \A f \in File : state'[f] = "loading" <=>
                          \E i \in 1 .. n+1 : compilers'[i].module = f
      <4> SUFFICES ASSUME NEW f \in File
                   PROVE  state'[f] = "loading" <=> \E i \in 1 .. n+1 :
                            compilers'[i].module = f
        OBVIOUS
      <4>1. CASE f = m
        BY <1>m, <1>s, <2>1, <2>2, <2>3, <2>4, <2>e, <4>1
      <4>2. CASE f # m
        <5>1. state'[f] = state[f]
          BY <1>m, <1>s, <2>4, <4>2
        <5>2. (\E i \in 1 .. n+1 : compilers'[i].module = f)
               <=> \E i \in 1 .. n : compilers[i].module = f
          BY <2>1, <2>2, <2>3, <2>5, <4>2
        <5> QED BY <1>d, <2>e, <5>1, <5>2 DEF CompilersInv, LoadingIsBeingCompiled
      <4> QED BY <4>1, <4>2
    <3> QED BY <1>d, <2>1, <3>1, <3>2 DEF LoadingIsBeingCompiled
  <2>10. state'[Main] \in {"loading", "error"}
    BY <1>m, <1>s, <2>4 DEF CompilersInv
  <2> QED BY <2>7, <2>8, <2>9, <2>10 DEF CompilersInv
<1>4. CASE EndModule
  <2> DEFINE n == Len(compilers)
             k == Top.module
  <2>1. /\ compilers # <<>> /\ n > 1 /\ compilers' # <<>> /\ Len(compilers') = n - 1
        /\ \A i \in 1 .. n-1 : compilers'[i] = compilers[i]
    BY <1>4, EndModuleShape
  <2>2. n \in Nat \ {0} /\ n \in 1 .. n /\ Top = compilers[n] /\ Top' = compilers[n-1]
    <3>1. Top' = compilers'[Len(compilers')]
      BY DEF Top, Sq!Last
    <3> QED BY <2>1, <3>1, TopIs
  <2>3. /\ k \in File /\ k \in Module
    <3>1. Top \in CompilerState
      BY <2>1, TopIs
    <3>2. k # Main
      BY <2>1, <2>2 DEF CompilersInv, Encloses
    <3> QED BY <3>1, <3>2 DEF CompilerState, Module
  <2>4. /\ \A f \in Module : f # k => state'[f] = state[f]
        /\ state'[k] \in {"loaded", "error"}
        /\ runs' = runs /\ crashed' = crashed
    BY <1>4, <1>s, <2>3 DEF EndModule
  <2>k. k = compilers[n].module
    BY <2>2
  <2> HIDE DEF k, n
  <2>n. n = Len(compilers)
    BY DEF n
  <2>5. CompilesThenRuns'
    BY <2>1, <2>4 DEF CompilersInv, CompilesThenRuns
  <2>6. Encloses'
    <3>1. compilers[n-1].using.from = compilers[n-1+1].module
      BY <2>1, <2>2, <2>n DEF CompilersInv, Encloses
    <3>2. Top'.using.from = k
      BY <2>2, <2>k, <3>1
    <3>3. \A i \in 1 .. n-1 : /\ compilers'[i].module = Main <=> i = 1
                              /\ Core \in DOMAIN compilers'[i].table
      BY <2>1, <2>2, <2>n DEF CompilersInv, Encloses
    <3>4. \A i \in 1 .. n-1-1 : compilers'[i].using.from = compilers'[i+1].module
      <4>1. \A i \in 1 .. n-1-1 : i \in 1 .. n-1 /\ i+1 \in 1 .. n-1
        BY <2>2
      <4> QED BY <2>1, <2>2, <2>n, <4>1 DEF CompilersInv, Encloses
    <3> QED BY <2>1, <2>4, <3>2, <3>3, <3>4 DEF Encloses
  <2>7. LoadingIsBeingCompiled'
    <3>1. \A i, j \in 1 .. n-1 : compilers'[i].module = compilers'[j].module => i = j
      <4> SUFFICES ASSUME NEW i \in 1 .. n-1, NEW j \in 1 .. n-1,
                          compilers'[i].module = compilers'[j].module
                   PROVE  i = j
        OBVIOUS
      <4>1. i \in DOMAIN compilers /\ j \in DOMAIN compilers
        BY <1>d, <2>2, <2>n
      <4>2. compilers[i].module = compilers[j].module
        BY <2>1
      <4> QED BY <4>1, <4>2 DEF CompilersInv, LoadingIsBeingCompiled
    <3>2. \A i \in 1 .. n-1 : compilers[i].module # k
      BY <1>d, <2>1, <2>2, <2>k, <2>n DEF CompilersInv, LoadingIsBeingCompiled
    <3>3. \A f \in File : state'[f] = "loading" <=>
                          \E i \in 1 .. n-1 : compilers'[i].module = f
      <4> SUFFICES ASSUME NEW f \in File
                   PROVE  state'[f] = "loading" <=> \E i \in 1 .. n-1 :
                            compilers'[i].module = f
        OBVIOUS
      <4>1. CASE f = k
        BY <2>1, <2>4, <3>2, <4>1
      <4>2. CASE f # k
        <5>1. state'[f] = state[f]
          BY <1>m, <2>4, <4>2
        <5>2. (\E i \in 1 .. n-1 : compilers'[i].module = f)
               <=> \E i \in 1 .. n : compilers[i].module = f
          BY <2>1, <2>2, <2>k, <4>2
        <5> QED BY <1>d, <2>n, <5>1, <5>2 DEF CompilersInv, LoadingIsBeingCompiled
      <4> QED BY <4>1, <4>2
    <3> QED BY <1>d, <2>1, <3>1, <3>3 DEF LoadingIsBeingCompiled
  <2>8. state'[Main] \in {"loading", "error"}
    BY <1>m, <2>3, <2>4 DEF CompilersInv
  <2> QED BY <2>5, <2>6, <2>7, <2>8 DEF CompilersInv
<1>5. CASE EndLine
  <2>1. /\ Len(compilers) = 1 /\ compilers' = <<>> /\ crashed' = crashed
        /\ \A f \in File : state'[f] = state[f]
        /\ state'[Main] \in {"loading", "error"}
    BY <1>5, <1>m, <1>s DEF EndLine, CompilersInv
  <2>2. compilers[1].module = Main /\ 1 \in 1 .. Len(compilers)
    BY <2>1 DEF CompilersInv, Encloses
  <2>3. \A f \in File : state[f] # "loading"
    <3>1. \A i \in 1 .. Len(compilers) : i = 1
      BY <2>1
    <3> QED BY <1>m, <1>d, <2>2, <3>1 DEF CompilersInv, LoadingIsBeingCompiled
  <2>4. Len(compilers') = 0 /\ DOMAIN compilers' = {}
    BY <2>1
  <2>5. ~crashed
    <3>1. compilers # <<>>
      BY <2>1
    <3> QED BY <3>1 DEF CompilersInv, CompilesThenRuns
  <2>6. Encloses' /\ CompilesThenRuns'
    BY <2>1, <2>4, <2>5 DEF Encloses, CompilesThenRuns
  <2>7. LoadingIsBeingCompiled'
    BY <2>1, <2>3, <2>4 DEF LoadingIsBeingCompiled
  <2> QED BY <2>1, <2>6, <2>7 DEF CompilersInv
<1>p. ASSUME Panic, runs # <<>> PROVE CompilersInv'
  BY <1>p, <1>quiet, <1>m, <1>s DEF Panic, CompilersInv
<1>r. ASSUME runs # <<>>, compilers' = compilers, state' = state, crashed' = crashed
      PROVE  CompilersInv'
  BY <1>r, <1>quiet, RunningCompilesNothing DEF CompilersInv
<1>6. CASE ExecuteDefine
  BY <1>6, <1>r DEF ExecuteDefine, Executes
<1>7. CASE ExecuteGet
  BY <1>7, <1>r, <1>p DEF ExecuteGet, Executes, moduleVars
<1>8. CASE ExecuteUse
  BY <1>8, <1>r, <1>p DEF ExecuteUse, Executes
<1>9. CASE ExecuteFinishUse
  BY <1>9, <1>r, <1>p DEF ExecuteFinishUse, Executes
<1>10. CASE Return
  <2>1. /\ runs # <<>> /\ compilers' = compilers /\ crashed' = crashed
        /\ state'[Main] = state[Main]
        /\ \A f \in File : state'[f] = "loading" => state[f] = "loading"
    BY <1>10, <1>m, <1>s DEF Return
  <2> QED BY <2>1, <1>quiet, RunningCompilesNothing DEF CompilersInv
<1>11. CASE UNCHANGED vars
  BY <1>11 DEF vars, moduleVars, CompilersInv, CompilesThenRuns, Encloses,
               LoadingIsBeingCompiled, Top
<1> QED BY <1>1, <1>2, <1>3, <1>4, <1>5, <1>6, <1>7, <1>8, <1>9, <1>10, <1>11
        DEF Next, Declares

-----------------------------------------------------------------------------
(***************************************************************************)
(* The activations of run.                                                 *)
(***************************************************************************)
\* The first runs the line, each of the others a file that is loaded, started by
\* the use that the one before has just executed; no file runs twice at a time.
Nested ==
    /\ \A i \in 1 .. Len(runs) : runs[i].module = Main <=> i = 1
    /\ \A i, j \in 1 .. Len(runs) : runs[i].module = runs[j].module => i = j
    /\ \A i \in 2 .. Len(runs) : /\ runs[i].code = closure[runs[i].module]
                                 /\ state[runs[i].module] = "loaded"
    /\ \A i \in 1 .. Len(runs)-1 :
          /\ runs[i].pc - 1 \in 1 .. Len(runs[i].code)
          /\ runs[i].code[runs[i].pc - 1] = UseModule(runs[i+1].module)

ImportsAreTheRuns ==
    /\ runs = <<>> /\ ~crashed => imports = <<>>
    /\ runs # <<>> => /\ Len(imports) = Len(runs) - 1
                     /\ \A i \in 1 .. Len(imports) : imports[i] = runs[i+1].module

RunsInv == Nested /\ ImportsAreTheRuns

\* A declaration or an end of a text finds no activation.
LEMMA CompilingRunsNothing ==
    ASSUME TypeInv, CompilersInv, compilers # <<>>
    PROVE  runs = <<>> /\ ~crashed /\ Len(runs) = 0
BY DEF CompilersInv, CompilesThenRuns

\* The activation at work executes an instruction and stays.
LEMMA AdvancedKeepsNested ==
    ASSUME TypeInv, RunsInv, runs # <<>>, runs' = Advanced,
           state' = state, closure' = closure, imports' = imports
    PROVE  RunsInv'
<1> DEFINE n == Len(runs)
<1>1. n \in Nat \ {0} /\ Run = runs[n]
  BY RunIs
<1>2. /\ runs' # <<>> /\ Len(runs') = n
      /\ runs'[n].module = runs[n].module /\ runs'[n].code = runs[n].code
      /\ \A i \in 1 .. n-1 : runs'[i] = runs[i]
  BY <1>1, AdvancedShape
<1>3. \A i \in 1 .. n : runs'[i].module = runs[i].module /\ runs'[i].code = runs[i].code
  BY <1>1, <1>2
<1>n. n = Len(runs)
  OBVIOUS
<1> HIDE DEF n
<1>4. Nested'
  <2>1. /\ \A i \in 1 .. n : runs'[i].module = Main <=> i = 1
        /\ \A i, j \in 1 .. n : runs'[i].module = runs'[j].module => i = j
    BY <1>3, <1>n DEF RunsInv, Nested
  <2>2. \A i \in 2 .. n : /\ runs'[i].code = closure[runs'[i].module]
                          /\ state[runs'[i].module] = "loaded"
    <3>1. \A i \in 2 .. n : i \in 1 .. n
      BY <1>1
    <3> QED BY <1>3, <1>n, <3>1 DEF RunsInv, Nested
  <2>3. \A i \in 1 .. n-1 :
           /\ runs'[i].pc - 1 \in 1 .. Len(runs'[i].code)
           /\ runs'[i].code[runs'[i].pc - 1] = UseModule(runs'[i+1].module)
    <3>1. \A i \in 1 .. n-1 : i+1 \in 1 .. n
      BY <1>1
    <3> QED BY <1>2, <1>3, <1>n, <3>1 DEF RunsInv, Nested
  <2> QED BY <1>2, <2>1, <2>2, <2>3 DEF Nested
<1>5. ImportsAreTheRuns'
  <2>1. imports \in Seq(File) /\ Len(imports) \in Nat
    BY LenProperties DEF TypeInv
  <2>2. \A i \in 1 .. Len(imports) : i+1 \in 1 .. n
    BY <1>1, <1>n, <2>1 DEF RunsInv, ImportsAreTheRuns
  <2> QED BY <1>2, <1>3, <1>n, <2>2 DEF RunsInv, ImportsAreTheRuns
<1> QED BY <1>4, <1>5 DEF RunsInv

\* Every step keeps the activations nested and the import stack theirs.
LEMMA RunsInvInductive ==
    TypeInv /\ TypeInv' /\ CompilersInv /\ RunsInv /\ [Next]_vars => RunsInv'
<1> SUFFICES ASSUME TypeInv, TypeInv', CompilersInv, RunsInv, [Next]_vars PROVE RunsInv'
  OBVIOUS
<1>m. Main \in Module /\ Main \notin File /\ \A m \in File : m \in Module /\ m # Main
  BY NamesAssumption DEF Module
<1>d. /\ runs \in Seq(Activation) /\ Len(runs) \in Nat
      /\ imports \in Seq(File) /\ Len(imports) \in Nat
  BY LenProperties DEF TypeInv
<1>idle. ASSUME runs' = <<>>, ~crashed' => imports' = <<>> PROVE RunsInv'
  <2>1. Len(runs') = 0
    BY <1>idle
  <2> QED BY <1>idle, <2>1 DEF RunsInv, Nested, ImportsAreTheRuns
<1>c. ASSUME runs = <<>>, runs' = runs, imports' = imports, crashed' = crashed
      PROVE  RunsInv'
  BY <1>c, <1>idle DEF RunsInv, ImportsAreTheRuns
<1>1. CASE Interpret
  BY <1>1, <1>c DEF Interpret, Idle
<1>2. CASE Declares
  <2>1. PICK d \in CompilerState : Edits(d)
    BY <1>2, DeclareStep
  <2> QED BY <2>1, <1>c, CompilingRunsNothing DEF Edits, OnlyCompiles
<1>3. ASSUME NEW m \in File, NEW x \in Name, CompileModule(m, x) PROVE RunsInv'
  BY <1>3, <1>c, CompilingRunsNothing DEF CompileModule, Declaring
<1>4. CASE EndModule
  <2>1. compilers # <<>>
    BY <1>4, EndModuleShape
  <2> QED BY <1>4, <2>1, <1>c, CompilingRunsNothing DEF EndModule
<1>5. CASE EndLine
  <2>1. compilers # <<>>
    BY <1>5 DEF EndLine
  <2>2. runs = <<>> /\ ~crashed /\ imports = <<>> /\ Len(imports) = 0
    BY <2>1, CompilingRunsNothing DEF RunsInv, ImportsAreTheRuns
  <2>3. CASE UNCHANGED runs
    BY <1>5, <2>2, <2>3, <1>c DEF EndLine
  <2>4. CASE runs' = <<[module |-> Main, code |-> Top.code, pc |-> 1]>>
    <3>1. Len(runs') = 1 /\ runs'[1].module = Main /\ runs' # <<>>
      BY <2>4
    <3>2. imports' = imports
      BY <1>5 DEF EndLine
    <3> QED BY <2>2, <3>1, <3>2 DEF RunsInv, Nested, ImportsAreTheRuns
  <2> QED BY <1>5, <2>3, <2>4 DEF EndLine
<1>p. ASSUME Panic, runs # <<>> PROVE RunsInv'
  <2>1. CASE Run.module # Main
    BY <1>p, <2>1, <1>idle DEF Panic
  <2>2. CASE Run.module = Main
    <3>1. Len(runs) = 1
      BY <1>p, <2>2, RunIs DEF RunsInv, Nested
    <3>2. imports = <<>>
      BY <1>p, <1>d, <3>1, EmptySeq DEF RunsInv, ImportsAreTheRuns
    <3> QED BY <1>p, <2>2, <3>2, <1>idle DEF Panic
  <2> QED BY <2>1, <2>2
<1>a. ASSUME runs # <<>>, runs' = Advanced, state' = state, closure' = closure,
               imports' = imports
      PROVE  RunsInv'
  BY <1>a, AdvancedKeepsNested
<1>6. CASE ExecuteDefine
  BY <1>6, <1>a DEF ExecuteDefine, Executes
<1>7. CASE ExecuteGet
  BY <1>7, <1>a, <1>p DEF ExecuteGet, Executes, moduleVars
<1>8. CASE ExecuteUse
  <2> DEFINE m == Instruction.from
             n == Len(runs)
             new == [module |-> m, code |-> closure[m], pc |-> 1]
  <2>1. /\ runs # <<>> /\ m \in File /\ Run.pc \in 1 .. Len(Run.code)
        /\ Run.code[Run.pc] = UseModule(m)
    BY <1>8, ExecutesIs DEF ExecuteUse
  <2>2. n \in Nat \ {0} /\ Run = runs[n] /\ Run \in Activation
    BY <2>1, RunIs
  <2>3. CASE /\ \A i \in DOMAIN imports : imports[i] # m
             /\ state[m] = "loaded"
             /\ imports' = Append(imports, m)
             /\ runs' = Append(Advanced, new)
             /\ state' = state /\ closure' = closure
    <3>1. /\ runs' # <<>> /\ Len(runs') = n + 1 /\ runs'[n + 1] = new
          /\ \A i \in 1 .. n : runs'[i] = Advanced[i]
      BY <1>m, <2>1, <2>3, EnterShape
    <3>2. /\ Advanced[n].module = Run.module /\ Advanced[n].code = Run.code
          /\ Advanced[n].pc = Run.pc + 1
          /\ \A i \in 1 .. n-1 : Advanced[i] = runs[i]
      BY <2>1, AdvancedShape
    <3>3. \A i \in 1 .. n : runs'[i].module = runs[i].module /\ runs'[i].code = runs[i].code
      BY <2>2, <3>1, <3>2
    <3>4. new.module = m /\ new.code = closure[m]
      OBVIOUS
    <3>n. n = Len(runs)
      OBVIOUS
    <3> HIDE DEF n, new
    <3>5. \A i \in 1 .. n : runs[i].module # m
      <4>1. Len(imports) = n - 1
              /\ \A i \in 1 .. Len(imports) : imports[i] = runs[i+1].module
        BY <2>1, <3>n DEF RunsInv, ImportsAreTheRuns
      <4>2. DOMAIN imports = 1 .. Len(imports)
        BY <1>d, LenProperties
      <4>3. \A i \in 1 .. n-1 : runs[i+1].module # m
        BY <2>3, <4>1, <4>2
      <4>4. runs[1].module = Main /\ 1 \in 1 .. n
        BY <2>2, <3>n DEF RunsInv, Nested
      <4> SUFFICES ASSUME NEW i \in 1 .. n PROVE runs[i].module # m
        OBVIOUS
      <4>5. CASE i = 1
        BY <1>m, <2>1, <4>4, <4>5
      <4>6. CASE i # 1
        <5>1. i-1 \in 1 .. n-1 /\ i-1+1 = i
          BY <2>2, <4>6
        <5> QED BY <4>3, <5>1
      <4> QED BY <4>5, <4>6
    <3>6. \A i \in 1 .. n+1 : runs'[i].module = Main <=> i = 1
      <4>1. \A i \in 1 .. n : runs'[i].module = Main <=> i = 1
        BY <3>3, <3>n DEF RunsInv, Nested
      <4> QED BY <1>m, <2>1, <2>2, <3>1, <3>4, <4>1
    <3>7. \A i, j \in 1 .. n+1 : runs'[i].module = runs'[j].module => i = j
      <4>1. \A i, j \in 1 .. n : runs'[i].module = runs'[j].module => i = j
        BY <3>3, <3>n DEF RunsInv, Nested
      <4>2. \A i \in 1 .. n : runs'[i].module # runs'[n+1].module
        BY <3>1, <3>3, <3>4, <3>5
      <4> QED BY <2>2, <4>1, <4>2
    <3>8. \A i \in 2 .. n+1 : /\ runs'[i].code = closure[runs'[i].module]
                              /\ state[runs'[i].module] = "loaded"
      <4>1. \A i \in 2 .. n : /\ runs'[i].code = closure[runs'[i].module]
                              /\ state[runs'[i].module] = "loaded"
        <5>1. \A i \in 2 .. n : i \in 1 .. n
          BY <2>2
        <5> QED BY <3>3, <3>n, <5>1 DEF RunsInv, Nested
      <4> QED BY <2>2, <2>3, <3>1, <3>4, <4>1
    <3>9. \A i \in 1 .. n :
             /\ runs'[i].pc - 1 \in 1 .. Len(runs'[i].code)
             /\ runs'[i].code[runs'[i].pc - 1] = UseModule(runs'[i+1].module)
      <4>1. \A i \in 1 .. n-1 : i \in 1 .. n /\ i+1 \in 1 .. n /\ runs'[i] = runs[i]
        BY <2>2, <3>1, <3>2
      <4>2. \A i \in 1 .. n-1 :
             /\ runs'[i].pc - 1 \in 1 .. Len(runs'[i].code)
             /\ runs'[i].code[runs'[i].pc - 1] = UseModule(runs'[i+1].module)
        BY <3>3, <3>n, <4>1 DEF RunsInv, Nested
      <4>3. /\ runs'[n].pc = Run.pc + 1 /\ runs'[n].code = Run.code
            /\ runs'[n+1].module = m
        BY <2>2, <3>1, <3>2, <3>4
      <4>4. Run.pc \in Nat \ {0}
        BY <2>2 DEF Activation
      <4>5. runs'[n].pc - 1 = Run.pc
        BY <4>3, <4>4
      <4> SUFFICES ASSUME NEW i \in 1 .. n
                   PROVE  /\ runs'[i].pc - 1 \in 1 .. Len(runs'[i].code)
                          /\ runs'[i].code[runs'[i].pc - 1] = UseModule(runs'[i+1].module)
        OBVIOUS
      <4>6. CASE i = n
        BY <2>1, <4>3, <4>5, <4>6
      <4>7. CASE i # n
        <5>1. i \in 1 .. n-1
          BY <2>2, <4>7
        <5> QED BY <4>2, <5>1
      <4> QED BY <4>6, <4>7
    <3>10. Nested'
      <4>2. Len(runs') = n+1 /\ Len(runs')-1 = n
        BY <2>2, <3>1
      <4>3. \A i \in 2 .. n+1 : /\ runs'[i].code = closure'[runs'[i].module]
                                /\ state'[runs'[i].module] = "loaded"
        BY <2>3, <3>8
      <4>4. /\ \A i \in 1 .. Len(runs') : runs'[i].module = Main <=> i = 1
            /\ \A i, j \in 1 .. Len(runs') : runs'[i].module = runs'[j].module => i = j
        BY <3>6, <3>7, <4>2
      <4>5. \A i \in 2 .. Len(runs') : /\ runs'[i].code = closure'[runs'[i].module]
                                       /\ state'[runs'[i].module] = "loaded"
        BY <4>2, <4>3
      <4>6. \A i \in 1 .. Len(runs')-1 :
               /\ runs'[i].pc - 1 \in 1 .. Len(runs'[i].code)
               /\ runs'[i].code[runs'[i].pc - 1] = UseModule(runs'[i+1].module)
        BY <3>9, <4>2
      <4> QED BY <4>4, <4>5, <4>6 DEF Nested
    <3>11. ImportsAreTheRuns'
      <4>1. /\ Len(imports') = Len(imports) + 1 /\ imports'[Len(imports) + 1] = m
            /\ \A i \in 1 .. Len(imports) : imports'[i] = imports[i]
        BY <1>d, <2>1, <2>3, StackPush
      <4>2. Len(imports) = n - 1 /\ \A i \in 1 .. n-1 : imports[i] = runs[i+1].module
        BY <2>1, <3>n DEF RunsInv, ImportsAreTheRuns
      <4>3. \A i \in 1 .. n-1 : i+1 \in 1 .. n
        BY <2>2
      <4>4. \A i \in 1 .. n-1 : imports'[i] = runs'[i+1].module
        BY <3>3, <4>1, <4>2, <4>3
      <4>5. imports'[n] = runs'[n+1].module /\ Len(imports') = n
        BY <2>2, <3>1, <3>4, <4>1, <4>2
      <4>6. \A i \in 1 .. n : imports'[i] = runs'[i+1].module
        BY <2>2, <4>4, <4>5
      <4> QED BY <2>2, <3>1, <4>5, <4>6 DEF ImportsAreTheRuns
    <3> QED BY <3>10, <3>11 DEF RunsInv
  <2>4. CASE Panic
    BY <2>1, <2>4, <1>p
  <2>5. CASE runs' = Advanced /\ state' = state /\ closure' = closure /\ imports' = imports
    BY <2>1, <2>5, <1>a
  <2> QED BY <1>8, <2>3, <2>4, <2>5 DEF ExecuteUse
<1>9. CASE ExecuteFinishUse
  BY <1>9, <1>a, <1>p DEF ExecuteFinishUse, Executes
<1>10. CASE Return
  <2> DEFINE n == Len(runs)
  <2>1. /\ runs # <<>> /\ Len(runs') = n - 1 /\ \A i \in 1 .. n-1 : runs'[i] = runs[i]
        /\ runs' \in Seq(Activation)
    BY <1>10, ReturnShape
  <2>2. n \in Nat \ {0} /\ Run = runs[n] /\ n \in 1 .. n /\ Run \in Activation
    BY <2>1, RunIs
  <2>n. n = Len(runs)
    OBVIOUS
  <2> HIDE DEF n
  <2>3. CASE Run.module = Main
    <3>1. n = 1 /\ runs' = <<>>
      <4>1. n = 1
        BY <2>2, <2>3, <2>n DEF RunsInv, Nested
      <4> QED BY <2>1, <4>1, EmptySeq
    <3>2. imports = <<>>
      <4>1. Len(imports) = 0
        BY <2>1, <2>n, <3>1 DEF RunsInv, ImportsAreTheRuns
      <4> QED BY <1>d, <4>1, EmptySeq
    <3> QED BY <1>10, <2>3, <3>1, <3>2, <1>idle DEF Return
  <2>4. CASE Run.module # Main
    <3>1. n # 1 /\ n-1 \in 1 .. n-1
      <4>1. n # 1
        BY <2>2, <2>4, <2>n DEF RunsInv, Nested
      <4> QED BY <2>2, <4>1
    <3>2. /\ state' = [state EXCEPT ![Run.module] = "executed"] /\ closure' = closure
          /\ imports' = Sq!Front(imports)
      BY <1>10, <2>4 DEF Return
    <3>3. \A i \in 1 .. n-1 : runs[i].module # Run.module
      BY <2>2, <2>n DEF RunsInv, Nested
    <3>4. Nested'
      <4>1. \A i \in 2 .. n-1 : /\ runs'[i].code = closure'[runs'[i].module]
                                /\ state'[runs'[i].module] = "loaded"
        <5> SUFFICES ASSUME NEW i \in 2 .. n-1
                     PROVE  /\ runs'[i].code = closure'[runs'[i].module]
                            /\ state'[runs'[i].module] = "loaded"
          OBVIOUS
        <5>1. i \in 1 .. n-1 /\ i \in 2 .. n
          BY <2>2
        <5>2. runs'[i] = runs[i] /\ runs[i].module # Run.module
          BY <2>1, <3>3, <5>1
        <5>3. runs[i].code = closure[runs[i].module] /\ state[runs[i].module] = "loaded"
          BY <2>n, <5>1 DEF RunsInv, Nested
        <5>4. runs[i] \in Activation
          BY <1>d, <2>n, <5>1, ElementOfSeq
        <5>5. state \in [Module -> {"none", "loading", "loaded", "error", "executed"}]
              /\ runs[i].module \in Module
          BY <5>4 DEF TypeInv, Activation
        <5> QED BY <3>2, <5>2, <5>3, <5>5
      <4>2. \A i \in 1 .. n-1 : i \in 1 .. n /\ runs'[i] = runs[i]
        BY <2>1, <2>2
      <4>3. \A i \in 1 .. n-1-1 : i \in 1 .. n-1 /\ i+1 \in 1 .. n-1
        BY <2>2
      <4>4. \A i \in 1 .. n-1-1 :
               /\ runs'[i].pc - 1 \in 1 .. Len(runs'[i].code)
               /\ runs'[i].code[runs'[i].pc - 1] = UseModule(runs'[i+1].module)
        BY <2>n, <4>2, <4>3 DEF RunsInv, Nested
      <4>5. /\ \A i \in 1 .. n-1 : runs'[i].module = Main <=> i = 1
            /\ \A i, j \in 1 .. n-1 : runs'[i].module = runs'[j].module => i = j
        BY <2>n, <4>2 DEF RunsInv, Nested
      <4> QED BY <2>1, <4>1, <4>4, <4>5 DEF Nested
    <3>5. ImportsAreTheRuns'
      <4>1. Len(imports) = n-1 /\ \A i \in 1 .. n-1 : imports[i] = runs[i+1].module
        BY <2>1, <2>n DEF RunsInv, ImportsAreTheRuns
      <4>2. imports # <<>>
        BY <2>2, <3>1, <4>1
      <4>3. imports' = SubSeq(imports, 1, Len(imports)-1)
        BY <3>2 DEF Sq!Front
      <4>4. /\ Len(imports') = Len(imports) - 1
            /\ \A i \in 1 .. Len(imports)-1 : imports'[i] = imports[i]
        BY <1>d, <4>2, <4>3, StackPop
      <4>5. \A i \in 1 .. n-1-1 : i \in 1 .. n-1 /\ i+1 \in 1 .. n-1
        BY <2>2
      <4>6. \A i \in 1 .. n-1-1 : imports'[i] = runs'[i+1].module
        BY <2>1, <4>1, <4>4, <4>5
      <4>7. runs' # <<>>
        BY <2>1, <2>2, <3>1, EmptySeq
      <4> QED BY <2>1, <4>1, <4>4, <4>6, <4>7 DEF ImportsAreTheRuns
    <3> QED BY <3>4, <3>5 DEF RunsInv
  <2> QED BY <2>3, <2>4
<1>11. CASE UNCHANGED vars
  BY <1>11 DEF vars, moduleVars, RunsInv, Nested, ImportsAreTheRuns
<1> QED BY <1>1, <1>2, <1>3, <1>4, <1>5, <1>6, <1>7, <1>8, <1>9, <1>10, <1>11
        DEF Next, Declares

-----------------------------------------------------------------------------
(***************************************************************************)
(* What a step can do to a file, to a compiler and to an activation.       *)
(***************************************************************************)
Ready == {"loaded", "executed"}

\* The code of a file is settled when its compilation ends, and its state then
\* moves once, when it has run.
LEMMA FileStep ==
    ASSUME TypeInv, CompilersInv, RunsInv, Next, NEW m \in File
    PROVE  /\ state[m] \in Ready => /\ state'[m] \in Ready
                                    /\ closure'[m] = closure[m] /\ count'[m] = count[m]
           /\ state[m] = "executed" => state'[m] = "executed"
           /\ state'[m] \in Ready /\ state[m] \notin Ready =>
                 EndModule /\ Top.module = m /\ Top.ok /\ state'[m] = "loaded"
                 /\ closure'[m] = Top.code /\ count'[m] = Top.count
           /\ state'[m] = "executed" /\ state[m] # "executed" =>
                 Return /\ Run.module = m /\ state[m] = "loaded"
           /\ room[m] # 0 => room'[m] # 0
<1> DEFINE Goal ==
           /\ state[m] \in Ready => /\ state'[m] \in Ready
                                    /\ closure'[m] = closure[m] /\ count'[m] = count[m]
           /\ state[m] = "executed" => state'[m] = "executed"
           /\ state'[m] \in Ready /\ state[m] \notin Ready =>
                 EndModule /\ Top.module = m /\ Top.ok /\ state'[m] = "loaded"
                 /\ closure'[m] = Top.code /\ count'[m] = Top.count
           /\ state'[m] = "executed" /\ state[m] # "executed" =>
                 Return /\ Run.module = m /\ state[m] = "loaded"
           /\ room[m] # 0 => room'[m] # 0
<1>m. m \in Module /\ m # Main /\ Main \in Module
  BY NamesAssumption DEF Module
<1>t. /\ state \in [Module -> {"none", "loading", "loaded", "error", "executed"}]
      /\ room \in [Module -> Nat] /\ count \in [Module -> Nat]
           /\ closure \in [Module -> Code]
  BY DEF TypeInv
<1>same. ASSUME state'[m] = state[m], closure' = closure, count'[m] = count[m],
                room[m] # 0 => room'[m] # 0
         PROVE  Goal
  BY <1>same
<1>1. CASE Interpret
  BY <1>1, <1>same DEF Interpret
<1>2. CASE Declares
  <2>1. PICK d \in CompilerState : Edits(d)
    BY <1>2, DeclareStep
  <2> QED BY <2>1, <1>same DEF Edits, OnlyCompiles, moduleVars
<1>3. ASSUME NEW f \in File, NEW x \in Name, CompileModule(f, x) PROVE Goal
  <2>1. /\ state[f] = "none" /\ state' = [state EXCEPT ![f] = "loading"]
        /\ closure' = closure /\ count' = count /\ room' = room
    BY <1>3 DEF CompileModule
  <2> QED BY <1>m, <1>t, <2>1 DEF Ready
<1>4. CASE EndModule
  <2>1. compilers # <<>> /\ Len(compilers) > 1
    BY <1>4, EndModuleShape
  <2>2. /\ Top \in CompilerState /\ Top = compilers[Len(compilers)]
        /\ Len(compilers) \in 1 .. Len(compilers) /\ Len(compilers) # 1
    BY <2>1, TopIs
  <2>3. Top.module \in File /\ Top.module \in Module
    BY <2>2 DEF CompilersInv, Encloses, CompilerState, Module
  <2>4. state[Top.module] = "loading"
    <3>1. DOMAIN compilers = 1 .. Len(compilers)
      BY <2>1, StackTop DEF TypeInv
    <3> QED BY <2>2, <2>3, <3>1 DEF CompilersInv, LoadingIsBeingCompiled
  <2>5. /\ count' = [count EXCEPT ![Top.module] = Top.count]
        /\ closure' = [closure EXCEPT ![Top.module] = IF Top.ok THEN Top.code ELSE <<>>]
        /\ state' = [state EXCEPT ![Top.module] = IF Top.ok THEN "loaded" ELSE "error"]
        /\ room' = room
    BY <1>4 DEF EndModule, KeepNames
  <2>6. CASE Top.module = m
    BY <1>4, <1>m, <1>t, <2>4, <2>5, <2>6 DEF Ready
  <2>7. CASE Top.module # m
    BY <1>m, <1>t, <2>5, <2>7 DEF Ready
  <2> QED BY <2>6, <2>7
<1>5. CASE EndLine
  <2>1. Len(compilers) = 1 /\ compilers # <<>>
    <3>1. Len(compilers) = 1
      BY <1>5 DEF EndLine
    <3> QED BY <3>1
  <2>2. Top.module = Main
    BY <2>1, TopIs DEF CompilersInv, Encloses
  <2>3. /\ state'[m] = state[m] /\ closure' = closure /\ count'[m] = count[m]
        /\ room'[m] = room[m]
    BY <1>5, <1>m, <1>t, <2>2 DEF EndLine, KeepNames
  <2> QED BY <2>3, <1>same
<1>p. ASSUME Panic PROVE Goal
  BY <1>p, <1>m, <1>t, <1>same DEF Panic
<1>6. CASE ExecuteDefine
  BY <1>6, <1>same DEF ExecuteDefine
<1>7. CASE ExecuteGet
  BY <1>7, <1>same, <1>p DEF ExecuteGet, moduleVars
<1>8. CASE ExecuteUse
  <2>1. CASE /\ state[Instruction.from] = "loaded"
             /\ room' = [room EXCEPT ![Instruction.from] =
                            IF @ = 0 THEN count[Instruction.from] ELSE @]
             /\ UNCHANGED <<state, count, closure>>
    BY <1>m, <1>t, <2>1, <1>same
  <2>2. CASE UNCHANGED <<room, state, count, closure>>
    BY <2>2, <1>same
  <2> QED BY <1>8, <2>1, <2>2, <1>p DEF ExecuteUse
<1>9. CASE ExecuteFinishUse
  BY <1>9, <1>same, <1>p DEF ExecuteFinishUse
<1>10. CASE Return
  <2>1. CASE Run.module = Main
    BY <1>10, <2>1, <1>m, <1>same DEF Return
  <2>2. CASE Run.module # Main
    <3>1. /\ state' = [state EXCEPT ![Run.module] = "executed"] /\ closure' = closure
          /\ count' = count /\ room' = room /\ runs # <<>>
      BY <1>10, <2>2 DEF Return
    <3>2. Run = runs[Len(runs)] /\ Len(runs) \in 1 .. Len(runs)
      BY <3>1, RunIs
    <3>3. Len(runs) \in 2 .. Len(runs)
      BY <2>2, <3>2 DEF RunsInv, Nested
    <3>4. state[Run.module] = "loaded"
      BY <3>2, <3>3 DEF RunsInv, Nested
    <3>5. CASE Run.module = m
      BY <1>10, <1>m, <1>t, <3>1, <3>4, <3>5 DEF Ready
    <3>6. CASE Run.module # m
      <4>1. state'[m] = state[m]
        BY <1>m, <1>t, <3>1, <3>6
      <4> QED BY <3>1, <4>1, <1>same
    <3> QED BY <3>5, <3>6
  <2> QED BY <2>1, <2>2
<1> QED BY <1>1, <1>2, <1>3, <1>4, <1>5, <1>6, <1>7, <1>8, <1>9, <1>10
        DEF Next, Declares

\* A compiler keeps its text, takes a declaration, or is new.
SameText(c, e) == /\ c.module = e.module /\ c.table = e.table /\ c.count = e.count
                  /\ c.code = e.code /\ c.ok = e.ok

Starts(c) == \/ Interpret /\ c = Compiler(Main)
             \/ \E m \in File : state[m] = "none" /\ c = Compiler(m)

\* A compiler stays, is the one at work and takes up an element of the text, or starts.
LEMMA CompilersStep ==
    ASSUME TypeInv, CompilersInv, Next, NEW i \in 1 .. Len(compilers')
    PROVE  \/ i \in 1 .. Len(compilers) /\ SameText(compilers'[i], compilers[i])
           \/ /\ i = Len(compilers) /\ i \in 1 .. Len(compilers)
              /\ compilers'[i] \in CompilerState
              /\ Edits(compilers'[i])
              /\ compilers'[i].ok => EditsText(compilers'[i])
           \/ Starts(compilers'[i])
<1> DEFINE Goal ==
           \/ i \in 1 .. Len(compilers) /\ SameText(compilers'[i], compilers[i])
           \/ /\ i = Len(compilers) /\ i \in 1 .. Len(compilers)
              /\ compilers'[i] \in CompilerState
              /\ Edits(compilers'[i])
              /\ compilers'[i].ok => EditsText(compilers'[i])
           \/ Starts(compilers'[i])
<1>same. ASSUME compilers' = compilers PROVE Goal
  BY <1>same DEF SameText
<1>1. CASE Interpret
  <2>1. compilers' = <<Compiler(Main)>>
    BY <1>1 DEF Interpret
  <2>2. i = 1
    BY <2>1
  <2> QED BY <1>1, <2>1, <2>2 DEF Starts
<1>2. CASE Declares
  <2>1. PICK d \in CompilerState : Edits(d) /\ (d.ok => EditsText(d))
    BY <1>2, DeclareStep
  <2>2. /\ Len(compilers') = Len(compilers) /\ compilers'[Len(compilers)] = d
        /\ \A j \in 1 .. Len(compilers)-1 : compilers'[j] = compilers[j]
    BY <2>1, EditsShape
  <2>3. Len(compilers) \in Nat \ {0}
    BY <2>1, TopIs DEF Edits
  <2>4. CASE i = Len(compilers)
    BY <2>1, <2>2, <2>3, <2>4
  <2>5. CASE i # Len(compilers)
    <3>1. i \in 1 .. Len(compilers)-1 /\ i \in 1 .. Len(compilers)
      BY <2>2, <2>3, <2>5
    <3> QED BY <2>2, <3>1 DEF SameText
  <2> QED BY <2>4, <2>5
<1>3. ASSUME NEW m \in File, NEW x \in Name, CompileModule(m, x) PROVE Goal
  <2> DEFINE n == Len(compilers)
             e == compilers'[n]
  <2>1. /\ compilers # <<>> /\ Len(compilers') = n + 1
        /\ compilers'[n + 1] = Compiler(m)
        /\ e.module = Top.module /\ e.table = Top.table /\ e.count = Top.count
        /\ e.code = Top.code /\ e.ok = Top.ok
        /\ \A j \in 1 .. n-1 : compilers'[j] = compilers[j]
    BY <1>3, ModuleShape
  <2>2. n \in Nat \ {0} /\ Top = compilers[n]
    BY <2>1, TopIs
  <2>3. state[m] = "none"
    BY <1>3 DEF CompileModule
  <2>4. CASE i = n+1
    BY <2>1, <2>3, <2>4 DEF Starts
  <2>5. CASE i = n
    BY <2>1, <2>2, <2>5 DEF SameText
  <2>6. CASE i \in 1 .. n-1
    BY <2>1, <2>2, <2>6 DEF SameText
  <2> QED BY <2>1, <2>2, <2>4, <2>5, <2>6
<1>4. CASE EndModule
  <2>1. /\ Len(compilers) > 1 /\ Len(compilers') = Len(compilers) - 1
        /\ \A j \in 1 .. Len(compilers)-1 : compilers'[j] = compilers[j]
        /\ compilers # <<>>
    BY <1>4, EndModuleShape
  <2>2. i \in 1 .. Len(compilers)-1 /\ i \in 1 .. Len(compilers)
    BY <2>1, TopIs
  <2> QED BY <2>1, <2>2 DEF SameText
<1>5. CASE EndLine
  <2>1. Len(compilers') = 0
    BY <1>5 DEF EndLine
  <2> QED BY <2>1
<1>6. CASE ExecuteDefine
  BY <1>6, <1>same DEF ExecuteDefine
<1>7. CASE ExecuteGet
  BY <1>7, <1>same DEF ExecuteGet, Panic
<1>8. CASE ExecuteUse
  BY <1>8, <1>same DEF ExecuteUse, Panic
<1>9. CASE ExecuteFinishUse
  BY <1>9, <1>same DEF ExecuteFinishUse, Panic
<1>10. CASE Return
  BY <1>10, <1>same DEF Return
<1> QED BY <1>1, <1>2, <1>3, <1>4, <1>5, <1>6, <1>7, <1>8, <1>9, <1>10
        DEF Next, Declares

\* An activation waits (and, when the one it started has returned, is at work
\* again), executes an instruction, or is new.
Waits(i) == /\ i \in 1 .. Len(runs)-1 /\ i \in 1 .. Len(runs)
            /\ runs'[i] = runs[i]
            /\ i = Len(runs') => Return /\ Len(runs) = i+1

Works(i) == /\ i = Len(runs) /\ i \in 1 .. Len(runs) /\ runs # <<>>
            /\ \E op : Executes(op)
            /\ runs'[i].module = Run.module /\ runs'[i].code = Run.code
            /\ runs'[i].pc = Run.pc + 1

BeginsLine(i) ==
    /\ EndLine /\ Top.ok /\ compilers # <<>> /\ i = 1 /\ Len(runs') = 1
    /\ runs'[i] = [module |-> Main, code |-> Top.code, pc |-> 1]

BeginsFile(i) ==
    LET m == Instruction.from
    IN  /\ Executes("use") /\ ExecuteUse /\ i = Len(runs) + 1 /\ Len(runs') = i
        /\ m \in File /\ state[m] = "loaded" /\ state' = state
        /\ room' = [room EXCEPT ![m] = IF @ = 0 THEN count[m] ELSE @]
        /\ runs'[i] = [module |-> m, code |-> closure[m], pc |-> 1]

\* An activation waits, works, or begins a line or a file.
LEMMA RunsStep ==
    ASSUME TypeInv, CompilersInv, Next, NEW i \in 1 .. Len(runs')
    PROVE  Waits(i) \/ Works(i) \/ BeginsLine(i) \/ BeginsFile(i)
<1> DEFINE Goal == Waits(i) \/ Works(i) \/ BeginsLine(i) \/ BeginsFile(i)
<1>none. ASSUME runs = <<>>, runs' = runs PROVE FALSE
  <2>1. Len(runs') = 0
    BY <1>none
  <2> QED BY <2>1
<1>a. ASSUME NEW op, Executes(op), runs' = Advanced PROVE Goal
  <2>1. runs # <<>>
    BY <1>a DEF Executes
  <2>2. /\ Len(runs') = Len(runs) /\ runs'[Len(runs)].module = Run.module
        /\ runs'[Len(runs)].code = Run.code /\ runs'[Len(runs)].pc = Run.pc + 1
        /\ \A j \in 1 .. Len(runs)-1 : runs'[j] = runs[j]
    BY <1>a, <2>1, AdvancedShape
  <2>3. Len(runs) \in Nat \ {0}
    BY <2>1, RunIs
  <2>4. CASE i = Len(runs)
    BY <1>a, <2>1, <2>2, <2>3, <2>4 DEF Works
  <2>5. CASE i # Len(runs)
    <3>1. i \in 1 .. Len(runs)-1 /\ i \in 1 .. Len(runs) /\ i # Len(runs')
      BY <2>2, <2>3, <2>5
    <3> QED BY <2>2, <3>1 DEF Waits
  <2> QED BY <2>4, <2>5
<1>p. ASSUME Panic PROVE FALSE
  <2>1. Len(runs') = 0
    BY <1>p DEF Panic
  <2> QED BY <2>1
<1>1. CASE Interpret
  BY <1>1, <1>none DEF Interpret, Idle
<1>2. CASE Declares
  <2>1. PICK d \in CompilerState : Edits(d)
    BY <1>2, DeclareStep
  <2> QED BY <2>1, <1>none, CompilingRunsNothing DEF Edits, OnlyCompiles
<1>3. ASSUME NEW m \in File, NEW x \in Name, CompileModule(m, x) PROVE Goal
  BY <1>3, <1>none, CompilingRunsNothing DEF CompileModule, Declaring
<1>4. CASE EndModule
  <2>1. compilers # <<>>
    BY <1>4, EndModuleShape
  <2> QED BY <1>4, <2>1, <1>none, CompilingRunsNothing DEF EndModule
<1>5. CASE EndLine
  <2>1. compilers # <<>>
    BY <1>5 DEF EndLine
  <2>2. runs = <<>>
    BY <2>1, CompilingRunsNothing
  <2>3. CASE UNCHANGED runs
    BY <2>2, <2>3, <1>none
  <2>4. CASE Top.ok /\ runs' = <<[module |-> Main, code |-> Top.code, pc |-> 1]>>
    <3>1. Len(runs') = 1 /\ i = 1
      BY <2>4
    <3>2. runs'[1] = [module |-> Main, code |-> Top.code, pc |-> 1]
      BY <2>4
    <3> QED BY <1>5, <2>1, <2>4, <3>1, <3>2 DEF BeginsLine
  <2> QED BY <1>5, <2>3, <2>4 DEF EndLine
<1>6. CASE ExecuteDefine
  BY <1>6, <1>a DEF ExecuteDefine
<1>7. CASE ExecuteGet
  BY <1>7, <1>a, <1>p DEF ExecuteGet
<1>8. CASE ExecuteUse
  <2> DEFINE m == Instruction.from
             new == [module |-> m, code |-> closure[m], pc |-> 1]
  <2>1. Executes("use") /\ runs # <<>> /\ m \in File
    BY <1>8, ExecutesIs DEF ExecuteUse
  <2>2. CASE /\ state[m] = "loaded" /\ state' = state
             /\ room' = [room EXCEPT ![m] = IF @ = 0 THEN count[m] ELSE @]
             /\ runs' = Append(Advanced, new)
    <3>1. m \in Module
      BY <2>1 DEF Module
    <3>2. /\ Len(runs') = Len(runs) + 1 /\ runs'[Len(runs) + 1] = new
          /\ \A j \in 1 .. Len(runs) : runs'[j] = Advanced[j]
      BY <2>1, <2>2, <3>1, EnterShape
    <3>3. /\ Advanced[Len(runs)].module = Run.module /\ Advanced[Len(runs)].code = Run.code
          /\ Advanced[Len(runs)].pc = Run.pc + 1
          /\ \A j \in 1 .. Len(runs)-1 : Advanced[j] = runs[j]
      BY <2>1, AdvancedShape
    <3>4. Len(runs) \in Nat \ {0}
      BY <2>1, RunIs
    <3>5. CASE i = Len(runs) + 1
      BY <1>8, <2>1, <2>2, <3>2, <3>5 DEF BeginsFile
    <3>6. CASE i = Len(runs)
      <4>1. runs'[i] = Advanced[i] /\ i \in 1 .. Len(runs)
        BY <3>2, <3>4, <3>6
      <4> QED BY <2>1, <3>3, <3>6, <4>1 DEF Works
    <3>7. CASE i \in 1 .. Len(runs)-1
      <4>1. i \in 1 .. Len(runs) /\ i # Len(runs')
        BY <3>2, <3>4, <3>7
      <4> QED BY <3>2, <3>3, <3>7, <4>1 DEF Waits
    <3> QED BY <3>2, <3>4, <3>5, <3>6, <3>7
  <2>3. CASE runs' = Advanced
    BY <2>1, <2>3, <1>a
  <2> QED BY <1>8, <2>2, <2>3, <1>p DEF ExecuteUse
<1>9. CASE ExecuteFinishUse
  BY <1>9, <1>a, <1>p DEF ExecuteFinishUse
<1>10. CASE Return
  <2>1. /\ runs # <<>> /\ Len(runs') = Len(runs) - 1
        /\ \A j \in 1 .. Len(runs)-1 : runs'[j] = runs[j]
    BY <1>10, ReturnShape
  <2>2. Len(runs) \in Nat \ {0}
    BY <2>1, RunIs
  <2>3. i \in 1 .. Len(runs)-1 /\ i \in 1 .. Len(runs)
    BY <2>1, <2>2
  <2>4. i = Len(runs') => Len(runs) = i+1
    BY <2>1, <2>2
  <2> QED BY <1>10, <2>1, <2>3, <2>4 DEF Waits
<1> QED BY <1>1, <1>2, <1>3, <1>4, <1>5, <1>6, <1>7, <1>8, <1>9, <1>10
        DEF Next, Declares

-----------------------------------------------------------------------------
(***************************************************************************)
(* Readiness of what is imported.                                          *)
(***************************************************************************)
ReadyFiles == {m \in File : state[m] \in Ready}
ExecutedFiles == {m \in File : state[m] = "executed"}

UsesOnly(code, files) ==
    \A i \in 1 .. Len(code) : code[i].op = "use" => code[i].from \in files

\* A text without errors uses files whose code may run.
TextsAreReady ==
    \A i \in 1 .. Len(compilers) : compilers[i].ok
      => UsesOnly(compilers[i].code, ReadyFiles)

FilesAreReady ==
    \A m \in File : /\ state[m] \in Ready => UsesOnly(closure[m], ReadyFiles)
                    /\ state[m] = "executed" => UsesOnly(closure[m], ExecutedFiles)

\* An activation has run every file whose use it has executed, but for the one
\* that it waits for.
RunsAreReady ==
    \A i \in 1 .. Len(runs) :
       /\ UsesOnly(runs[i].code, ReadyFiles)
       /\ \A j \in 1 .. Len(runs[i].code) :
             j < runs[i].pc /\ runs[i].code[j].op = "use" =>
                \/ state[runs[i].code[j].from] = "executed"
                \/ i < Len(runs) /\ j = runs[i].pc - 1

ReadyInv == TextsAreReady /\ FilesAreReady /\ RunsAreReady

\* The files that a code uses, and the end of a text.
LEMMA UsesAreFiles ==
    ASSUME NEW code \in Code, NEW i \in 1 .. Len(code)
    PROVE  code[i].op = "use" => code[i].from \in File
<1>1. code[i] \in Instructions
  BY ElementOfSeq DEF Code
<1> QED BY <1>1 DEF Instructions, Defines, CoreDefines, Gets, Uses, Finishes

\* A new compiler has at most defined the core function.
LEMMA CompilerCode ==
    ASSUME NEW m \in Module
    PROVE  \A i \in 1 .. Len(Compiler(m).code) :
              i = 1 /\ Compiler(m).code[i] = Define(Core, count[m], FALSE)
<1> DEFINE e == Define(Core, count[m], FALSE)
<1>1. Compiler(m).code = <<>> \/ Compiler(m).code = <<e>>
  BY DEF Compiler
<1> HIDE DEF e
<1>2. ASSUME NEW code, code = <<>>
      PROVE  \A i \in 1 .. Len(code) : i = 1 /\ code[i] = e
  <2>1. Len(code) = 0
    BY <1>2
  <2> QED BY <2>1
<1>3. ASSUME NEW code, code = <<e>>
      PROVE  \A i \in 1 .. Len(code) : i = 1 /\ code[i] = e
  <2>1. Len(code) = 1 /\ code[1] = e
    BY <1>3
  <2> QED BY <2>1
<1> QED BY <1>1, <1>2, <1>3 DEF e

\* What a declaration adds to the text.
Fresh(e, d) ==
    \/ /\ e.op = "define" /\ e.index = Top.count /\ d.count = Top.count + 1
       /\ MayDeclare
    \/ e.op = "get"
    \/ e.op = "use" /\ e.from \in ReadyFiles
    \/ /\ e.op = "finish" /\ e.index = Top.count /\ d.count = Top.count + 1
       /\ MayDeclare

\* ... and the text before it stays.
LEMMA EditsCode ==
    ASSUME TypeInv, CompilersInv, NEW d \in CompilerState, Edits(d), EditsText(d)
    PROVE  /\ Top.ok /\ d.count \in {Top.count, Top.count + 1}
           /\ \A i \in 1 .. Len(d.code) :
                  \/ i \in 1 .. Len(Top.code) /\ d.code[i] = Top.code[i]
                  \/ i \notin 1 .. Len(Top.code) /\ Fresh(d.code[i], d)
<1> DEFINE n == Len(Top.code)
           Goal == \A i \in 1 .. Len(d.code) :
                       \/ i \in 1 .. n /\ d.code[i] = Top.code[i]
                       \/ i \notin 1 .. n /\ Fresh(d.code[i], d)
<1>1. Top \in CompilerState /\ compilers # <<>>
  BY TopIs DEF Edits
<1>2. Top.code \in Code /\ Top.count \in Nat /\ n \in Nat
  BY <1>1, LenProperties DEF CompilerState, Code
<1>a. ASSUME NEW e \in Instructions, d.code = Append(Top.code, e), Fresh(e, d) PROVE Goal
  <2>1. /\ Len(d.code) = n + 1 /\ d.code[n + 1] = e
        /\ \A i \in 1 .. n : d.code[i] = Top.code[i]
    BY <1>2, <1>a, StackPush DEF Code
  <2> QED BY <1>2, <1>a, <2>1
<1>3. ASSUME NEW x \in Name, NEW public \in BOOLEAN, MayDeclare, Adds(d, x),
             d.code = Append(Top.code, Define(x, Top.count, public))
      PROVE  Goal
  <2>1. Define(x, Top.count, public) \in Instructions
    BY <1>2, InstructionTypes
  <2>2. Fresh(Define(x, Top.count, public), d)
    BY <1>3 DEF Define, Fresh, Adds
  <2> QED BY <1>3, <1>a, <2>1, <2>2
<1>4. ASSUME NEW x \in GlobalName, NEW i \in Nat, d.code = Append(Top.code, Get(x, i))
      PROVE  Goal
  <2>1. Get(x, i) \in Instructions
    BY InstructionTypes
  <2>2. Fresh(Get(x, i), d)
    BY DEF Get, Fresh
  <2> QED BY <1>4, <1>a, <2>1, <2>2
<1>5. ASSUME NEW m \in File, NEW x \in Name, MayDeclare, Adds(d, x),
             state[m] \notin {"error", "loading"}, state[m] = "none" => Top.using.from = m,
             d.code = Top.code \o <<UseModule(m), FinishUse(m, x, Top.count)>>
      PROVE  Goal
  <2> DEFINE e == UseModule(m)
             f == FinishUse(m, x, Top.count)
  <2>1. e \in Instructions /\ f \in Instructions
    BY <1>2, InstructionTypes
  <2>2. state[m] \in Ready
    <3>1. state[m] \in {"none", "loading", "loaded", "error", "executed"}
      BY DEF TypeInv, Module
    <3> QED BY <1>1, <1>5, <3>1 DEF CompilersInv, Encloses, Ready
  <2>3. Fresh(e, d) /\ Fresh(f, d)
    BY <1>5, <2>2 DEF UseModule, FinishUse, Fresh, Adds, ReadyFiles
  <2>4. d.code = Top.code \o <<e, f>>
    BY <1>5
  <2> HIDE DEF e, f
  <2>5. /\ Len(d.code) = n + 2 /\ d.code[n + 1] = e /\ d.code[n + 2] = f
        /\ \A i \in 1 .. n : d.code[i] = Top.code[i]
    BY <1>2, <2>1, <2>4, StackPushTwo DEF Code
  <2> QED BY <1>2, <2>3, <2>5
<1>6. Goal
  BY <1>3, <1>4, <1>5 DEF EditsText
<1>7. Top.ok /\ d.count \in {Top.count, Top.count + 1}
  BY DEF EditsText, Adds
<1> QED BY <1>6, <1>7

\* Every step keeps what is imported ready.
LEMMA ReadyInvInductive ==
    TypeInv /\ TypeInv' /\ CompilersInv /\ RunsInv /\ ReadyInv /\ [Next]_vars => ReadyInv'
<1> SUFFICES ASSUME TypeInv, TypeInv', CompilersInv, RunsInv, ReadyInv, [Next]_vars
             PROVE  ReadyInv'
  OBVIOUS
<1>0. CASE UNCHANGED vars
  BY <1>0 DEF vars, moduleVars, ReadyInv, TextsAreReady, FilesAreReady, RunsAreReady,
              UsesOnly, ReadyFiles, ExecutedFiles
<1>n. CASE Next
  <2>f. \A m \in File : /\ state[m] \in Ready => state'[m] \in Ready
                        /\ state[m] = "executed" => state'[m] = "executed"
    BY <1>n, FileStep
  <2>g. ReadyFiles \subseteq ReadyFiles' /\ ExecutedFiles \subseteq ExecutedFiles'
    BY <2>f DEF ReadyFiles, ExecutedFiles
  <2>u. ASSUME NEW code, UsesOnly(code, ReadyFiles) PROVE UsesOnly(code, ReadyFiles')
    BY <2>g, <2>u DEF UsesOnly
  <2>x. ASSUME NEW code, UsesOnly(code, ExecutedFiles)
        PROVE  UsesOnly(code, ExecutedFiles')
    BY <2>g, <2>x DEF UsesOnly
  <2>c. \A i \in 1 .. Len(compilers) : compilers[i] \in CompilerState
          /\ compilers[i].code \in Code
    <3>1. \A i \in 1 .. Len(compilers) : compilers[i] \in CompilerState
      BY ElementOfSeq DEF TypeInv
    <3> QED BY <3>1 DEF CompilerState
  <2>r. \A i \in 1 .. Len(runs) : /\ runs[i] \in Activation /\ runs[i].code \in Code
                                  /\ runs[i].pc \in Nat
    <3>1. \A i \in 1 .. Len(runs) : runs[i] \in Activation
      BY ElementOfSeq DEF TypeInv
    <3> QED BY <3>1 DEF Activation
  <2>1. TextsAreReady'
    <3> SUFFICES ASSUME NEW i \in 1 .. Len(compilers'), compilers'[i].ok
                 PROVE  UsesOnly(compilers'[i].code, ReadyFiles')
      BY DEF TextsAreReady
    <3>1. CASE i \in 1 .. Len(compilers) /\ SameText(compilers'[i], compilers[i])
      <4>1. compilers'[i].code = compilers[i].code
              /\ UsesOnly(compilers[i].code, ReadyFiles)
        BY <3>1 DEF SameText, ReadyInv, TextsAreReady
      <4>2. compilers[i].code \in Code
        BY <2>c, <3>1
      <4> QED BY <2>u, <4>1, <4>2
    <3>2. CASE /\ i = Len(compilers) /\ i \in 1 .. Len(compilers)
               /\ compilers'[i] \in CompilerState
               /\ Edits(compilers'[i])
               /\ compilers'[i].ok => EditsText(compilers'[i])
      <4> DEFINE d == compilers'[i]
      <4>1. /\ Top.ok
            /\ \A j \in 1 .. Len(d.code) :
                   \/ j \in 1 .. Len(Top.code) /\ d.code[j] = Top.code[j]
                   \/ j \notin 1 .. Len(Top.code) /\ Fresh(d.code[j], d)
        BY <3>2, EditsCode
      <4>2. Top = compilers[i]
        BY <3>2, TopIs DEF Edits
      <4>3. UsesOnly(Top.code, ReadyFiles)
        BY <3>2, <4>1, <4>2 DEF ReadyInv, TextsAreReady
      <4>4. UsesOnly(d.code, ReadyFiles)
        BY <4>1, <4>3 DEF UsesOnly, Fresh, ReadyFiles
      <4>5. d.code \in Code
        BY <3>2 DEF CompilerState
      <4> QED BY <2>u, <4>4, <4>5
    <3>3. CASE Starts(compilers'[i])
      <4>1. PICK m \in Module : compilers'[i] = Compiler(m)
        BY <3>3 DEF Starts, Module
      <4>2. \A j \in 1 .. Len(compilers'[i].code) : compilers'[i].code[j].op # "use"
        <5>1. Define(Core, count[m], FALSE).op # "use"
          BY DEF Define
        <5> QED BY <4>1, <5>1, CompilerCode
      <4> QED BY <4>2 DEF UsesOnly
    <3> QED BY <1>n, <3>1, <3>2, <3>3, CompilersStep
  <2>2. FilesAreReady'
    <3> SUFFICES ASSUME NEW m \in File
                 PROVE  /\ state'[m] \in Ready => UsesOnly(closure'[m], ReadyFiles')
                        /\ state'[m] = "executed" => UsesOnly(closure'[m], ExecutedFiles')
      BY DEF FilesAreReady
    <3>t. closure[m] \in Code /\ m \in Module
      BY DEF TypeInv, Module
    <3>1. CASE state[m] \in Ready
      <4>1. closure'[m] = closure[m] /\ UsesOnly(closure[m], ReadyFiles)
        BY <1>n, <3>1, FileStep DEF ReadyInv, FilesAreReady
      <4>2. UsesOnly(closure'[m], ReadyFiles')
        BY <2>u, <3>t, <4>1
      <4>3. CASE state[m] = "executed"
        <5>1. UsesOnly(closure[m], ExecutedFiles)
          BY <4>3 DEF ReadyInv, FilesAreReady
        <5> QED BY <2>x, <3>t, <4>1, <4>2, <5>1
      <4>4. CASE state[m] # "executed" /\ state'[m] = "executed"
        <5>1. Return /\ Run.module = m
          BY <1>n, <4>4, FileStep
        <5> DEFINE n == Len(runs)
        <5>2. runs # <<>> /\ Run.pc > Len(Run.code)
          BY <5>1 DEF Return
        <5>3. n \in Nat \ {0} /\ n \in 1 .. n /\ Run = runs[n] /\ Run \in Activation
          BY <5>2, RunIs
        <5>4. n # 1
          BY <5>1, <5>3, NamesAssumption DEF RunsInv, Nested
        <5>n. n = Len(runs)
          OBVIOUS
        <5> HIDE DEF n
        <5>5. n \in 2 .. n
          BY <5>3, <5>4
        <5>6. Run.code = closure[m]
          BY <5>1, <5>3, <5>5, <5>n DEF RunsInv, Nested
        <5>7. \A j \in 1 .. Len(Run.code) : j < Run.pc
          <6>1. Len(Run.code) \in Nat /\ Run.pc \in Nat
            BY <5>3, LenProperties DEF Activation, Code
          <6> QED BY <5>2, <6>1
        <5>8. UsesOnly(Run.code, ExecutedFiles)
          <6>1. UsesOnly(Run.code, ReadyFiles)
            BY <5>3, <5>n DEF ReadyInv, RunsAreReady
          <6>2. \A j \in 1 .. Len(Run.code) :
                   Run.code[j].op = "use" => state[Run.code[j].from] = "executed"
            BY <5>3, <5>7, <5>n DEF ReadyInv, RunsAreReady
          <6> QED BY <6>1, <6>2 DEF UsesOnly, ReadyFiles, ExecutedFiles
        <5> QED BY <2>x, <3>t, <4>1, <4>2, <5>6, <5>8
      <4> QED BY <4>2, <4>3, <4>4
    <3>2. CASE state[m] \notin Ready /\ state'[m] \in Ready
      <4>1. EndModule /\ Top.ok /\ state'[m] = "loaded" /\ closure'[m] = Top.code
        BY <1>n, <3>2, FileStep
      <4>2. compilers # <<>>
        BY <4>1, EndModuleShape
      <4>3. Top = compilers[Len(compilers)] /\ Len(compilers) \in 1 .. Len(compilers)
        BY <4>2, TopIs
      <4>4. UsesOnly(Top.code, ReadyFiles) /\ Top.code \in Code
        BY <2>c, <4>1, <4>3 DEF ReadyInv, TextsAreReady
      <4> QED BY <2>u, <4>1, <4>4
    <3>3. CASE state'[m] \notin Ready
      BY <3>3 DEF Ready
    <3> QED BY <3>1, <3>2, <3>3
  <2>3. RunsAreReady'
    <3> DEFINE Done(i) == \A j \in 1 .. Len(runs'[i].code) :
                   j < runs'[i].pc /\ runs'[i].code[j].op = "use" =>
                      \/ state'[runs'[i].code[j].from] = "executed"
                      \/ i < Len(runs') /\ j = runs'[i].pc - 1
    <3> SUFFICES ASSUME NEW i \in 1 .. Len(runs')
                 PROVE  UsesOnly(runs'[i].code, ReadyFiles') /\ Done(i)
      BY DEF RunsAreReady
    <3>1. CASE Waits(i)
      <4>1. /\ i \in 1 .. Len(runs) /\ runs'[i] = runs[i] /\ i \in 1 .. Len(runs)-1
            /\ runs[i].code \in Code
        BY <2>r, <3>1 DEF Waits
      <4>2. UsesOnly(runs[i].code, ReadyFiles)
        BY <4>1 DEF ReadyInv, RunsAreReady
      <4>3. UsesOnly(runs'[i].code, ReadyFiles')
        BY <2>u, <4>1, <4>2
      <4> SUFFICES ASSUME NEW j \in 1 .. Len(runs[i].code),
                          j < runs[i].pc, runs[i].code[j].op = "use",
                          ~ (i < Len(runs') /\ j = runs[i].pc - 1)
                   PROVE  state'[runs[i].code[j].from] = "executed"
        BY <4>1, <4>3
      <4>4. runs[i].code[j].from \in File
        BY <4>1, UsesAreFiles
      <4>5. CASE state[runs[i].code[j].from] = "executed"
        BY <2>f, <4>4, <4>5
      <4>6. CASE state[runs[i].code[j].from] # "executed"
        <5>1. j = runs[i].pc - 1
          BY <4>1, <4>6 DEF ReadyInv, RunsAreReady
        <5>2. i = Len(runs')
          <6>1. Len(runs') \in Nat
            BY LenProperties DEF TypeInv
          <6> QED BY <5>1, <6>1
        <5>3. Return /\ Len(runs) = i+1 /\ i+1 \in 1 .. Len(runs)
          BY <3>1, <4>1, <5>2 DEF Waits
        <5>4. runs[i].code[j] = UseModule(runs[i+1].module)
          BY <4>1, <5>1 DEF RunsInv, Nested
        <5>5. runs[i].code[j].from = runs[i+1].module
          BY <5>4 DEF UseModule
        <5>6. Run = runs[i+1] /\ Run.module \in Module
          <6>1. runs # <<>>
            BY <5>3 DEF Return
          <6> QED BY <5>3, <6>1, RunIs DEF Activation
        <5>7. Run.module # Main
          BY <4>4, <5>5, <5>6, NamesAssumption
        <5>8. state' = [state EXCEPT ![Run.module] = "executed"]
          BY <5>3, <5>7 DEF Return
        <5> QED BY <5>5, <5>6, <5>8 DEF TypeInv
      <4> QED BY <4>5, <4>6
    <3>2. CASE Works(i)
      <4>1. /\ i = Len(runs) /\ i \in 1 .. Len(runs) /\ runs # <<>>
            /\ runs'[i].code = Run.code /\ runs'[i].pc = Run.pc + 1
        BY <3>2 DEF Works
      <4>2. Run = runs[i] /\ Run.code \in Code /\ Run.pc \in Nat
        BY <2>r, <4>1, RunIs
      <4>3. UsesOnly(Run.code, ReadyFiles)
        BY <4>1, <4>2 DEF ReadyInv, RunsAreReady
      <4>4. UsesOnly(runs'[i].code, ReadyFiles')
        BY <2>u, <4>1, <4>2, <4>3
      <4>a. Run.pc + 1 - 1 = Run.pc
        BY <4>2
      <4> SUFFICES ASSUME NEW j \in 1 .. Len(Run.code),
                          j < Run.pc + 1, Run.code[j].op = "use"
                   PROVE  \/ state'[Run.code[j].from] = "executed"
                          \/ i < Len(runs') /\ j = Run.pc
        BY <4>1, <4>4, <4>a
      <4>5. Run.code[j].from \in File
        BY <4>2, UsesAreFiles
      <4>6. CASE j < Run.pc
        <5>1. state[Run.code[j].from] = "executed"
          BY <4>1, <4>2, <4>6 DEF ReadyInv, RunsAreReady
        <5> QED BY <2>f, <4>5, <5>1
      <4>7. CASE j = Run.pc
        <5>1. PICK op : Executes(op)
          BY <3>2 DEF Works
        <5>2. Executes("use") /\ Instruction = Run.code[j]
          BY <4>7, <5>1 DEF Executes, Instruction
        <5>3. ExecuteUse
          <6>1. ~ Executes("define") /\ ~ Executes("get") /\ ~ Executes("finish")
            BY <5>2 DEF Executes
          <6>2. ~ Return
            BY <4>2, <4>7 DEF Return
          <6>3. compilers = <<>>
            BY <4>1, RunningCompilesNothing
          <6>4. ~ Interpret
            BY <4>1 DEF Interpret, Idle
          <6>5. ~ Declares
            BY <6>3 DEF Declares, CompileDefinition, CompileRead, CompileError, CompileUse,
                        Declaring
          <6>6. \A m \in File, x \in Name : ~ CompileModule(m, x)
            BY <6>3 DEF CompileModule, Declaring
          <6>7. Len(compilers) = 0
            BY <6>3
          <6>8. ~ EndModule /\ ~ EndLine
            BY <6>7 DEF EndModule, EndLine
          <6> QED BY <1>n, <6>1, <6>2, <6>4, <6>5, <6>6, <6>8
                  DEF Next, Declares, ExecuteDefine, ExecuteGet, ExecuteFinishUse
        <5>4. Len(runs') # 0
          BY <4>1
        <5>5. ~ Panic
          <6>1. Panic => runs' = <<>>
            BY DEF Panic
          <6> QED BY <5>4, <6>1
        <5>6. CASE runs' = Append(Advanced, [module |-> Instruction.from,
                                             code |-> closure[Instruction.from], pc |-> 1])
          <6>1. Instruction.from \in Module
            BY <4>5, <5>2 DEF Module
          <6>2. Len(runs') = Len(runs) + 1
            BY <4>1, <5>6, <6>1, EnterShape
          <6> QED BY <4>1, <4>2, <4>7, <6>2
        <5>7. CASE state[Instruction.from] # "loaded" /\ UNCHANGED state
          <6>1. state[Run.code[j].from] \in Ready
            BY <4>3, <4>7 DEF UsesOnly, ReadyFiles
          <6> QED BY <5>2, <5>7, <6>1 DEF Ready
        <5> QED BY <5>3, <5>5, <5>6, <5>7 DEF ExecuteUse
      <4> QED BY <4>2, <4>6, <4>7
    <3>3. CASE BeginsLine(i)
      <4>1. /\ runs'[i] = [module |-> Main, code |-> Top.code, pc |-> 1]
            /\ Top.ok /\ compilers # <<>>
        BY <3>3 DEF BeginsLine
      <4>2. Top = compilers[Len(compilers)] /\ Len(compilers) \in 1 .. Len(compilers)
        BY <4>1, TopIs
      <4>3. UsesOnly(Top.code, ReadyFiles) /\ Top.code \in Code
        BY <2>c, <4>1, <4>2 DEF ReadyInv, TextsAreReady
      <4>4. UsesOnly(runs'[i].code, ReadyFiles')
        BY <2>u, <4>1, <4>3
      <4>5. runs'[i].pc = 1 /\ \A j \in 1 .. Len(runs'[i].code) : ~ (j < 1)
        BY <4>1
      <4> QED BY <4>4, <4>5
    <3>4. CASE BeginsFile(i)
      <4> DEFINE m == Instruction.from
      <4>1. /\ runs'[i] = [module |-> m, code |-> closure[m], pc |-> 1]
            /\ m \in File /\ state[m] = "loaded"
        BY <3>4 DEF BeginsFile
      <4>2. UsesOnly(closure[m], ReadyFiles) /\ closure[m] \in Code
        BY <4>1 DEF ReadyInv, FilesAreReady, Ready, TypeInv, Module
      <4>3. UsesOnly(runs'[i].code, ReadyFiles')
        BY <2>u, <4>1, <4>2
      <4>4. runs'[i].pc = 1 /\ \A j \in 1 .. Len(runs'[i].code) : ~ (j < 1)
        BY <4>1
      <4> QED BY <4>3, <4>4
    <3> QED BY <1>n, <3>1, <3>2, <3>3, <3>4, RunsStep
  <2> QED BY <2>1, <2>2, <2>3 DEF ReadyInv
<1> QED BY <1>0, <1>n

-----------------------------------------------------------------------------
(***************************************************************************)
(* No circle among files whose code may run.                               *)
(***************************************************************************)
\* The files can be ranked above those they use: by when their compilations ended.
Ranks(rank, bound) ==
    /\ \A m \in File : state[m] \in Ready => rank[m] < bound
    /\ \A m \in File : state[m] \in Ready =>
          \A i \in 1 .. Len(closure[m]) :
             closure[m][i].op = "use" => rank[closure[m][i].from] < rank[m]
    /\ \A i, j \in 2 .. Len(runs) :
          i < j => rank[runs[j].module] < rank[runs[i].module]

Ranked == \E rank \in [File -> Nat], bound \in Nat : Ranks(rank, bound)

\* The file that the activation at work uses ranks below all that are running.
LEMMA UsedRanksBelow ==
    ASSUME TypeInv, RunsInv, NEW rank \in [File -> Nat], NEW bound \in Nat,
           Ranks(rank, bound), Executes("use"),
           NEW i \in 2 .. Len(runs)
    PROVE  /\ runs[i].module \in File
           /\ rank[Instruction.from] < rank[runs[i].module]
<1> DEFINE n == Len(runs)
           m == Instruction.from
<1>1. /\ runs # <<>> /\ Run.pc \in 1 .. Len(Run.code)
      /\ Instruction = Run.code[Run.pc] /\ Instruction.op = "use" /\ m \in File
  BY ExecutesIs
<1>2. n \in Nat \ {0} /\ Run = runs[n]
  BY <1>1, RunIs
<1>n. n = Len(runs)
  OBVIOUS
<1> HIDE DEF n, m
<1>m. m = Instruction.from
  BY DEF m
<1>3. \A j \in 2 .. n : runs[j].module \in File /\ runs[j].code = closure[runs[j].module]
                        /\ state[runs[j].module] = "loaded"
  <2> SUFFICES ASSUME NEW j \in 2 .. n
               PROVE  runs[j].module \in File /\ runs[j].code = closure[runs[j].module]
                      /\ state[runs[j].module] = "loaded"
    OBVIOUS
  <2>1. j \in 1 .. n /\ j # 1
    BY <1>2
  <2>2. runs[j].module \in Module
    <3>1. runs[j] \in Activation
      BY <1>n, <2>1, ElementOfSeq DEF TypeInv
    <3> QED BY <3>1 DEF Activation
  <2> QED BY <1>n, <2>1, <2>2 DEF RunsInv, Nested, Module
<1>4. n \in 2 .. n
  BY <1>2, <1>n
<1>5. rank[m] < rank[runs[n].module]
  <2>1. closure[runs[n].module][Run.pc].op = "use"
          /\ Run.pc \in 1 .. Len(closure[runs[n].module])
        /\ closure[runs[n].module][Run.pc].from = m
    BY <1>1, <1>2, <1>3, <1>4, <1>m
  <2>2. state[runs[n].module] \in Ready /\ runs[n].module \in File
    BY <1>3, <1>4 DEF Ready
  <2> QED BY <2>1, <2>2 DEF Ranks
<1>6. CASE i = n
  BY <1>3, <1>4, <1>5, <1>6, <1>m
<1>7. CASE i # n
  <2>1. i \in 2 .. n /\ i < n
    BY <1>2, <1>7, <1>n
  <2>2. rank[runs[n].module] < rank[runs[i].module]
    BY <1>4, <1>n, <2>1 DEF Ranks
  <2>3. /\ rank[m] \in Nat /\ rank[runs[n].module] \in Nat /\ rank[runs[i].module] \in Nat
        /\ runs[i].module \in File
    BY <1>1, <1>3, <1>4, <2>1
  <2> QED BY <1>5, <1>m, <2>2, <2>3
<1> QED BY <1>6, <1>7

\* A file that becomes loaded ranks above all that were.
LEMMA RankedInductive ==
    TypeInv /\ TypeInv' /\ CompilersInv /\ RunsInv /\ ReadyInv /\ Ranked /\ [Next]_vars
        => Ranked'
<1> SUFFICES ASSUME TypeInv, TypeInv', CompilersInv, RunsInv, ReadyInv, Ranked, [Next]_vars
             PROVE  Ranked'
  OBVIOUS
<1>0. CASE UNCHANGED vars
  BY <1>0 DEF vars, moduleVars, Ranked, Ranks
<1>n. CASE Next
  <2>1. PICK rank \in [File -> Nat], bound \in Nat : Ranks(rank, bound)
    BY DEF Ranked
  <2>r. \A i, j \in 2 .. Len(runs') :
           i < j => rank[runs'[j].module] < rank[runs'[i].module]
    <3>k. \A i \in 2 .. Len(runs') :
             \/ i \in 2 .. Len(runs) /\ runs'[i].module = runs[i].module
             \/ BeginsFile(i)
      <4> SUFFICES ASSUME NEW i \in 2 .. Len(runs')
                   PROVE  \/ i \in 2 .. Len(runs) /\ runs'[i].module = runs[i].module
                          \/ BeginsFile(i)
        OBVIOUS
      <4>1. i \in 1 .. Len(runs') /\ i >= 2 /\ Len(runs) \in Nat
        BY LenProperties DEF TypeInv
      <4>2. CASE Waits(i)
        BY <4>1, <4>2 DEF Waits
      <4>3. CASE Works(i)
        BY <4>1, <4>3, RunIs DEF Works
      <4>4. CASE BeginsLine(i)
        BY <4>1, <4>4 DEF BeginsLine
      <4> QED BY <1>n, <4>1, <4>2, <4>3, <4>4, RunsStep
    <3> SUFFICES ASSUME NEW i \in 2 .. Len(runs'), NEW j \in 2 .. Len(runs'), i < j
                 PROVE  rank[runs'[j].module] < rank[runs'[i].module]
      OBVIOUS
    <3>1. CASE i \in 2 .. Len(runs) /\ j \in 2 .. Len(runs)
      <4>1. Len(runs) \in Nat /\ \A k \in 2 .. Len(runs) : ~ BeginsFile(k)
        BY LenProperties DEF TypeInv, BeginsFile
      <4> QED BY <2>1, <3>k, <3>1, <4>1 DEF Ranks
    <3>2. CASE BeginsFile(j)
      <4>1. Executes("use") /\ j = Len(runs) + 1 /\ runs'[j].module = Instruction.from
        BY <3>2 DEF BeginsFile
      <4>2. i \in 2 .. Len(runs) /\ ~ BeginsFile(i)
        <5>1. Len(runs) \in Nat
          BY LenProperties DEF TypeInv
        <5> QED BY <4>1, <5>1 DEF BeginsFile
      <4>3. runs'[i].module = runs[i].module
        BY <3>k, <4>2
      <4> QED BY <2>1, <4>1, <4>2, <4>3, UsedRanksBelow
    <3>3. CASE BeginsFile(i)
      BY <3>3, <3>k DEF BeginsFile
    <3> QED BY <3>k, <3>1, <3>2, <3>3
  <2>2. CASE \A m \in File : state'[m] \in Ready => state[m] \in Ready
    <3>1. \A m \in File : state'[m] \in Ready =>
             state[m] \in Ready /\ closure'[m] = closure[m]
      BY <1>n, <2>2, FileStep
    <3>2. Ranks(rank, bound)'
      BY <2>1, <2>r, <3>1 DEF Ranks
    <3> QED BY <3>2 DEF Ranked
  <2>3. ASSUME NEW m \in File, state'[m] \in Ready, state[m] \notin Ready PROVE Ranked'
    <3> DEFINE new == [rank EXCEPT ![m] = bound]
    <3>1. /\ EndModule /\ Top.module = m /\ Top.ok /\ state'[m] = "loaded"
          /\ closure'[m] = Top.code
      BY <1>n, <2>3, FileStep
    <3>2. compilers # <<>>
      BY <3>1, EndModuleShape
    <3>3. Top = compilers[Len(compilers)] /\ Len(compilers) \in 1 .. Len(compilers)
          /\ Top.code \in Code
      BY <3>2, TopIs DEF CompilerState
    <3>4. UsesOnly(Top.code, ReadyFiles)
      BY <3>1, <3>3 DEF ReadyInv, TextsAreReady
    <3>5. \A f \in File : f # m => state'[f] = state[f] /\ closure'[f] = closure[f]
      BY <3>1 DEF EndModule, TypeInv, Module
    <3>6. runs' = <<>>
      BY <3>1, <3>2, CompilingRunsNothing DEF EndModule
    <3>7. new \in [File -> Nat] /\ bound + 1 \in Nat /\ new[m] = bound
          /\ \A f \in File : f # m => new[f] = rank[f]
      OBVIOUS
    <3> HIDE DEF new
    <3>8. \A f \in File : state'[f] \in Ready => new[f] < bound + 1
      <4>1. \A f \in File : f # m /\ state'[f] \in Ready
              => rank[f] < bound /\ rank[f] \in Nat
        BY <2>1, <3>5 DEF Ranks
      <4> QED BY <3>7, <4>1
    <3>9. \A f \in File : state'[f] \in Ready =>
             \A i \in 1 .. Len(closure'[f]) :
                closure'[f][i].op = "use" => new[closure'[f][i].from] < new[f]
      <4> SUFFICES ASSUME NEW f \in File, state'[f] \in Ready,
                          NEW i \in 1 .. Len(closure'[f]), closure'[f][i].op = "use"
                   PROVE  new[closure'[f][i].from] < new[f]
        OBVIOUS
      <4>1. CASE f = m
        <5>1. closure'[f][i].from \in ReadyFiles
          BY <3>1, <3>4, <4>1 DEF UsesOnly
        <5>2. closure'[f][i].from \in File /\ state[closure'[f][i].from] \in Ready
              /\ closure'[f][i].from # m
          BY <2>3, <5>1 DEF ReadyFiles
        <5>3. rank[closure'[f][i].from] < bound
          BY <2>1, <5>2 DEF Ranks
        <5> QED BY <3>7, <4>1, <5>2, <5>3
      <4>2. CASE f # m
        <5>1. state[f] \in Ready /\ closure'[f] = closure[f]
          BY <3>5, <4>2
        <5>2. UsesOnly(closure[f], ReadyFiles)
          BY <5>1 DEF ReadyInv, FilesAreReady
        <5>3. closure[f][i].from \in ReadyFiles
          BY <5>1, <5>2 DEF UsesOnly
        <5>4. closure[f][i].from \in File /\ closure[f][i].from # m
          BY <2>3, <5>3 DEF ReadyFiles
        <5>5. rank[closure[f][i].from] < rank[f]
          BY <2>1, <5>1 DEF Ranks
        <5> QED BY <3>7, <4>2, <5>1, <5>4, <5>5
      <4> QED BY <4>1, <4>2
    <3>10. Len(runs') = 0
      BY <3>6
    <3>11. Ranks(new, bound + 1)'
      BY <3>8, <3>9, <3>10 DEF Ranks
    <3> QED BY <3>7, <3>11 DEF Ranked
  <2> QED BY <2>2, <2>3
<1> QED BY <1>0, <1>n

\* ... so the import stack never holds the file that is used.
LEMMA NoCircles ==
    ASSUME TypeInv, CompilersInv, RunsInv, Ranked
    PROVE  ImportStackIsTheRuns
<1>1. imports \in Seq(File) /\ DOMAIN imports = 1 .. Len(imports) /\ Len(imports) \in Nat
  BY LenProperties DEF TypeInv
<1>2. CASE runs = <<>>
  <2>1. ~ Executes("use")
    BY <1>2 DEF Executes
  <2> QED BY <1>2, <2>1 DEF RunsInv, ImportsAreTheRuns, ImportStackIsTheRuns
<1>3. CASE runs # <<>>
  <2>1. Len(imports) = Len(runs) - 1
          /\ \A i \in 1 .. Len(imports) : imports[i] = runs[i+1].module
    BY <1>3 DEF RunsInv, ImportsAreTheRuns
  <2>2. imports = [i \in 1 .. Len(runs) - 1 |-> runs[i+1].module]
    <3>1. imports = [i \in 1 .. Len(imports) |-> imports[i]]
      BY <1>1
    <3> QED BY <2>1, <3>1
  <2>3. ASSUME Executes("use"), NEW i \in DOMAIN imports PROVE imports[i] # Instruction.from
    <3>1. PICK rank \in [File -> Nat], bound \in Nat : Ranks(rank, bound)
      BY DEF Ranked
    <3>2. i+1 \in 2 .. Len(runs)
      BY <1>1, <2>1
    <3>3. runs[i+1].module \in File /\ rank[Instruction.from] < rank[runs[i+1].module]
      BY <2>3, <3>1, <3>2, UsedRanksBelow
    <3>4. Instruction.from # runs[i+1].module
      BY <3>1, <3>3
    <3> QED BY <1>1, <2>1, <3>4
  <2> QED BY <1>3, <2>2, <2>3 DEF ImportStackIsTheRuns
<1> QED BY <1>2, <1>3

-----------------------------------------------------------------------------
(***************************************************************************)
(* A file runs once.                                                       *)
(***************************************************************************)
\* A file with an array of globals has run, or is running.
HasRun == \A m \in File : ~crashed /\ room[m] # 0 =>
             \/ state[m] = "executed"
             \/ \E i \in 2 .. Len(runs) : runs[i].module = m

\* Arrays are allocated when a file starts, and it leaves the activations executed.
LEMMA HasRunInductive ==
    TypeInv /\ TypeInv' /\ CompilersInv /\ RunsInv /\ HasRun /\ [Next]_vars => HasRun'
<1> SUFFICES ASSUME TypeInv, TypeInv', CompilersInv, RunsInv, HasRun, [Next]_vars,
                    NEW m \in File, ~crashed', room'[m] # 0
             PROVE  \/ state'[m] = "executed"
                    \/ \E i \in 2 .. Len(runs') : runs'[i].module = m
  BY DEF HasRun
<1> DEFINE Goal == \/ state'[m] = "executed"
                   \/ \E i \in 2 .. Len(runs') : runs'[i].module = m
<1>m. m \in Module /\ m # Main /\ Main \in Module
  BY NamesAssumption DEF Module
<1>t. /\ state \in [Module -> {"none", "loading", "loaded", "error", "executed"}]
      /\ room \in [Module -> Nat]
  BY DEF TypeInv
<1>f. Next => (state[m] = "executed" => state'[m] = "executed")
  BY FileStep
<1>same. ASSUME runs' = runs, state'[m] = state[m], room'[m] = room[m], crashed' = crashed
         PROVE  Goal
  BY <1>same DEF HasRun
<1>a. ASSUME runs # <<>>, runs' = Advanced, state' = state, room'[m] = room[m],
               crashed' = crashed
      PROVE  Goal
  <2>1. Len(runs') = Len(runs) /\ \A i \in 1 .. Len(runs) : runs'[i].module = runs[i].module
    <3>1. Len(runs) \in Nat \ {0} /\ Run = runs[Len(runs)]
      BY <1>a, RunIs
    <3> QED BY <1>a, <3>1, AdvancedShape
  <2>2. \A i \in 2 .. Len(runs) : i \in 1 .. Len(runs)
    BY <1>a, RunIs
  <2> QED BY <1>a, <2>1, <2>2 DEF HasRun
<1>p. ASSUME Panic, runs # <<>> PROVE Goal
  <2>1. Run.module = Main
    BY <1>p DEF Panic
  <2>2. Len(runs) = 1
    BY <1>p, <2>1, RunIs DEF RunsInv, Nested
  <2>3. ~crashed /\ room' = room /\ state'[m] = state[m]
    BY <1>p, <1>m, <1>t, <2>1 DEF Panic
  <2> QED BY <2>2, <2>3 DEF HasRun
<1>1. CASE Interpret
  BY <1>1, <1>same DEF Interpret
<1>2. CASE Declares
  <2>1. PICK d \in CompilerState : Edits(d)
    BY <1>2, DeclareStep
  <2> QED BY <2>1, <1>same DEF Edits, OnlyCompiles, moduleVars
<1>3. ASSUME NEW f \in File, NEW x \in Name, CompileModule(f, x) PROVE Goal
  <2>1. runs' = runs /\ room' = room /\ crashed' = crashed
        /\ (state[m] = "executed" => state'[m] = "executed")
    BY <1>3, <1>f DEF CompileModule, Next
  <2> QED BY <2>1 DEF HasRun
<1>4. CASE EndModule
  <2>1. runs' = runs /\ room' = room /\ crashed' = crashed
        /\ (state[m] = "executed" => state'[m] = "executed")
    BY <1>4, <1>f DEF EndModule, Next
  <2> QED BY <2>1 DEF HasRun
<1>5. CASE EndLine
  <2>1. compilers # <<>>
    BY <1>5 DEF EndLine
  <2>2. ~crashed /\ Len(runs) = 0
    BY <2>1, CompilingRunsNothing
  <2>3. room'[m] = room[m] /\ state'[m] = state[m]
    BY <1>5, <1>m, <1>t DEF EndLine
  <2> QED BY <2>2, <2>3 DEF HasRun
<1>6. CASE ExecuteDefine
  BY <1>6, <1>a DEF ExecuteDefine, Executes
<1>7. CASE ExecuteGet
  BY <1>7, <1>a, <1>p DEF ExecuteGet, Executes, moduleVars
<1>8. CASE ExecuteUse
  <2> DEFINE f == Instruction.from
             new == [module |-> f, code |-> closure[f], pc |-> 1]
  <2>1. runs # <<>> /\ f \in File /\ f \in Module
    BY <1>8, ExecutesIs DEF ExecuteUse, Module
  <2>2. CASE /\ room' = [room EXCEPT ![f] = IF @ = 0 THEN count[f] ELSE @]
             /\ runs' = Append(Advanced, new)
             /\ state' = state /\ crashed' = crashed
    <3>1. /\ Len(runs') = Len(runs) + 1 /\ runs'[Len(runs) + 1] = new
          /\ \A i \in 1 .. Len(runs) : runs'[i] = Advanced[i]
      BY <2>1, <2>2, EnterShape
    <3>2. Len(runs) \in Nat \ {0} /\ Run = runs[Len(runs)]
      BY <2>1, RunIs
    <3>3. \A i \in 1 .. Len(runs) : runs'[i].module = runs[i].module
      BY <2>1, <3>1, <3>2, AdvancedShape
    <3>4. CASE f = m
      <4>1. Len(runs) + 1 \in 2 .. Len(runs') /\ runs'[Len(runs) + 1].module = m
        BY <3>1, <3>2, <3>4
      <4> QED BY <4>1
    <3>5. CASE f # m
      <4>1. room'[m] = room[m]
        BY <1>m, <1>t, <2>1, <2>2, <3>5
      <4>2. CASE state[m] = "executed"
        BY <2>2, <4>2
      <4>3. CASE state[m] # "executed"
        <5>1. PICK i \in 2 .. Len(runs) : runs[i].module = m
          BY <2>2, <4>1, <4>3 DEF HasRun
        <5>2. i \in 2 .. Len(runs') /\ runs'[i].module = m
          BY <3>1, <3>2, <3>3, <5>1
        <5> QED BY <5>2
      <4> QED BY <4>2, <4>3
    <3> QED BY <3>4, <3>5
  <2>3. CASE runs' = Advanced /\ state' = state /\ room' = room /\ crashed' = crashed
    BY <2>1, <2>3, <1>a
  <2> QED BY <1>8, <2>1, <2>2, <2>3, <1>p DEF ExecuteUse
<1>9. CASE ExecuteFinishUse
  BY <1>9, <1>a, <1>p DEF ExecuteFinishUse, Executes
<1>10. CASE Return
  <2>1. /\ runs # <<>> /\ Len(runs') = Len(runs) - 1
        /\ \A i \in 1 .. Len(runs)-1 : runs'[i] = runs[i]
    BY <1>10, ReturnShape
  <2>2. Len(runs) \in Nat \ {0} /\ Run = runs[Len(runs)]
    BY <2>1, RunIs
  <2>3. room' = room /\ crashed' = crashed
    BY <1>10 DEF Return
  <2>4. CASE state[m] = "executed"
    BY <1>10, <1>f, <2>4 DEF Next
  <2>5. CASE state[m] # "executed"
    <3>1. PICK i \in 2 .. Len(runs) : runs[i].module = m
      BY <2>3, <2>5 DEF HasRun
    <3>2. CASE i = Len(runs)
      BY <1>10, <1>m, <1>t, <2>2, <3>1, <3>2 DEF Return
    <3>3. CASE i # Len(runs)
      <4>1. i \in 2 .. Len(runs') /\ i \in 1 .. Len(runs)-1
        BY <2>1, <2>2, <3>3
      <4> QED BY <2>1, <3>1, <4>1
    <3> QED BY <3>2, <3>3
  <2> QED BY <2>4, <2>5
<1>11. CASE UNCHANGED vars
  BY <1>11, <1>same DEF vars, moduleVars
<1> QED BY <1>1, <1>2, <1>3, <1>4, <1>5, <1>6, <1>7, <1>8, <1>9, <1>10, <1>11
        DEF Next, Declares

\* A file that starts is loaded and not running, so it has no array yet.
LEMMA StartsWithoutArray ==
    ASSUME TypeInv, CompilersInv, RunsInv, HasRun, Next, NEW i \in 1 .. Len(runs'),
           BeginsFile(i)
    PROVE  room[Instruction.from] = 0
<1> DEFINE m == Instruction.from
<1>1. /\ Executes("use") /\ ExecuteUse /\ i = Len(runs) + 1
      /\ Len(runs') = i /\ m \in File /\ state[m] = "loaded"
  BY DEF BeginsFile
<1>2. runs # <<>> /\ ~crashed /\ Len(runs) \in Nat \ {0}
  <2>1. runs # <<>>
    BY <1>1 DEF Executes
  <2> QED BY <2>1, RunIs, RunningCompilesNothing
<1>3. \A j \in DOMAIN imports : imports[j] # m
  <2>1. CASE Panic
    <3>1. Len(runs') = 0
      BY <2>1 DEF Panic
    <3> QED BY <1>1, <1>2, <3>1
  <2> QED BY <1>1, <2>1 DEF ExecuteUse
<1>4. \A j \in 2 .. Len(runs) : runs[j].module # m
  <2> SUFFICES ASSUME NEW j \in 2 .. Len(runs) PROVE runs[j].module # m
    OBVIOUS
  <2>1. /\ Len(imports) = Len(runs) - 1 /\ DOMAIN imports = 1 .. Len(imports)
        /\ \A k \in 1 .. Len(imports) : imports[k] = runs[k+1].module
    BY <1>2, LenProperties DEF TypeInv, RunsInv, ImportsAreTheRuns
  <2>2. j-1 \in 1 .. Len(imports) /\ j-1+1 = j
    BY <1>2, <2>1
  <2> QED BY <1>3, <2>1, <2>2
<1> QED BY <1>1, <1>2, <1>4 DEF HasRun

\* An activation that starts in a line is of a file without an array.
LEMMA RunOnceStep ==
    TypeInv /\ TypeInv' /\ CompilersInv /\ RunsInv /\ HasRun /\ [Next]_vars =>
        (Len(runs') > Len(runs) /\ runs # <<>> => room[Sq!Last(runs').module] = 0)
<1> SUFFICES ASSUME TypeInv, TypeInv', CompilersInv, RunsInv, HasRun, [Next]_vars,
                    Len(runs') > Len(runs), runs # <<>>
             PROVE  room[Sq!Last(runs').module] = 0
  OBVIOUS
<1>1. Len(runs) \in Nat \ {0} /\ Len(runs') \in Nat
  BY RunIs, LenProperties DEF TypeInv
<1>2. Next
  <2>1. CASE UNCHANGED vars
    BY <1>1, <2>1 DEF vars
  <2> QED BY <2>1
<1> DEFINE i == Len(runs')
<1>3. i \in 1 .. i /\ i > Len(runs)
  BY <1>1
<1>4. BeginsFile(i)
  <2>1. Waits(i) \/ Works(i) \/ BeginsLine(i) \/ BeginsFile(i)
    BY <1>2, <1>3, RunsStep
  <2>2. ~ Waits(i) /\ ~ Works(i)
    BY <1>1, <1>3 DEF Waits, Works
  <2>3. ~ BeginsLine(i)
    BY CompilingRunsNothing DEF BeginsLine
  <2> QED BY <2>1, <2>2, <2>3
<1>5. room[Instruction.from] = 0
  BY <1>2, <1>3, <1>4, StartsWithoutArray
<1>6. runs'[i].module = Instruction.from
  BY <1>4 DEF BeginsFile
<1> QED BY <1>5, <1>6 DEF Sq!Last

-----------------------------------------------------------------------------
(***************************************************************************)
(* The theorems.                                                           *)
(***************************************************************************)
\* The invariant: what holds of every session.
Inv == TypeInv /\ CompilersInv /\ RunsInv /\ ReadyInv /\ Ranked /\ HasRun

\* Nothing is compiled and nothing runs when a session starts.
LEMMA InvInitial == Init => Inv
<1> SUFFICES ASSUME Init PROVE Inv
  OBVIOUS
<1>1. TypeInv
  BY TypeInvInitial
<1>2. /\ compilers = <<>> /\ Len(compilers) = 0 /\ DOMAIN compilers = {}
      /\ runs = <<>> /\ Len(runs) = 0 /\ imports = <<>> /\ ~crashed
  BY DEF Init
<1>3. Main \in Module /\ state[Main] = "loading"
      /\ \A m \in File : m \in Module /\ state[m] = "none" /\ room[m] = 0
  BY NamesAssumption DEF Init, Module
<1>4. CompilersInv
  BY <1>2, <1>3 DEF CompilersInv, CompilesThenRuns, Encloses, LoadingIsBeingCompiled
<1>5. RunsInv
  BY <1>2 DEF RunsInv, Nested, ImportsAreTheRuns
<1>6. ReadyInv
  BY <1>2, <1>3 DEF ReadyInv, TextsAreReady, FilesAreReady, RunsAreReady, Ready
<1>7. Ranked
  <2>1. [m \in File |-> 0] \in [File -> Nat] /\ 0 \in Nat
    OBVIOUS
  <2>2. Ranks([m \in File |-> 0], 0)
    BY <1>2, <1>3 DEF Ranks, Ready
  <2> QED BY <2>1, <2>2 DEF Ranked
<1>8. HasRun
  BY <1>3 DEF HasRun
<1> QED BY <1>1, <1>4, <1>5, <1>6, <1>7, <1>8 DEF Inv

\* The layers together.
LEMMA InvInductive == Inv /\ [Next]_vars => Inv'
BY TypeInvInductive, CompilersInvInductive, RunsInvInductive, ReadyInvInductive,
   RankedInductive, HasRunInductive DEF Inv

\* The invariant holds of every session: the compilers, the activations, the import
\* stack and the module cache (compile_module_statically, run, OP_USE_MODULE) agree.
THEOREM InvHolds == Spec => []Inv
BY InvInitial, InvInductive, PTL DEF Spec

\* Every reachable state of a session is well typed.
THEOREM SessionTypeOK == Spec => []TypeOK
<1>1. Inv => TypeOK
  BY TypeInvMeansTypeOK DEF Inv
<1> QED BY <1>1, InvHolds, PTL

\* A file is compiled by one compiler at a time, and the import stack holds the files
\* that run: the check of OP_USE_MODULE for circles, behind the one of use_statement,
\* never finds one.
THEOREM CirclesEndInAnError == Spec => [](LoadingIsBeingCompiled /\ ImportStackIsTheRuns)
<1>1. Inv => LoadingIsBeingCompiled /\ ImportStackIsTheRuns
  BY NoCircles DEF Inv, CompilersInv
<1> QED BY <1>1, InvHolds, PTL

\* A file whose code may run imports only such files, and an executed one only executed
\* ones: OP_USE_MODULE never leaves a use behind that has not run.
THEOREM ImportsReady == Spec => []ImportsAreReady
<1>1. Inv => ImportsAreReady
  <2> SUFFICES ASSUME Inv, NEW m \in File, state[m] \in Ready,
                      NEW i \in DOMAIN closure[m], closure[m][i].op = "use"
               PROVE  /\ state[closure[m][i].from] \in Ready
                      /\ state[m] = "executed" => state[closure[m][i].from] = "executed"
    BY DEF ImportsAreReady, Ready
  <2>1. i \in 1 .. Len(closure[m])
    BY LenProperties DEF Inv, TypeInv, Module, Code
  <2> QED BY <2>1 DEF Inv, ReadyInv, FilesAreReady, UsesOnly, ReadyFiles, ExecutedFiles
<1> QED BY <1>1, InvHolds, PTL

\* OP_USE_MODULE starts a file at most once in a session: the array of its globals,
\* allocated when it starts, has not been allocated before.
THEOREM RunOnce == Spec => ModulesRunOnce
<1>1. Inv /\ Inv' /\ [Next]_vars =>
        [Len(runs') > Len(runs) /\ runs # <<>> => room[Sq!Last(runs').module] = 0]_vars
  BY RunOnceStep DEF Inv
<1> QED BY <1>1, InvHolds, PTL DEF Spec, ModulesRunOnce

-----------------------------------------------------------------------------
(***************************************************************************)
(* Globals: definitions have their places in the arrays, if no later line  *)
(* declares a name, and reads find what was defined, in sessions with      *)
(* none of the idioms.  TLC finds either violated when the idiom is        *)
(* allowed.                                                                *)
(***************************************************************************)

(***************************************************************************)
(* Definitions and the arrays of globals, for sessions in which no later   *)
(* line declares a name.                                                   *)
(***************************************************************************)
IsDefinition(e) == e.op \in {"define", "finish"}
Fits(code, n) == \A i \in 1 .. Len(code) : IsDefinition(code[i]) => code[i].index < n

\* A text's indexes are below its count, and a line after the first has none.
TextsFit ==
    /\ \A i \in 1 .. Len(compilers) :
          compilers[i].ok => /\ Fits(compilers[i].code, compilers[i].count)
                             /\ i = 1 /\ room[Main] # 0 => Fits(compilers[i].code, 0)
    /\ room[Main] # 0 => Core \in DOMAIN names[Main]

FilesFit == \A m \in File : state[m] \in Ready => Fits(closure[m], count[m])
RunsFit == \A i \in 1 .. Len(runs) : Fits(runs[i].code, room[runs[i].module])

FitInv == TextsFit /\ FilesFit /\ RunsFit

\* What fits goes on fitting when more is counted.
LEMMA FitsMore ==
    ASSUME NEW code \in Code, NEW a \in Nat, NEW b \in Nat, Fits(code, a), a <= b
    PROVE  Fits(code, b)
<1> SUFFICES ASSUME NEW i \in 1 .. Len(code), IsDefinition(code[i])
             PROVE  code[i].index < b
  BY DEF Fits
<1>1. code[i] \in Instructions
  BY ElementOfSeq DEF Code
<1>2. code[i].index \in Nat
  BY <1>1 DEF IsDefinition, Instructions, Defines, CoreDefines, Gets, Uses, Finishes
<1>3. code[i].index < a
  BY DEF Fits
<1> QED BY <1>2, <1>3

\* An array is allocated once, and only when its module starts.
LEMMA RoomStep ==
    ASSUME TypeInv, TypeInv', Next, NEW m \in Module
    PROVE  /\ room[m] \in Nat /\ room'[m] \in Nat
           /\ room'[m] = room[m] \/ room[m] = 0
           /\ m = Main /\ room'[m] # room[m] => EndLine /\ Top.ok /\ room'[m] = Top.count
<1> DEFINE Goal == /\ room[m] \in Nat /\ room'[m] \in Nat
                   /\ room'[m] = room[m] \/ room[m] = 0
                   /\ m = Main /\ room'[m] # room[m]
                        => EndLine /\ Top.ok /\ room'[m] = Top.count
<1>t. room \in [Module -> Nat] /\ room' \in [Module -> Nat] /\ Main \in Module
      /\ \A f \in File : f \in Module /\ f # Main
  BY NamesAssumption DEF TypeInv, Module
<1>same. ASSUME room' = room PROVE Goal
  BY <1>same, <1>t
<1>1. CASE Interpret
  BY <1>1, <1>same DEF Interpret
<1>2. CASE Declares
  <2>1. PICK d \in CompilerState : Edits(d)
    BY <1>2, DeclareStep
  <2> QED BY <2>1, <1>same DEF Edits, OnlyCompiles, moduleVars
<1>3. ASSUME NEW f \in File, NEW x \in Name, CompileModule(f, x) PROVE Goal
  BY <1>3, <1>same DEF CompileModule
<1>4. CASE EndModule
  BY <1>4, <1>same DEF EndModule
<1>5. CASE EndLine
  <2>1. CASE UNCHANGED room
    BY <2>1, <1>same
  <2>2. CASE Top.ok /\ room' = [room EXCEPT ![Main] = IF @ = 0 THEN Top.count ELSE @]
    BY <1>5, <1>t, <2>2
  <2> QED BY <1>5, <2>1, <2>2 DEF EndLine
<1>6. CASE ExecuteDefine
  BY <1>6, <1>same DEF ExecuteDefine
<1>7. CASE ExecuteGet
  BY <1>7, <1>same DEF ExecuteGet, Panic, moduleVars
<1>8. CASE ExecuteUse
  <2>1. Instruction.from \in File
    BY <1>8, ExecutesIs DEF ExecuteUse
  <2>2. CASE room' = [room EXCEPT ![Instruction.from] =
                         IF @ = 0 THEN count[Instruction.from] ELSE @]
    BY <1>t, <2>1, <2>2
  <2>3. CASE room' = room
    BY <2>3, <1>same
  <2> QED BY <1>8, <2>2, <2>3 DEF ExecuteUse, Panic
<1>9. CASE ExecuteFinishUse
  BY <1>9, <1>same DEF ExecuteFinishUse, Panic
<1>10. CASE Return
  BY <1>10, <1>same DEF Return
<1> QED BY <1>1, <1>2, <1>3, <1>4, <1>5, <1>6, <1>7, <1>8, <1>9, <1>10
        DEF Next, Declares

\* What Main's names keep.
LEMMA MainNamesStep ==
    ASSUME TypeInv, CompilersInv, Next, Core \in DOMAIN names[Main]
    PROVE  Core \in DOMAIN names'[Main]
<1>m. Main \in Module /\ \A f \in File : f \in Module /\ f # Main
  BY NamesAssumption DEF Module
<1>t. names \in [Module -> Tables]
  BY DEF TypeInv
<1>e. ASSUME compilers # <<>>, KeepNames PROVE Core \in DOMAIN names'[Main]
  <2>1. Core \in DOMAIN Top.table
    BY <1>e, TopIs DEF CompilersInv, Encloses
  <2>2. Top.module \in Module
    BY <1>e, TopIs DEF CompilerState
  <2> QED BY <1>e, <1>m, <1>t, <2>1, <2>2 DEF KeepNames
<1>1. CASE Interpret
  BY <1>1, <1>m, <1>t, CompilerType DEF Interpret, CoreNamed
<1>2. CASE Declares
  <2>1. PICK d \in CompilerState : Edits(d)
    BY <1>2, DeclareStep
  <2> QED BY <2>1 DEF Edits, OnlyCompiles, moduleVars
<1>3. ASSUME NEW f \in File, NEW x \in Name, CompileModule(f, x)
      PROVE  Core \in DOMAIN names'[Main]
  BY <1>3, <1>m, <1>t DEF CompileModule, CoreNamed
<1>4. CASE EndModule
  BY <1>4, <1>e, EndModuleShape DEF EndModule
<1>5. CASE EndLine
  <2>1. compilers # <<>>
    BY <1>5 DEF EndLine
  <2> QED BY <1>5, <1>e, <2>1 DEF EndLine
<1>6. CASE ExecuteDefine \/ ExecuteGet \/ ExecuteUse \/ ExecuteFinishUse \/ Return
  BY <1>6 DEF ExecuteDefine, ExecuteGet, ExecuteUse, ExecuteFinishUse, Return, Panic,
       moduleVars
<1> QED BY <1>1, <1>2, <1>3, <1>4, <1>5, <1>6 DEF Next, Declares

\* Every step keeps the indexes of definitions below the lengths of the arrays.
LEMMA FitInvInductive ==
    ASSUME "later" \notin Idioms
    PROVE  TypeInv /\ TypeInv' /\ CompilersInv /\ RunsInv /\ HasRun /\ FitInv /\ [Next]_vars
              => FitInv'
<1> SUFFICES ASSUME TypeInv, TypeInv', CompilersInv, RunsInv, HasRun, FitInv, [Next]_vars
             PROVE  FitInv'
  OBVIOUS
<1>0. CASE UNCHANGED vars
  BY <1>0 DEF vars, moduleVars, FitInv, TextsFit, FilesFit, RunsFit
<1>n. CASE Next
  <2>m. Main \in Module /\ Main \notin File /\ \A f \in File : f \in Module /\ f # Main
    BY NamesAssumption DEF Module
  <2>t. /\ room \in [Module -> Nat] /\ count \in [Module -> Nat]
        /\ names \in [Module -> Tables] /\ closure \in [Module -> Code]
        /\ state \in [Module -> {"none", "loading", "loaded", "error", "executed"}]
    BY DEF TypeInv
  <2>c. \A i \in 1 .. Len(compilers) : /\ compilers[i] \in CompilerState
                                       /\ compilers[i].code \in Code
                                            /\ compilers[i].count \in Nat
    <3>1. \A i \in 1 .. Len(compilers) : compilers[i] \in CompilerState
      BY ElementOfSeq DEF TypeInv
    <3> QED BY <3>1 DEF CompilerState
  <2>r. \A i \in 1 .. Len(runs) : runs[i].code \in Code /\ runs[i].module \in Module
    <3>1. \A i \in 1 .. Len(runs) : runs[i] \in Activation
      BY ElementOfSeq DEF TypeInv
    <3> QED BY <3>1 DEF Activation
  <2>l. compilers' # <<>> => room'[Main] = room[Main]
    <3>1. EndLine => compilers' = <<>>
      BY DEF EndLine
    <3> QED BY <1>n, <2>m, <3>1, RoomStep
  <2>1. TextsFit'
    <3>1. ASSUME NEW i \in 1 .. Len(compilers'), compilers'[i].ok
          PROVE  /\ Fits(compilers'[i].code, compilers'[i].count)
                 /\ i = 1 /\ room'[Main] # 0 => Fits(compilers'[i].code, 0)
      <4>l. room'[Main] = room[Main]
        <5>1. CASE compilers' = <<>>
          <6>1. Len(compilers') = 0
            BY <5>1
          <6> QED BY <6>1
        <5> QED BY <2>l, <5>1
      <4>1. CASE i \in 1 .. Len(compilers) /\ SameText(compilers'[i], compilers[i])
        BY <3>1, <4>1, <4>l DEF SameText, FitInv, TextsFit
      <4>2. CASE /\ i = Len(compilers) /\ i \in 1 .. Len(compilers)
                 /\ compilers'[i] \in CompilerState
                 /\ Edits(compilers'[i])
                 /\ compilers'[i].ok => EditsText(compilers'[i])
        <5> DEFINE d == compilers'[i]
        <5>1. /\ Top.ok /\ d.count \in {Top.count, Top.count + 1}
              /\ \A j \in 1 .. Len(d.code) :
                     \/ j \in 1 .. Len(Top.code) /\ d.code[j] = Top.code[j]
                     \/ j \notin 1 .. Len(Top.code) /\ Fresh(d.code[j], d)
          BY <3>1, <4>2, EditsCode
        <5>2. Top = compilers[i] /\ Top.count \in Nat /\ Top.code \in Code
          BY <2>c, <4>2, TopIs DEF Edits
        <5>3. Fits(Top.code, Top.count) /\ Fits(Top.code, d.count)
          <6>1. Fits(Top.code, Top.count)
            BY <4>2, <5>1, <5>2 DEF FitInv, TextsFit
          <6> QED BY <5>1, <5>2, <6>1, FitsMore
        <5>4. Fits(d.code, d.count)
          <6> SUFFICES ASSUME NEW j \in 1 .. Len(d.code), IsDefinition(d.code[j])
                       PROVE  d.code[j].index < d.count
            BY DEF Fits
          <6>1. CASE j \in 1 .. Len(Top.code)
            BY <5>1, <5>3, <6>1 DEF Fits
          <6>2. CASE j \notin 1 .. Len(Top.code)
            BY <5>1, <5>2, <6>2 DEF Fresh, IsDefinition
          <6> QED BY <6>1, <6>2
        <5>5. ASSUME i = 1, room[Main] # 0 PROVE Fits(d.code, 0)
          <6>1. Top.module = Main
            BY <4>2, <5>2, <5>5 DEF CompilersInv, Encloses
          <6>2. ~ MayDeclare
            BY <5>5, <6>1 DEF MayDeclare
          <6>3. Fits(Top.code, 0)
            BY <4>2, <5>1, <5>2, <5>5 DEF FitInv, TextsFit
          <6> QED BY <5>1, <6>2, <6>3 DEF Fits, Fresh, IsDefinition
        <5> QED BY <4>l, <5>4, <5>5
      <4>3. CASE Starts(compilers'[i])
        <5>1. PICK m \in Module : compilers'[i] = Compiler(m) /\ (m = Main => Interpret)
          BY <2>m, <4>3 DEF Starts
        <5>2. count[m] \in Nat /\ names[m] \in Tables
          BY <2>t
        <5>3. Fits(Compiler(m).code, Compiler(m).count)
          <6>1. CASE Core \in DOMAIN names[m]
            <7>1. Compiler(m).code = <<>>
              BY <6>1 DEF Compiler
            <7>2. Len(Compiler(m).code) = 0
              BY <7>1
            <7> QED BY <7>2 DEF Fits
          <6>2. CASE Core \notin DOMAIN names[m]
            <7>1. Compiler(m).count = count[m] + 1
              BY <6>2 DEF Compiler
            <7>2. \A j \in 1 .. Len(Compiler(m).code) : Compiler(m).code[j].index = count[m]
              <8>1. Define(Core, count[m], FALSE).index = count[m]
                BY DEF Define
              <8> QED BY <8>1, CompilerCode
            <7> QED BY <5>2, <7>1, <7>2 DEF Fits
          <6> QED BY <6>1, <6>2
        <5>4. ASSUME i = 1, room[Main] # 0 PROVE Fits(Compiler(m).code, 0)
          <6>1. compilers'[1].module = Compiler(m).module
            BY <5>1, <5>4
          <6>2. Compiler(m).module = m
            BY DEF Compiler
          <6>3. m = Main
            <7>1. CompilersInv'
              BY CompilersInvInductive
            <7> QED BY <5>4, <6>1, <6>2, <7>1 DEF CompilersInv, Encloses
          <6>4. Core \in DOMAIN names[m]
            BY <5>4, <6>3 DEF FitInv, TextsFit
          <6>5. Compiler(m).code = <<>>
            BY <6>4 DEF Compiler
          <6>6. Len(Compiler(m).code) = 0
            BY <6>5
          <6> QED BY <6>6 DEF Fits
        <5> QED BY <4>l, <5>1, <5>3, <5>4
      <4> QED BY <1>n, <4>1, <4>2, <4>3, CompilersStep
    <3>2. room'[Main] # 0 => Core \in DOMAIN names'[Main]
      <4>1. CASE room'[Main] = room[Main]
        BY <1>n, <4>1, MainNamesStep DEF FitInv, TextsFit
      <4>2. CASE room'[Main] # room[Main]
        <5>1. EndLine
          BY <1>n, <2>m, <4>2, RoomStep
        <5>2. compilers # <<>> /\ Len(compilers) = 1
          <6>1. Len(compilers) = 1
            BY <5>1 DEF EndLine
          <6> QED BY <6>1
        <5>3. Top.module = Main /\ Core \in DOMAIN Top.table
          BY <5>2, TopIs DEF CompilersInv, Encloses
        <5> QED BY <2>m, <2>t, <5>1, <5>3 DEF EndLine, KeepNames
      <4> QED BY <4>1, <4>2
    <3> QED BY <3>1, <3>2 DEF TextsFit
  <2>2. FilesFit'
    <3> SUFFICES ASSUME NEW m \in File, state'[m] \in Ready PROVE Fits(closure'[m],
      count'[m])
      BY DEF FilesFit
    <3>1. CASE state[m] \in Ready
      BY <1>n, <3>1, FileStep DEF FitInv, FilesFit
    <3>2. CASE state[m] \notin Ready
      <4>1. EndModule /\ Top.ok /\ closure'[m] = Top.code /\ count'[m] = Top.count
        BY <1>n, <3>2, FileStep
      <4>2. compilers # <<>>
        BY <4>1, EndModuleShape
      <4>3. Top = compilers[Len(compilers)] /\ Len(compilers) \in 1 .. Len(compilers)
        BY <4>2, TopIs
      <4> QED BY <4>1, <4>3 DEF FitInv, TextsFit
    <3> QED BY <3>1, <3>2
  <2>3. RunsFit'
    <3> SUFFICES ASSUME NEW i \in 1 .. Len(runs')
                 PROVE  Fits(runs'[i].code, room'[runs'[i].module])
      BY DEF RunsFit
    <3>k. ASSUME i \in 1 .. Len(runs), runs'[i].code = runs[i].code,
                 runs'[i].module = runs[i].module
          PROVE  Fits(runs'[i].code, room'[runs'[i].module])
      <4>1. Fits(runs[i].code, room[runs[i].module])
        BY <3>k DEF FitInv, RunsFit
      <4>2. /\ runs[i].code \in Code /\ room[runs[i].module] \in Nat
            /\ room'[runs[i].module] \in Nat
                 /\ room[runs[i].module] <= room'[runs[i].module]
        BY <1>n, <2>r, <3>k, RoomStep
      <4> QED BY <3>k, <4>1, <4>2, FitsMore
    <3>1. CASE Waits(i)
      BY <3>1, <3>k DEF Waits
    <3>2. CASE Works(i)
      BY <3>2, <3>k, RunIs DEF Works
    <3>3. CASE BeginsLine(i)
      <4>1. /\ EndLine /\ Top.ok /\ compilers # <<>>
            /\ runs'[i].code = Top.code /\ runs'[i].module = Main
        BY <3>3 DEF BeginsLine
      <4>2. Len(compilers) = 1 /\ Top = compilers[1] /\ 1 \in 1 .. Len(compilers)
        <5>1. Len(compilers) = 1
          BY <4>1 DEF EndLine
        <5> QED BY <4>1, <5>1, TopIs
      <4>3. Top.code \in Code /\ Top.count \in Nat /\ Fits(Top.code, Top.count)
        BY <2>c, <4>1, <4>2 DEF FitInv, TextsFit
      <4>4. room' = [room EXCEPT ![Main] = IF @ = 0 THEN Top.count ELSE @]
        BY <4>1 DEF EndLine
      <4>5. CASE room[Main] = 0
        BY <2>m, <2>t, <4>1, <4>3, <4>4, <4>5
      <4>6. CASE room[Main] # 0
        <5>1. Fits(Top.code, 0)
          BY <4>1, <4>2, <4>6 DEF FitInv, TextsFit
        <5>2. room'[Main] \in Nat /\ 0 <= room'[Main]
          BY <1>n, <2>m, RoomStep
        <5> QED BY <4>1, <4>3, <5>1, <5>2, FitsMore
      <4> QED BY <4>5, <4>6
    <3>4. CASE BeginsFile(i)
      <4> DEFINE m == Instruction.from
      <4>1. /\ m \in File /\ state[m] = "loaded"
            /\ room' = [room EXCEPT ![m] = IF @ = 0 THEN count[m] ELSE @]
            /\ runs'[i].code = closure[m] /\ runs'[i].module = m
        BY <3>4 DEF BeginsFile
      <4>2. room[m] = 0
        BY <1>n, <3>4, StartsWithoutArray
      <4>3. Fits(closure[m], count[m])
        BY <4>1 DEF FitInv, FilesFit, Ready
      <4> QED BY <2>m, <2>t, <4>1, <4>2, <4>3
    <3> QED BY <1>n, <3>1, <3>2, <3>3, <3>4, RunsStep
  <2> QED BY <2>1, <2>2, <2>3 DEF FitInv
<1> QED BY <1>0, <1>n

\* ... so the definition at work has its place.
LEMMA FitMeansFits ==
    ASSUME TypeInv, FitInv
    PROVE  DefinitionsFitTheArray
<1> SUFFICES ASSUME NEW op \in {"define", "finish"}, Executes(op)
             PROVE  Instruction.index < room[Run.module]
  BY DEF DefinitionsFitTheArray
<1>1. /\ runs # <<>> /\ Run.pc \in 1 .. Len(Run.code)
      /\ Instruction = Run.code[Run.pc] /\ Instruction.op = op
  BY ExecutesIs
<1>2. Run = runs[Len(runs)] /\ Len(runs) \in 1 .. Len(runs)
  BY <1>1, RunIs
<1>3. Fits(Run.code, room[Run.module])
  BY <1>2 DEF FitInv, RunsFit
<1> QED BY <1>1, <1>3 DEF Fits, IsDefinition

-----------------------------------------------------------------------------
(***************************************************************************)
(* Reads of globals, for sessions with none of the idioms.                 *)
(***************************************************************************)
Defined(code, p, x, n) ==
    \E j \in 1 .. p-1 : IsDefinition(code[j]) /\ code[j].name = x /\ code[j].index = n

Kept(written, x, n) == n \in DOMAIN written /\ written[n] = x

\* No index is defined for two names.
Distinct(code) ==
    \A i, j \in 1 .. Len(code) :
       IsDefinition(code[i]) /\ IsDefinition(code[j]) /\ code[i].index = code[j].index
          => code[i].name = code[j].name

\* A text that defines what it reads, or finds it in the array.
GetsDefined(code) ==
    \A p \in 1 .. Len(code) :
       code[p].op = "get" => Defined(code, p, code[p].name, code[p].index)
NamesDefined(table, code) ==
    \A x \in DOMAIN table : Defined(code, Len(code) + 1, x, table[x])

GetsKept(code, written) ==
    \A p \in 1 .. Len(code) : code[p].op = "get"
      => Kept(written, code[p].name, code[p].index)
NamesKept(table, written) == \A x \in DOMAIN table : Kept(written, x, table[x])

TextReads(c, places, written) ==
    /\ Distinct(c.code)
    /\ IF c.module = Main /\ places # 0
       THEN GetsKept(c.code, written) /\ NamesKept(c.table, written)
       ELSE GetsDefined(c.code) /\ NamesDefined(c.table, c.code)

\* What an activation has defined is in the array of its module.
Done(code, pc, written) ==
    \A p \in 1 .. Len(code) :
       p < pc /\ IsDefinition(code[p]) => Kept(written, code[p].name, code[p].index)

RunReads(code, first, table, written) ==
    \/ GetsDefined(code) /\ (first => NamesDefined(table, code))
    \/ first /\ Fits(code, 0) /\ GetsKept(code, written) /\ NamesKept(table, written)

UnreadFilesAreBlank == \A m \in File : state[m] = "none" => DOMAIN names[m] = {}

TextsRead ==
    \A i \in 1 .. Len(compilers) :
       compilers[i].ok => TextReads(compilers[i], room[Main], globals[Main])

FilesRead ==
    \A m \in File : state[m] \in Ready => Distinct(closure[m]) /\ GetsDefined(closure[m])

BetweenLines ==
    ~failed /\ ~crashed /\ compilers = <<>> /\ runs = <<>> =>
       IF room[Main] = 0 THEN DOMAIN names[Main] = {}
                         ELSE NamesKept(names[Main], globals[Main])

RunsRead ==
    /\ runs # <<>> => room[Main] # 0
    /\ \A i \in 1 .. Len(runs) :
          /\ Distinct(runs[i].code)
          /\ RunReads(runs[i].code, i = 1, names[Main], globals[Main])
          /\ Done(runs[i].code, runs[i].pc, globals[runs[i].module])

ReadInv == UnreadFilesAreBlank /\ TextsRead /\ FilesRead /\ BetweenLines /\ RunsRead

\* What is defined in a text is defined in what it grows to.
LEMMA DefinedMore ==
    ASSUME NEW code, NEW longer, NEW p \in Nat, NEW q \in Nat, p <= q,
           \A j \in 1 .. p-1 : longer[j] = code[j],
           NEW x, NEW n, Defined(code, p, x, n)
    PROVE  Defined(longer, q, x, n)
<1>1. PICK j \in 1 .. p-1 : IsDefinition(code[j]) /\ code[j].name = x /\ code[j].index = n
  BY DEF Defined
<1>2. j \in 1 .. q-1 /\ longer[j] = code[j]
  OBVIOUS
<1> QED BY <1>1, <1>2 DEF Defined

\* One more instruction: a definition of a new index, or anything else.
LEMMA DistinctMore ==
    ASSUME NEW code \in Code, NEW e \in Instructions, NEW n \in Nat,
           Distinct(code), Fits(code, n),
           IsDefinition(e) => e.index = n
    PROVE  Distinct(Append(code, e))
<1> DEFINE t == Append(code, e)
<1>1. /\ Len(t) = Len(code) + 1 /\ t[Len(code) + 1] = e
      /\ \A i \in 1 .. Len(code) : t[i] = code[i]
      /\ Len(code) \in Nat
  BY StackPush, LenProperties DEF Code
<1> HIDE DEF t
<1> SUFFICES ASSUME NEW i \in 1 .. Len(t), NEW j \in 1 .. Len(t),
                    IsDefinition(t[i]), IsDefinition(t[j]), t[i].index = t[j].index
             PROVE  t[i].name = t[j].name
  BY DEF Distinct, t
<1>2. \A k \in 1 .. Len(code) : IsDefinition(code[k]) => code[k].index < n
  BY DEF Fits
<1>3. CASE i \in 1 .. Len(code) /\ j \in 1 .. Len(code)
  BY <1>1, <1>3 DEF Distinct
<1>4. CASE i = Len(code) + 1 /\ j \in 1 .. Len(code)
  <2>1. t[j].index < n /\ t[i].index = n
    BY <1>1, <1>2, <1>4
  <2> QED BY <2>1
<1>5. CASE j = Len(code) + 1 /\ i \in 1 .. Len(code)
  <2>1. t[i].index < n /\ t[j].index = n
    BY <1>1, <1>2, <1>5
  <2> QED BY <2>1
<1>6. CASE i = Len(code) + 1 /\ j = Len(code) + 1
  BY <1>6
<1> QED BY <1>1, <1>3, <1>4, <1>5, <1>6

\* A use and the definition that finishes it are an instruction and another.
LEMMA TwoAreOneAndOne ==
    ASSUME NEW code \in Code, NEW e \in Instructions, NEW f \in Instructions
    PROVE  code \o <<e, f>> = Append(Append(code, e), f)
<1> DEFINE a == code \o <<e, f>>
           b == Append(Append(code, e), f)
           c == Append(code, e)
<1>1. /\ a \in Code /\ Len(a) = Len(code) + 2 /\ a[Len(code) + 1] = e
           /\ a[Len(code) + 2] = f
      /\ \A i \in 1 .. Len(code) : a[i] = code[i]
  BY StackPushTwo DEF Code
<1>2. /\ c \in Code /\ Len(c) = Len(code) + 1 /\ c[Len(code) + 1] = e
      /\ \A i \in 1 .. Len(code) : c[i] = code[i]
  BY StackPush DEF Code
<1>3. b = Append(c, f)
  OBVIOUS
<1> HIDE DEF c
<1>4. /\ b \in Code /\ Len(b) = Len(c) + 1 /\ b[Len(c) + 1] = f
      /\ \A i \in 1 .. Len(c) : b[i] = c[i]
  BY <1>2, <1>3, StackPush DEF Code
<1> HIDE DEF a, b
<1>n. Len(code) \in Nat
  BY LenProperties DEF Code
<1>5. Len(a) = Len(b) /\ \A i \in 1 .. Len(a) : a[i] = b[i]
  BY <1>n, <1>1, <1>2, <1>4
<1>6. a = b
  BY <1>1, <1>4, <1>5, SeqEqual DEF Code
<1> QED BY <1>6 DEF a, b

\* A declaration of a new name, in a text that may declare.
LEMMA DefiningReads ==
    ASSUME NEW code \in Code, NEW e \in Instructions, NEW table \in Tables,
           NEW n \in Nat, NEW x \in GlobalName,
           GetsDefined(code), NamesDefined(table, code),
           IsDefinition(e), e.name = x, e.index = n
    PROVE  /\ GetsDefined(Append(code, e))
           /\ NamesDefined(With(table, x, n), Append(code, e))
<1> DEFINE t == Append(code, e)
<1>1. /\ Len(t) = Len(code) + 1 /\ t[Len(code) + 1] = e
      /\ \A i \in 1 .. Len(code) : t[i] = code[i]
      /\ Len(code) \in Nat
  BY StackPush, LenProperties DEF Code
<1>t. t = Append(code, e)
  OBVIOUS
<1> HIDE DEF t
<1>2. GetsDefined(t)
  <2> SUFFICES ASSUME NEW p \in 1 .. Len(t), t[p].op = "get"
               PROVE  Defined(t, p, t[p].name, t[p].index)
    BY DEF GetsDefined
  <2>1. p \in 1 .. Len(code)
    BY <1>1 DEF IsDefinition
  <2>2. Defined(code, p, code[p].name, code[p].index)
    BY <1>1, <2>1 DEF GetsDefined
  <2>3. \A j \in 1 .. p-1 : t[j] = code[j]
    BY <1>1, <2>1
  <2>4. t[p].name = code[p].name /\ t[p].index = code[p].index /\ p \in Nat
    BY <1>1, <2>1
  <2>5. Defined(t, p, code[p].name, code[p].index)
    BY <2>2, <2>3, <2>4, DefinedMore, SMTT(30)
  <2> QED BY <2>4, <2>5
<1>3. NamesDefined(With(table, x, n), t)
  <2> SUFFICES ASSUME NEW y \in DOMAIN With(table, x, n)
               PROVE  Defined(t, Len(t) + 1, y, With(table, x, n)[y])
    BY DEF NamesDefined
  <2>1. CASE y = x
    <3>1. With(table, x, n)[y] = n
      BY <2>1, WithDomain
    <3>2. Len(code) + 1 \in 1 .. Len(t) + 1 - 1
      BY <1>1
    <3> QED BY <1>1, <2>1, <3>1, <3>2 DEF Defined
  <2>2. CASE y # x
    <3> DEFINE p == Len(code) + 1
               q == Len(t) + 1
    <3>1. y \in DOMAIN table /\ With(table, x, n)[y] = table[y]
      BY <2>2, WithDomain
    <3>2. Defined(code, p, y, table[y])
      BY <3>1 DEF NamesDefined
    <3>3. \A j \in 1 .. p-1 : t[j] = code[j]
      BY <1>1
    <3>4. p \in Nat /\ q \in Nat /\ p <= q
      BY <1>1
    <3> HIDE DEF p, q
    <3>5. Defined(t, q, y, table[y])
      BY <3>2, <3>3, <3>4, DefinedMore
    <3> QED BY <3>1, <3>5 DEF q
  <2> QED BY <2>1, <2>2
<1> QED BY <1>2, <1>3, <1>t

\* An instruction that defines nothing: a use, or a read of a name in the table.
LEMMA PassingReads ==
    ASSUME NEW code \in Code, NEW e \in Instructions, NEW table \in Tables,
           GetsDefined(code), NamesDefined(table, code),
           e.op = "get" => e.name \in DOMAIN table /\ e.index = table[e.name]
    PROVE  GetsDefined(Append(code, e)) /\ NamesDefined(table, Append(code, e))
<1> DEFINE t == Append(code, e)
<1>1. /\ Len(t) = Len(code) + 1 /\ t[Len(code) + 1] = e
      /\ \A i \in 1 .. Len(code) : t[i] = code[i]
      /\ Len(code) \in Nat
  BY StackPush, LenProperties DEF Code
<1>t. t = Append(code, e)
  OBVIOUS
<1> HIDE DEF t
<1>2. \A x \in DOMAIN table, q \in {Len(code) + 1, Len(code) + 2} :
        Defined(t, q, x, table[x])
  <2> SUFFICES ASSUME NEW x \in DOMAIN table, NEW q \in {Len(code) + 1, Len(code) + 2}
               PROVE  Defined(t, q, x, table[x])
    OBVIOUS
  <2> DEFINE p == Len(code) + 1
  <2>1. Defined(code, p, x, table[x])
    BY DEF NamesDefined
  <2>2. \A j \in 1 .. p-1 : t[j] = code[j]
    BY <1>1
  <2>3. p \in Nat /\ q \in Nat /\ p <= q
    BY <1>1
  <2> HIDE DEF p
  <2> QED BY <2>1, <2>2, <2>3, DefinedMore
<1>3. GetsDefined(t)
  <2> SUFFICES ASSUME NEW p \in 1 .. Len(t), t[p].op = "get"
               PROVE  Defined(t, p, t[p].name, t[p].index)
    BY DEF GetsDefined
  <2>1. CASE p \in 1 .. Len(code)
    <3>1. Defined(code, p, code[p].name, code[p].index)
      BY <1>1, <2>1 DEF GetsDefined
    <3>2. \A j \in 1 .. p-1 : t[j] = code[j]
      BY <1>1, <2>1
    <3> QED BY SMTT(30), <1>1, <2>1, <3>1, <3>2, DefinedMore
  <2>2. CASE p = Len(code) + 1
    BY <1>1, <1>2, <2>2
  <2> QED BY <1>1, <2>1, <2>2
<1>4. NamesDefined(table, t)
  <2>1. Len(t) + 1 = Len(code) + 2
    BY <1>1
  <2> QED BY <1>2, <2>1 DEF NamesDefined
<1> QED BY <1>3, <1>4, <1>t

\* A declaration keeps a text readable.
LEMMA EditsReads ==
    ASSUME TypeInv, CompilersInv, FitInv, Idioms = {},
           NEW d \in CompilerState, Edits(d), EditsText(d),
           TextReads(Top, room[Main], globals[Main])
    PROVE  TextReads(d, room[Main], globals[Main])
<1> DEFINE late == Top.module = Main /\ room[Main] # 0
           Goal == TextReads(d, room[Main], globals[Main])
<1>1. /\ Top \in CompilerState /\ Top = compilers[Len(compilers)]
      /\ Len(compilers) \in 1 .. Len(compilers)
  BY TopIs DEF Edits
<1>2. Top.code \in Code /\ Top.count \in Nat /\ Top.table \in Tables
  BY <1>1 DEF CompilerState
<1>3. Fits(Top.code, Top.count) /\ Distinct(Top.code) /\ d.module = Top.module /\ Top.ok
  BY <1>1 DEF EditsText, FitInv, TextsFit, TextReads, Edits
<1>4. /\ late => /\ GetsKept(Top.code, globals[Main]) /\ NamesKept(Top.table, globals[Main])
                 /\ ~MayDeclare
      /\ ~late => GetsDefined(Top.code) /\ NamesDefined(Top.table, Top.code)
  BY DEF TextReads, MayDeclare
<1>5. ASSUME NEW x \in Name, NEW public \in BOOLEAN, MayDeclare, Adds(d, x),
             d.code = Append(Top.code, Define(x, Top.count, public))
      PROVE  Goal
  <2> DEFINE e == Define(x, Top.count, public)
  <2>1. /\ e \in Instructions /\ IsDefinition(e) /\ e.name = x /\ e.index = Top.count
        /\ x \in GlobalName
    BY <1>2, InstructionTypes DEF Define, IsDefinition, GlobalName
  <2>2. d.code = Append(Top.code, e) /\ d.table = With(Top.table, x, Top.count)
    BY <1>5 DEF Adds
  <2> HIDE DEF e
  <2>3. Distinct(d.code)
    BY <1>2, <1>3, <2>1, <2>2, DistinctMore
  <2>4. GetsDefined(d.code) /\ NamesDefined(d.table, d.code)
    BY <1>2, <1>4, <1>5, <2>1, <2>2, DefiningReads
  <2> QED BY <1>3, <1>4, <1>5, <2>3, <2>4 DEF TextReads
<1>6. ASSUME NEW x \in GlobalName, NEW i \in Nat, x \in DOMAIN Top.table, i = Top.table[x],
             d.table = Top.table, d.code = Append(Top.code, Get(x, i))
      PROVE  Goal
  <2> DEFINE e == Get(x, i)
  <2>1. /\ e \in Instructions /\ ~IsDefinition(e) /\ e.op = "get"
        /\ e.name = x /\ e.index = Top.table[x]
    BY <1>6, InstructionTypes DEF Get, IsDefinition
  <2>2. d.code = Append(Top.code, e)
    BY <1>6
  <2> HIDE DEF e
  <2>3. Distinct(d.code)
    BY <1>2, <1>3, <2>1, <2>2, DistinctMore
  <2>4. CASE ~late
    <3>1. GetsDefined(d.code) /\ NamesDefined(d.table, d.code)
      BY <1>2, <1>4, <1>6, <2>1, <2>2, <2>4, PassingReads
    <3> QED BY <1>3, <2>3, <2>4, <3>1 DEF TextReads
  <2>5. CASE late
    <3>1. /\ Len(d.code) = Len(Top.code) + 1 /\ d.code[Len(Top.code) + 1] = e
          /\ \A k \in 1 .. Len(Top.code) : d.code[k] = Top.code[k]
          /\ Len(Top.code) \in Nat
      BY <1>2, <2>1, <2>2, StackPush, LenProperties DEF Code
    <3>2. Kept(globals[Main], e.name, e.index)
      BY <1>4, <1>6, <2>1, <2>5 DEF NamesKept
    <3>3. GetsKept(d.code, globals[Main])
      <4> SUFFICES ASSUME NEW p \in 1 .. Len(d.code), d.code[p].op = "get"
                   PROVE  Kept(globals[Main], d.code[p].name, d.code[p].index)
        BY DEF GetsKept
      <4>1. CASE p \in 1 .. Len(Top.code)
        BY <1>4, <2>5, <3>1, <4>1 DEF GetsKept
      <4>2. CASE p = Len(Top.code) + 1
        BY <3>1, <3>2, <4>2
      <4> QED BY <3>1, <4>1, <4>2
    <3> QED BY <1>3, <1>4, <1>6, <2>3, <2>5, <3>3 DEF TextReads
  <2> QED BY <2>4, <2>5
<1>7. ASSUME NEW m \in File, NEW x \in Name, MayDeclare, Adds(d, x),
             d.code = Top.code \o <<UseModule(m), FinishUse(m, x, Top.count)>>
      PROVE  Goal
  <2> DEFINE e == UseModule(m)
             f == FinishUse(m, x, Top.count)
             c == Append(Top.code, e)
  <2>1. /\ e \in Instructions /\ ~IsDefinition(e) /\ e.op # "get"
        /\ f \in Instructions /\ IsDefinition(f) /\ f.name = x /\ f.index = Top.count
        /\ x \in GlobalName
    BY <1>2, InstructionTypes DEF UseModule, FinishUse, IsDefinition, GlobalName
  <2>e. e.op = "use" /\ d.table = With(Top.table, x, Top.count)
    BY <1>7 DEF UseModule, Adds
  <2>2. d.code = Top.code \o <<e, f>>
    BY <1>7
  <2> HIDE DEF e, f
  <2>3. d.code = Append(c, f)
    BY <1>2, <2>1, <2>2, TwoAreOneAndOne
  <2>4. c \in Code /\ Distinct(c)
    BY <1>2, <1>3, <2>1, DistinctMore, StackPush DEF Code
  <2>5. GetsDefined(c) /\ NamesDefined(Top.table, c)
    BY <1>2, <1>4, <1>7, <2>1, PassingReads
  <2>6. Fits(c, Top.count)
    <3>1. /\ Len(c) = Len(Top.code) + 1 /\ c[Len(Top.code) + 1] = e
          /\ \A k \in 1 .. Len(Top.code) : c[k] = Top.code[k]
          /\ Len(Top.code) \in Nat
      BY <1>2, <2>1, StackPush, LenProperties DEF Code
    <3> HIDE DEF c
    <3> QED BY <1>3, <2>1, <3>1 DEF Fits
  <2> HIDE DEF c
  <2>7. Distinct(d.code)
    BY <1>2, <2>1, <2>3, <2>4, <2>6, DistinctMore
  <2>8. GetsDefined(d.code) /\ NamesDefined(d.table, d.code)
    BY <1>2, <2>1, <2>e, <2>3, <2>4, <2>5, DefiningReads
  <2> QED BY <1>3, <1>4, <1>7, <2>7, <2>8 DEF TextReads
<1> QED BY <1>5, <1>6, <1>7 DEF EditsText

\* A compilation writes no global and allocates no array, until the line ends.
LEMMA CompilingIsQuiet ==
    ASSUME TypeInv, CompilersInv, Next, compilers' # <<>>
    PROVE  globals' = globals /\ room' = room
<1>1. CASE Interpret
  BY <1>1 DEF Interpret
<1>2. CASE Declares
  <2>1. PICK d \in CompilerState : Edits(d)
    BY <1>2, DeclareStep
  <2> QED BY <2>1 DEF Edits, OnlyCompiles, moduleVars
<1>3. ASSUME NEW f \in File, NEW x \in Name, CompileModule(f, x)
      PROVE  globals' = globals /\ room' = room
  BY <1>3 DEF CompileModule
<1>4. CASE EndModule
  BY <1>4 DEF EndModule
<1>5. CASE EndLine
  BY <1>5 DEF EndLine
<1>6. CASE ExecuteDefine \/ ExecuteGet \/ ExecuteUse \/ ExecuteFinishUse \/ Return
  <2>1. runs # <<>> /\ compilers' = compilers
    BY <1>6 DEF ExecuteDefine, ExecuteGet, ExecuteUse, ExecuteFinishUse, Return, Panic,
         Executes
  <2> QED BY <2>1, RunningCompilesNothing
<1> QED BY <1>1, <1>2, <1>3, <1>4, <1>5, <1>6 DEF Next, Declares

\* While a line runs, the step is one of run.
RunsAStep == ExecuteDefine \/ ExecuteGet \/ ExecuteUse \/ ExecuteFinishUse \/ Return

\* The code that runs, in a step.
LEMMA RunningStep ==
    ASSUME TypeInv, CompilersInv, Next, runs # <<>>
    PROVE  RunsAStep /\ names' = names /\ compilers' = <<>>
<1>1. compilers = <<>>
  BY RunningCompilesNothing
<1>2. Len(compilers) = 0
  BY <1>1
<1>3. ~ Interpret /\ ~ EndModule /\ ~ EndLine /\ ~ Declares
  BY <1>1, <1>2 DEF Interpret, Idle, EndModule, EndLine, Declares, CompileDefinition,
                    CompileRead, CompileError, CompileUse, Declaring
<1>4. \A f \in File, x \in Name : ~ CompileModule(f, x)
  BY <1>1 DEF CompileModule, Declaring
<1>5. RunsAStep
  BY <1>3, <1>4 DEF Next, Declares, RunsAStep
<1>6. names' = names /\ compilers' = compilers
  BY <1>5 DEF RunsAStep, ExecuteDefine, ExecuteGet, ExecuteUse, ExecuteFinishUse, Return,
              Panic, moduleVars
<1> QED BY <1>1, <1>5, <1>6

\* It writes what the instruction defines, in the array of the module that runs.
LEMMA RunningWrites ==
    ASSUME TypeInv, CompilersInv, Next, runs # <<>>, runs' # <<>>
    PROVE  \/ globals' = globals
              /\ \A op \in {"define", "finish"} : ~ Executes(op)
           \/ \E op \in {"define", "finish"} : Executes(op)
              /\ WriteGlobal(Run.module, Instruction.index, Instruction.name)
<1>p. ~ Panic
  BY DEF Panic
<1>1. CASE ExecuteDefine
  BY <1>1 DEF ExecuteDefine
<1>2. CASE ExecuteGet
  <2>1. \A op \in {"define", "finish"} : ~ Executes(op)
    BY <1>2 DEF ExecuteGet, Executes
  <2> QED BY <1>2, <1>p, <2>1 DEF ExecuteGet, moduleVars
<1>3. CASE ExecuteUse
  <2>1. \A op \in {"define", "finish"} : ~ Executes(op)
    BY <1>3 DEF ExecuteUse, Executes
  <2> QED BY <1>3, <1>p, <2>1 DEF ExecuteUse
<1>4. CASE ExecuteFinishUse
  BY <1>4, <1>p DEF ExecuteFinishUse
<1>5. CASE Return
  <2>1. Run.pc \in Nat /\ Len(Run.code) \in Nat
    BY RunIs, LenProperties DEF Activation, Code
  <2>2. \A op \in {"define", "finish"} : ~ Executes(op)
    BY <1>5, <2>1 DEF Return, Executes
  <2> QED BY <1>5, <2>2 DEF Return
<1> QED BY <1>1, <1>2, <1>3, <1>4, <1>5, RunningStep DEF RunsAStep

\* ... and in no other.
LEMMA OtherGlobalsStay ==
    ASSUME TypeInv, CompilersInv, Next, runs # <<>>, runs' # <<>>,
           NEW m \in Module, m # Run.module
    PROVE  globals'[m] = globals[m]
<1>1. ASSUME NEW op \in {"define", "finish"}, Executes(op),
             WriteGlobal(Run.module, Instruction.index, Instruction.name)
      PROVE  globals'[m] = globals[m]
  <2>1. Instruction.index \in Nat /\ Instruction.name \in GlobalName
    BY <1>1, ExecutesIs
  <2>2. Run.module \in Module
    BY RunIs DEF Activation
  <2> QED BY <1>1, <2>1, <2>2, WriteGlobalType
<1> QED BY <1>1, RunningWrites

\* A file that is not in the cache has no names.
LEMMA BlankStep ==
    ASSUME TypeInv, CompilersInv, Next, NEW m \in File, state'[m] = "none"
    PROVE  state[m] = "none" /\ names'[m] = names[m]
<1>m. m \in Module /\ m # Main /\ Main \in Module
  BY NamesAssumption DEF Module
<1>t. /\ state \in [Module -> {"none", "loading", "loaded", "error", "executed"}]
      /\ names \in [Module -> Tables]
  BY DEF TypeInv
<1> DEFINE Goal == state[m] = "none" /\ names'[m] = names[m]
<1>1. CASE Interpret
  BY <1>1, <1>m, <1>t DEF Interpret, CoreNamed
<1>2. CASE Declares
  <2>1. PICK d \in CompilerState : Edits(d)
    BY <1>2, DeclareStep
  <2> QED BY <2>1 DEF Edits, OnlyCompiles, moduleVars
<1>3. ASSUME NEW f \in File, NEW x \in Name, CompileModule(f, x) PROVE Goal
  <2>1. f \in Module
    BY DEF Module
  <2>2. /\ state' = [state EXCEPT ![f] = "loading"]
        /\ names' = [names EXCEPT ![f] = Compiler(f).table]
    BY <1>3 DEF CompileModule, CoreNamed
  <2>3. f # m
    BY <1>t, <2>1, <2>2
  <2> QED BY <1>m, <1>t, <2>1, <2>2, <2>3
<1>4. CASE EndModule
  <2>1. compilers # <<>>
    BY <1>4, EndModuleShape
  <2>2. Top.module \in Module
    BY <2>1, TopIs DEF CompilerState
  <2>3. /\ state' = [state EXCEPT ![Top.module] = IF Top.ok THEN "loaded" ELSE "error"]
        /\ names' = [names EXCEPT ![Top.module] = Top.table]
    BY <1>4 DEF EndModule, KeepNames
  <2>4. Top.module # m
    BY <1>t, <2>2, <2>3
  <2> QED BY <1>m, <1>t, <2>2, <2>3, <2>4
<1>5. CASE EndLine
  <2>1. compilers # <<>> /\ Len(compilers) = 1
    <3>1. Len(compilers) = 1
      BY <1>5 DEF EndLine
    <3> QED BY <3>1
  <2>2. Top.module = Main
    BY <2>1, TopIs DEF CompilersInv, Encloses
  <2>3. state'[m] = state[m] /\ names' = [names EXCEPT ![Top.module] = Top.table]
    BY <1>5, <1>m, <1>t DEF EndLine, KeepNames
  <2> QED BY <1>m, <1>t, <2>2, <2>3
<1>6. CASE RunsAStep
  <2>1. names' = names
    BY <1>6 DEF RunsAStep, ExecuteDefine, ExecuteGet, ExecuteUse, ExecuteFinishUse, Return,
                Panic, moduleVars
  <2>2. state'[m] = state[m] \/ state'[m] = "executed"
    <3>1. CASE UNCHANGED state
      BY <3>1
    <3>2. CASE state' = [state EXCEPT ![Main] = "error"]
      BY <1>m, <1>t, <3>2
    <3>3. CASE state' = [state EXCEPT ![Run.module] = "executed"]
      BY <1>m, <1>t, <3>3
    <3> QED BY <1>6, <3>1, <3>2, <3>3 DEF RunsAStep, ExecuteDefine, ExecuteGet, ExecuteUse,
                 ExecuteFinishUse, Return, Panic, moduleVars
  <2> QED BY <2>1, <2>2
<1> QED BY <1>1, <1>2, <1>3, <1>4, <1>5, <1>6 DEF Next, Declares, RunsAStep

\* The compilers' part of the invariant, in a step.
LEMMA TextsReadStep ==
    ASSUME TypeInv, TypeInv', CompilersInv, CompilersInv', FitInv, ReadInv, Next,
             Idioms = {}
    PROVE  TextsRead'
<1> SUFFICES ASSUME NEW i \in 1 .. Len(compilers'), compilers'[i].ok
             PROVE  TextReads(compilers'[i], room'[Main], globals'[Main])
  BY DEF TextsRead
<1>q. globals' = globals /\ room' = room
  <2>1. CASE compilers' = <<>>
    <3>1. Len(compilers') = 0
      BY <2>1
    <3> QED BY <3>1
  <2> QED BY <2>1, CompilingIsQuiet
<1>1. CASE i \in 1 .. Len(compilers) /\ SameText(compilers'[i], compilers[i])
  BY <1>1, <1>q DEF SameText, ReadInv, TextsRead, TextReads
<1>2. CASE /\ i = Len(compilers) /\ i \in 1 .. Len(compilers)
           /\ compilers'[i] \in CompilerState
           /\ Edits(compilers'[i])
           /\ compilers'[i].ok => EditsText(compilers'[i])
  <2>1. Top = compilers[i] /\ Top.ok
    BY <1>2, TopIs DEF Edits, EditsText
  <2>2. TextReads(Top, room[Main], globals[Main])
    BY <1>2, <2>1 DEF ReadInv, TextsRead
  <2>3. TextReads(compilers'[i], room[Main], globals[Main])
    BY <1>2, <2>2, EditsReads
  <2> QED BY <1>q, <2>3
<1>3. CASE Starts(compilers'[i])
  <2>1. PICK m \in Module : /\ compilers'[i] = Compiler(m)
                            /\ \/ m = Main /\ Interpret
                               \/ m \in File /\ m # Main /\ state[m] = "none"
    BY <1>3, NamesAssumption DEF Starts, Module
  <2> DEFINE c == Compiler(m)
  <2>2. c.module = m /\ names[m] \in Tables /\ count[m] \in Nat
    BY DEF Compiler, TypeInv
  <2>3. CASE m = Main /\ room[Main] # 0
    <3>1. Core \in DOMAIN names[m]
      BY <2>3 DEF FitInv, TextsFit
    <3>2. c.code = <<>> /\ c.table = names[m]
      BY <3>1 DEF Compiler
    <3>3. NamesKept(names[Main], globals[Main])
      <4>1. Interpret
        BY <2>1, <2>3
      <4>2. ~failed /\ ~crashed /\ compilers = <<>> /\ runs = <<>>
        BY <4>1 DEF Interpret, Idle
      <4> QED BY <2>3, <4>2 DEF ReadInv, BetweenLines
    <3>4. Len(c.code) = 0
      BY <3>2
    <3> HIDE DEF c
    <3>5. Distinct(c.code) /\ GetsKept(c.code, globals[Main])
      BY <3>4 DEF Distinct, GetsKept
    <3>6. TextReads(c, room[Main], globals[Main])
      BY <2>2, <2>3, <3>2, <3>3, <3>5 DEF TextReads
    <3> QED BY <1>q, <2>1, <3>6 DEF c
  <2>4. CASE ~ (m = Main /\ room[Main] # 0)
    <3>1. DOMAIN names[m] = {}
      <4>1. CASE m # Main
        BY <2>1, <4>1 DEF ReadInv, UnreadFilesAreBlank
      <4>2. CASE m = Main
        <5>1. ~failed /\ ~crashed /\ compilers = <<>> /\ runs = <<>>
          BY <2>1, <4>2 DEF Interpret, Idle
        <5> QED BY <2>4, <4>2, <5>1 DEF ReadInv, BetweenLines
      <4> QED BY <4>1, <4>2
    <3> DEFINE e == Define(Core, count[m], FALSE)
    <3>2. c.code = <<e>> /\ c.table = With(names[m], Core, count[m])
      BY <3>1 DEF Compiler
    <3>3. IsDefinition(e) /\ e.op = "define" /\ e.name = Core /\ e.index = count[m]
      BY DEF Define, IsDefinition
    <3> HIDE DEF e, c
    <3>4. Len(c.code) = 1 /\ c.code[1] = e
      BY <3>2
    <3>5. \A k \in 1 .. Len(c.code) : c.code[k] = e
      BY <3>4
    <3>6. Distinct(c.code) /\ GetsDefined(c.code)
      BY <3>3, <3>5 DEF Distinct, GetsDefined
    <3>7. \A x \in DOMAIN c.table : x = Core /\ c.table[x] = count[m]
      BY <3>1, <3>2, WithDomain
    <3>8. NamesDefined(c.table, c.code)
      <4>1. 1 \in 1 .. Len(c.code) + 1 - 1
        BY <3>4
      <4>2. Defined(c.code, Len(c.code) + 1, Core, count[m])
        BY <3>3, <3>4, <4>1 DEF Defined
      <4> QED BY <3>7, <4>2 DEF NamesDefined
    <3>9. TextReads(c, room[Main], globals[Main])
      BY <2>2, <2>4, <3>6, <3>8 DEF TextReads
    <3> QED BY <1>q, <2>1, <3>9 DEF c
  <2> QED BY <2>3, <2>4
<1> QED BY <1>1, <1>2, <1>3, CompilersStep

\* The code of a text that ends without an error, with no array yet: something is
\* defined in it, so the array that is allocated is not empty.
LEMMA EndingText ==
    ASSUME TypeInv, CompilersInv, FitInv, ReadInv, compilers # <<>>, Top.ok
    PROVE  /\ TextReads(Top, room[Main], globals[Main])
           /\ Top.code \in Code /\ Top.table \in Tables
           /\ ~ (Top.module = Main /\ room[Main] # 0) => Top.count # 0
<1>1. /\ Top = compilers[Len(compilers)] /\ Len(compilers) \in 1 .. Len(compilers)
      /\ Top \in CompilerState
  BY TopIs
<1>2. TextReads(Top, room[Main], globals[Main]) /\ Fits(Top.code, Top.count)
  BY <1>1 DEF ReadInv, TextsRead, FitInv, TextsFit
<1>3. Top.code \in Code /\ Top.table \in Tables /\ Core \in DOMAIN Top.table
  BY <1>1 DEF CompilerState, CompilersInv, Encloses
<1>4. ASSUME ~ (Top.module = Main /\ room[Main] # 0) PROVE Top.count # 0
  <2>1. Defined(Top.code, Len(Top.code) + 1, Core, Top.table[Core])
    BY <1>2, <1>3, <1>4 DEF TextReads, NamesDefined
  <2>2. PICK j \in 1 .. Len(Top.code) + 1 - 1 : IsDefinition(Top.code[j])
    BY <2>1 DEF Defined
  <2>3. j \in 1 .. Len(Top.code)
    BY <1>3, LenProperties DEF Code
  <2>4. Top.code[j] \in Instructions
    BY <1>3, <2>3, ElementOfSeq DEF Code
  <2>5. Top.code[j].index \in Nat /\ Top.code[j].index < Top.count
    BY <1>2, <2>2, <2>3, <2>4
       DEF Fits, IsDefinition, Instructions, Defines, CoreDefines, Gets, Uses, Finishes
  <2> QED BY <2>5
<1> QED BY <1>2, <1>3, <1>4

\* The activations' part of the invariant, in a step.
LEMMA RunsReadStep ==
    ASSUME TypeInv, TypeInv', CompilersInv, RunsInv, FitInv, ReadInv, Next
    PROVE  RunsRead'
<1>m. Main \in Module /\ \A f \in File : f \in Module /\ f # Main
  BY NamesAssumption DEF Module
<1>r. \A i \in 1 .. Len(runs) : /\ runs[i].code \in Code /\ runs[i].module \in Module
                                /\ runs[i].pc \in Nat
  <2>1. \A i \in 1 .. Len(runs) : runs[i] \in Activation
    BY ElementOfSeq DEF TypeInv
  <2> QED BY <2>1 DEF Activation
<1>1. ASSUME runs' # <<>> PROVE room'[Main] # 0
  <2> DEFINE i == Len(runs')
  <2>1. i \in 1 .. i
    <3>1. Len(runs') \in Nat \ {0}
      BY <1>1, StackTop DEF TypeInv
    <3> QED BY <3>1
  <2>2. CASE runs # <<>>
    BY <1>m, <2>2, RoomStep DEF ReadInv, RunsRead
  <2>3. CASE runs = <<>>
    <3>1. Len(runs) = 0
      BY <2>3
    <3>2. ~ Waits(i) /\ ~ Works(i) /\ ~ BeginsFile(i)
      BY <2>3, <3>1 DEF Waits, Works, BeginsFile, Executes
    <3>3. BeginsLine(i)
      BY <2>1, <3>2, RunsStep
    <3>4. EndLine /\ Top.ok /\ compilers # <<>>
      BY <3>3 DEF BeginsLine
    <3>5. Top.module = Main
      <4>1. Len(compilers) = 1
        BY <3>4 DEF EndLine
      <4> QED BY <3>4, <4>1, TopIs DEF CompilersInv, Encloses
    <3>6. room' = [room EXCEPT ![Main] = IF @ = 0 THEN Top.count ELSE @]
      BY <3>4 DEF EndLine
    <3> QED BY <1>m, <3>4, <3>5, <3>6, EndingText DEF TypeInv
  <2> QED BY <2>2, <2>3
<1>2. ASSUME NEW i \in 1 .. Len(runs')
      PROVE  /\ Distinct(runs'[i].code)
             /\ RunReads(runs'[i].code, i = 1, names'[Main], globals'[Main])
             /\ Done(runs'[i].code, runs'[i].pc, globals'[runs'[i].module])
  <2>e. runs' # <<>>
    <3>1. CASE runs' = <<>>
      <4>1. Len(runs') = 0
        BY <3>1
      <4> QED BY <4>1
    <3> QED BY <3>1
  <2>1. CASE Waits(i)
    <3>1. /\ i \in 1 .. Len(runs) /\ i \in 1 .. Len(runs)-1 /\ runs'[i] = runs[i]
          /\ runs # <<>>
      <4>1. CASE runs = <<>>
        <5>1. Len(runs) = 0
          BY <4>1
        <5> QED BY <2>1, <5>1 DEF Waits
      <4> QED BY <2>1, <4>1 DEF Waits
    <3>2. /\ Distinct(runs[i].code)
          /\ RunReads(runs[i].code, i = 1, names[Main], globals[Main])
          /\ Done(runs[i].code, runs[i].pc, globals[runs[i].module])
      BY <3>1 DEF ReadInv, RunsRead
    <3>3. Run = runs[Len(runs)] /\ Len(runs) \in 1 .. Len(runs) /\ i # Len(runs)
      BY <3>1, RunIs
    <3>4. runs[i].module # Run.module /\ runs[i].module \in Module
      BY <1>r, <3>1, <3>3 DEF RunsInv, Nested
    <3>5. Main # Run.module
      BY <3>1, <3>3 DEF RunsInv, Nested
    <3>6. globals'[runs[i].module] = globals[runs[i].module]
            /\ globals'[Main] = globals[Main]
      BY <1>m, <2>e, <3>1, <3>4, <3>5, OtherGlobalsStay
    <3>7. names' = names
      BY <3>1, RunningStep
    <3> QED BY <3>1, <3>2, <3>6, <3>7
  <2>2. CASE Works(i)
    <3> DEFINE c == Run.code
               m == Run.module
               p == Run.pc
    <3>1. /\ i = Len(runs) /\ i \in 1 .. Len(runs) /\ runs # <<>>
          /\ runs'[i].module = m /\ runs'[i].code = c /\ runs'[i].pc = p + 1
      BY <2>2 DEF Works
    <3>2. Run = runs[i] /\ c \in Code /\ m \in Module /\ p \in Nat
      BY <1>r, <3>1, RunIs
    <3>3. /\ Distinct(c)
          /\ RunReads(c, i = 1, names[Main], globals[Main])
          /\ Done(c, p, globals[m])
      BY <3>1, <3>2 DEF ReadInv, RunsRead
    <3>4. names' = names
      BY <3>1, RunningStep
    <3>5. Fits(c, room[m])
      BY <3>1, <3>2 DEF FitInv, RunsFit
    <3>6. CASE /\ globals' = globals
               /\ \A op \in {"define", "finish"} : ~ Executes(op)
      <4>1. \A k \in 1 .. Len(c) : k < p + 1 /\ IsDefinition(c[k]) => k < p
        <5> SUFFICES ASSUME NEW k \in 1 .. Len(c), k = p, IsDefinition(c[k]) PROVE FALSE
          BY <3>2
        <5>1. Executes(c[k].op)
          BY <3>1, <3>2, LenProperties DEF Executes, Code
        <5> QED BY <3>6, <5>1 DEF IsDefinition
      <4>2. Done(c, p + 1, globals[m])
        BY <3>3, <4>1 DEF Done
      <4> QED BY <3>1, <3>3, <3>4, <3>6, <4>2
    <3>7. ASSUME NEW op \in {"define", "finish"}, Executes(op),
                 WriteGlobal(m, Instruction.index, Instruction.name)
          PROVE  /\ Distinct(runs'[i].code)
                 /\ RunReads(runs'[i].code, i = 1, names'[Main], globals'[Main])
                 /\ Done(runs'[i].code, runs'[i].pc, globals'[runs'[i].module])
      <4> DEFINE e == Instruction
                 g == With(globals[m], e.index, e.name)
      <4>1. /\ p \in 1 .. Len(c) /\ e = c[p] /\ IsDefinition(e)
            /\ e.index \in Nat /\ e.name \in GlobalName
        BY <3>7, ExecutesIs DEF IsDefinition
      <4>2. e.index < room[m]
        BY <3>5, <4>1 DEF Fits
      <4>3. globals'[m] = g
        BY <3>2, <3>7, <4>1, <4>2, WriteGlobalType
      <4>4. /\ e.index \in DOMAIN g /\ g[e.index] = e.name
            /\ DOMAIN globals[m] \subseteq DOMAIN g
            /\ \A n \in DOMAIN globals[m] : n # e.index => g[n] = globals[m][n]
        BY WithDomain
      <4> HIDE DEF g, e
      <4>5. Done(c, p + 1, g)
        <5> SUFFICES ASSUME NEW k \in 1 .. Len(c), k < p + 1, IsDefinition(c[k])
                     PROVE  Kept(g, c[k].name, c[k].index)
          BY DEF Done
        <5>1. CASE c[k].index = e.index
          <6>1. c[k].name = e.name
            BY <3>3, <4>1, <5>1 DEF Distinct
          <6> QED BY <4>4, <5>1, <6>1 DEF Kept
        <5>2. CASE c[k].index # e.index
          <6>1. k < p
            BY <3>2, <4>1, <5>2
          <6>2. Kept(globals[m], c[k].name, c[k].index)
            BY <3>3, <6>1 DEF Done
          <6> QED BY <4>4, <5>2, <6>2 DEF Kept
        <5> QED BY <5>1, <5>2
      <4>6. ~ Fits(c, 0)
        BY <4>1 DEF Fits
      <4>7. RunReads(c, i = 1, names[Main], globals'[Main])
        BY <3>3, <4>6 DEF RunReads
      <4> QED BY <3>1, <3>3, <3>4, <4>3, <4>5, <4>7
    <3> QED BY <2>e, <3>1, <3>6, <3>7, RunningWrites
  <2>3. CASE BeginsLine(i)
    <3>1. /\ EndLine /\ Top.ok /\ compilers # <<>> /\ i = 1
          /\ runs'[i].code = Top.code /\ runs'[i].module = Main /\ runs'[i].pc = 1
      BY <2>3 DEF BeginsLine
    <3>2. Len(compilers) = 1 /\ Top = compilers[1] /\ Top.module = Main
      <4>1. Len(compilers) = 1
        BY <3>1 DEF EndLine
      <4> QED BY <3>1, <4>1, TopIs DEF CompilersInv, Encloses
    <3>3. names'[Main] = Top.table /\ globals' = globals
      BY <1>m, <3>1, <3>2 DEF EndLine, KeepNames, TypeInv
    <3>4. TextReads(Top, room[Main], globals[Main])
      BY <3>1, EndingText
    <3>5. Done(Top.code, 1, globals[Main])
      BY DEF Done
    <3>6. RunReads(Top.code, TRUE, Top.table, globals[Main])
      <4>1. CASE room[Main] = 0
        BY <3>2, <3>4, <4>1 DEF TextReads, RunReads
      <4>2. CASE room[Main] # 0
        <5>1. Fits(Top.code, 0)
          BY <3>1, <3>2, <4>2 DEF FitInv, TextsFit
        <5> QED BY <3>2, <3>4, <4>2, <5>1 DEF TextReads, RunReads
      <4> QED BY <4>1, <4>2
    <3>7. (i = 1) = TRUE
      BY <3>1
    <3> QED BY <3>1, <3>3, <3>4, <3>5, <3>6, <3>7 DEF TextReads
  <2>4. CASE BeginsFile(i)
    <3> DEFINE m == Instruction.from
    <3>1. /\ runs'[i].code = closure[m] /\ runs'[i].module = m /\ runs'[i].pc = 1
          /\ i = Len(runs) + 1 /\ m \in File /\ state[m] = "loaded" /\ runs # <<>>
      BY <2>4 DEF BeginsFile, Executes
    <3>2. i # 1
      <4>1. Len(runs) \in Nat \ {0}
        BY <3>1, RunIs
      <4> QED BY <3>1, <4>1
    <3>3. Distinct(closure[m]) /\ GetsDefined(closure[m])
      BY <3>1 DEF ReadInv, FilesRead, Ready
    <3>4. Done(closure[m], 1, globals'[m])
      BY DEF Done
    <3>5. RunReads(closure[m], FALSE, names'[Main], globals'[Main])
      BY <3>3 DEF RunReads
    <3>6. (i = 1) = FALSE
      BY <3>2
    <3> QED BY <3>1, <3>3, <3>4, <3>5, <3>6
  <2> QED BY <2>1, <2>2, <2>3, <2>4, RunsStep
<1> QED BY <1>1, <1>2 DEF RunsRead

\* When a line has run, every name it leaves has its element written.
LEMMA BetweenLinesStep ==
    ASSUME TypeInv, TypeInv', CompilersInv, RunsInv, ReadInv, Next
    PROVE  BetweenLines'
<1> SUFFICES ASSUME ~failed', ~crashed', compilers' = <<>>, runs' = <<>>
             PROVE  IF room'[Main] = 0 THEN DOMAIN names'[Main] = {}
                    ELSE NamesKept(names'[Main], globals'[Main])
  BY DEF BetweenLines
<1>1. CASE runs = <<>>
  <2>1. ~ RunsAStep
    BY <1>1 DEF RunsAStep, ExecuteDefine, ExecuteGet, ExecuteUse, ExecuteFinishUse, Return,
                Executes
  <2>2. ~ Interpret
    <3>1. Interpret => compilers' # <<>>
      BY DEF Interpret
    <3> QED BY <3>1
  <2>3. ~ Declares
    <3>1. ASSUME Declares PROVE FALSE
      <4>1. PICK d \in CompilerState : Edits(d)
        BY <3>1, DeclareStep
      <4> QED BY <4>1, EditsShape
    <3> QED BY <3>1
  <2>4. \A f \in File, x \in Name : ~ CompileModule(f, x)
    BY ModuleShape
  <2>5. ~ EndModule
    BY EndModuleShape
  <2>6. ~ EndLine
    <3>1. ASSUME EndLine PROVE FALSE
      <4>1. failed' = TRUE \/ runs' = <<[module |-> Main, code |-> Top.code, pc |-> 1]>>
        BY <3>1 DEF EndLine
      <4> QED BY <4>1
    <3> QED BY <3>1
  <2> QED BY <2>1, <2>2, <2>3, <2>4, <2>5, <2>6 DEF Next, Declares, RunsAStep
<1>2. CASE runs # <<>>
  <2>1. RunsAStep /\ names' = names
    BY <1>2, RunningStep
  <2>2. Advanced # <<>> /\ \A m \in Module : Append(Advanced,
            [module |-> m, code |-> closure[m], pc |-> 1]) # <<>>
    BY <1>2, AdvancedShape, EnterShape
  <2>3. ~ Panic
    BY DEF Panic
  <2>4. Return
    <3>1. ~ ExecuteDefine /\ ~ ExecuteGet /\ ~ ExecuteFinishUse
      BY <2>2, <2>3 DEF ExecuteDefine, ExecuteGet, ExecuteFinishUse
    <3>2. ~ ExecuteUse
      <4>1. ASSUME ExecuteUse PROVE FALSE
        <5>1. Instruction.from \in Module
          BY <4>1, ExecutesIs DEF ExecuteUse, Module
        <5> QED BY <2>2, <2>3, <4>1, <5>1 DEF ExecuteUse
      <4> QED BY <4>1
    <3> QED BY <2>1, <3>1, <3>2 DEF RunsAStep
  <2>5. Len(runs) = 1 /\ Run = runs[1] /\ 1 \in 1 .. Len(runs)
    <3>1. Len(runs') = Len(runs) - 1 /\ Len(runs') = 0 /\ Len(runs) \in Nat
      BY <1>2, <2>4, ReturnShape, RunIs
    <3>2. Len(runs) = 1
      BY <3>1
    <3> QED BY <1>2, <3>2, RunIs
  <2>6. Run.module = Main
    BY <2>5 DEF RunsInv, Nested
  <2>7. room' = room /\ globals' = globals /\ room[Main] # 0
    BY <1>2, <2>4 DEF Return, ReadInv, RunsRead
  <2> DEFINE c == Run.code
  <2>8. /\ RunReads(c, 1 = 1, names[Main], globals[Main])
        /\ Done(c, Run.pc, globals[Main])
    BY <2>5, <2>6 DEF ReadInv, RunsRead
  <2>9. NamesKept(names[Main], globals[Main])
    <3>1. CASE NamesDefined(names[Main], c)
      <4> SUFFICES ASSUME NEW x \in DOMAIN names[Main]
                   PROVE  Kept(globals[Main], x, names[Main][x])
        BY DEF NamesKept
      <4>1. PICK j \in 1 .. Len(c) + 1 - 1 : /\ IsDefinition(c[j]) /\ c[j].name = x
                                             /\ c[j].index = names[Main][x]
        BY <3>1 DEF NamesDefined, Defined
      <4>2. Len(c) \in Nat /\ Run.pc \in Nat
        BY <1>2, RunIs, LenProperties DEF Activation, Code
      <4>3. j \in 1 .. Len(c) /\ j < Run.pc
        BY <2>4, <4>2 DEF Return
      <4> QED BY <2>8, <4>1, <4>3 DEF Done
    <3> QED BY <2>8, <3>1 DEF RunReads
  <2> QED BY <2>1, <2>7, <2>9
<1> QED BY <1>1, <1>2

\* The parts together.
LEMMA ReadInvInductive ==
    ASSUME Idioms = {}
    PROVE  TypeInv /\ TypeInv' /\ CompilersInv /\ CompilersInv' /\ RunsInv /\ FitInv
             /\ ReadInv
              /\ [Next]_vars => ReadInv'
<1> SUFFICES ASSUME TypeInv, TypeInv', CompilersInv, CompilersInv', RunsInv, FitInv,
  ReadInv,
                    [Next]_vars
             PROVE  ReadInv'
  OBVIOUS
<1>0. CASE UNCHANGED vars
  BY <1>0 DEF vars, moduleVars, ReadInv, UnreadFilesAreBlank, TextsRead, FilesRead,
              BetweenLines, RunsRead
<1>n. CASE Next
  <2>1. UnreadFilesAreBlank'
    BY <1>n, BlankStep DEF ReadInv, UnreadFilesAreBlank
  <2>2. TextsRead' /\ RunsRead' /\ BetweenLines'
    BY <1>n, TextsReadStep, RunsReadStep, BetweenLinesStep
  <2>3. FilesRead'
    <3> SUFFICES ASSUME NEW m \in File, state'[m] \in Ready
                 PROVE  Distinct(closure'[m]) /\ GetsDefined(closure'[m])
      BY DEF FilesRead
    <3>1. CASE state[m] \in Ready
      BY <1>n, <3>1, FileStep DEF ReadInv, FilesRead
    <3>2. CASE state[m] \notin Ready
      <4>1. EndModule /\ Top.module = m /\ Top.ok /\ closure'[m] = Top.code
        BY <1>n, <3>2, FileStep
      <4>2. compilers # <<>> /\ m # Main
        BY <4>1, EndModuleShape, NamesAssumption
      <4>3. TextReads(Top, room[Main], globals[Main])
        BY <4>1, <4>2, EndingText
      <4> QED BY <4>1, <4>2, <4>3 DEF TextReads
    <3> QED BY <3>1, <3>2
  <2> QED BY <2>1, <2>2, <2>3 DEF ReadInv
<1> QED BY <1>0, <1>n

\* ... so the read at work finds a definition of its name.
LEMMA ReadsAreOfDefinitions ==
    ASSUME TypeInv, RunsInv, ReadInv
    PROVE  ReadsSeeDefinitions
<1> SUFFICES ASSUME Executes("get")
             PROVE  Kept(globals[Run.module], Instruction.name, Instruction.index)
  BY DEF ReadsSeeDefinitions, Kept
<1>1. /\ runs # <<>> /\ Run.pc \in 1 .. Len(Run.code)
      /\ Instruction = Run.code[Run.pc] /\ Instruction.op = "get"
  BY ExecutesIs
<1> DEFINE n == Len(runs)
           c == Run.code
           p == Run.pc
<1>2. Run = runs[n] /\ n \in 1 .. n /\ c \in Code /\ p \in Nat
  BY <1>1, RunIs DEF Activation
<1>3. RunReads(c, n = 1, names[Main], globals[Main]) /\ Done(c, p, globals[Run.module])
  BY <1>2 DEF ReadInv, RunsRead
<1>4. CASE GetsDefined(c)
  <2>1. PICK j \in 1 .. p-1 : /\ IsDefinition(c[j]) /\ c[j].name = Instruction.name
                              /\ c[j].index = Instruction.index
    BY <1>1, <1>4 DEF GetsDefined, Defined
  <2>2. j \in 1 .. Len(c) /\ j < p
    BY <1>1, <1>2, LenProperties DEF Code
  <2> QED BY <1>3, <2>1, <2>2 DEF Done
<1>5. CASE n = 1 /\ GetsKept(c, globals[Main])
  <2>1. Run.module = Main
    BY <1>2, <1>5 DEF RunsInv, Nested
  <2> QED BY <1>1, <1>5, <2>1 DEF GetsKept
<1> QED BY <1>3, <1>4, <1>5 DEF RunReads

-----------------------------------------------------------------------------
(***************************************************************************)
(* The theorems.                                                           *)
(***************************************************************************)
\* Every definition that runs has its place in the array of its module, if no line after
\* the first declares a name: interpret allocates the array of the script once.
THEOREM DefinitionsFit ==
    ASSUME "later" \notin Idioms
    PROVE  Spec => []DefinitionsFitTheArray
<1>1. Init => FitInv
  <2> SUFFICES ASSUME Init PROVE FitInv
    OBVIOUS
  <2>1. Len(compilers) = 0 /\ Len(runs) = 0 /\ room[Main] = 0
        /\ \A m \in File : state[m] = "none"
    BY NamesAssumption DEF Init, Module
  <2> QED BY <2>1 DEF FitInv, TextsFit, FilesFit, RunsFit, Ready
<1>2. Inv /\ Inv' /\ FitInv /\ [Next]_vars => FitInv'
  BY FitInvInductive DEF Inv
<1>3. Inv /\ FitInv => DefinitionsFitTheArray
  BY FitMeansFits DEF Inv
<1> QED BY <1>1, <1>2, <1>3, InvHolds, PTL DEF Spec

\* The four invariants of a session that MCSession checks together: types, one compiler
\* for a file, the import stack without circles, and definitions inside the arrays.
THEOREM SessionsAreSound ==
    ASSUME "later" \notin Idioms
    PROVE  Spec => []SessionIsSound
BY SessionTypeOK, CirclesEndInAnError, DefinitionsFit, PTL DEF SessionIsSound

\* OP_GET_GLOBAL finds the element that a definition of that name, in the module of the
\* code, has written, in sessions with none of the idioms.
THEOREM ReadsFindDefinitions ==
    ASSUME Idioms = {}
    PROVE  Spec => []ReadsSeeDefinitions
<1>1. Init => FitInv /\ ReadInv
  <2> SUFFICES ASSUME Init PROVE FitInv /\ ReadInv
    OBVIOUS
  <2>1. /\ Len(compilers) = 0 /\ Len(runs) = 0 /\ runs = <<>> /\ room[Main] = 0
        /\ names[Main] = Empty
        /\ \A m \in File : state[m] = "none" /\ names[m] = Empty
    BY NamesAssumption DEF Init, Module
  <2>2. DOMAIN Empty = {}
    BY DEF Empty
  <2> QED BY <2>1, <2>2 DEF FitInv, TextsFit, FilesFit, RunsFit, Ready, ReadInv,
             UnreadFilesAreBlank, TextsRead, FilesRead, BetweenLines, RunsRead
<1>2. Inv /\ Inv' /\ FitInv /\ ReadInv /\ [Next]_vars => FitInv' /\ ReadInv'
  BY FitInvInductive, ReadInvInductive DEF Inv
<1>3. Inv /\ ReadInv => ReadsSeeDefinitions
  BY ReadsAreOfDefinitions DEF Inv
<1> QED BY <1>1, <1>2, <1>3, InvHolds, PTL DEF Spec
=============================================================================
