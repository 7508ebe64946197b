------------------------------ MODULE Rooting ------------------------------
(***************************************************************************)
(* Objects under construction and the collector.  The machine that runs    *)
(* one procedure of Natives in a small world of objects; every allocation  *)
(* may collect first (src/src/memory/alloc.c), and the collector traces    *)
(* from the value stack, the struct instance stack and the intern pool     *)
(* (src/src/memory/garbage_collector.c).  What a C variable points to is   *)
(* no root.  Objects are numbered in the order of their allocation and no  *)
(* number is used again, so that a variable that outlives its object shows. *)
(***************************************************************************)
EXTENDS Natives, FiniteSets, TLC

Sq == INSTANCE SequencesExt

CONSTANT Procedures   \* the names, of DOMAIN Procedure, of those that are run

VARIABLES heap,     \* the objects allocated so far: kind, or Freed, and parts
          stack,    \* the value stack of the module
          structs,  \* vm->struct_instance_stack
          pool,     \* the strings vm->strings holds
          marked,   \* the objects marked since the last collection
          local,    \* the C variables: name |-> object
          code      \* what remains to be done

vars == <<heap, stack, structs, pool, marked, local, code>>

Freed == "freed"

\* Memory that was not written or is not an object, where one is referred to
Garbage == 0

ProceduresAssumption == Procedures \subseteq DOMAIN Procedure

(***************************************************************************)
(* The world a procedure finds: <<name, kind, part, what the part refers   *)
(* to>>; the strings are interned, the scalar is immortal.                 *)
(***************************************************************************)
World ==
    << <<"nil",      "range",    "",            {}>>,
       <<"below",    "range",    "",            {}>>,
       <<"pooled",   "string",   "chars",       {}>>,
       <<"text",     "string",   "chars",       {}>>,
       <<"function", "function", "name",        {"text"}>>,
       <<"callable", "closure",  "function",    {"function"}>>,
       <<"first",    "range",    "",            {}>>,
       <<"second",   "range",    "",            {}>>,
       <<"array",    "array",    "values",      {"first", "second"}>>,
       <<"other",    "array",    "values",      {"second"}>>,
       <<"held",     "range",    "",            {}>>,
       <<"table",    "table",    "entries",     {"text", "held"}>>,
       <<"struct",   "struct",   "name",        {"text"}>>,
       <<"value",    "instance", "struct_type", {"struct"}>>,
       <<"iterator", "iterator", "iterable",    {"array"}>> >>

Slot(name) == CHOOSE i \in DOMAIN World : World[i][1] = name

WorldHeap ==
    [i \in DOMAIN World |->
        [kind |-> World[i][2],
         part |-> [p \in Members(World[i][2]) |->
                      IF p = World[i][3] THEN {Slot(n) : n \in World[i][4]} ELSE {}]]]

\* An immortal object and the constant table of the running function, which the
\* frame's closure keeps; everything else is kept by those who hold it.
Immortal == {Slot("nil"), Slot("function")}

(***************************************************************************)
(* collect_garbage.  IsAlive: an object one can read; Refs: what blacken   *)
(* marks for it, for a set what its table's entries hold.                  *)
(***************************************************************************)
IsAlive(h, o) == o \in DOMAIN h /\ h[o].kind # Freed

PartsOf(h, o, names) == UNION {h[o].part[p] : p \in names}

Refs(h, o) ==
    IF ~IsAlive(h, o) THEN {Garbage}
    ELSE LET direct == PartsOf(h, o, Traced[h[o].kind])
         IN  IF h[o].kind # "set" THEN direct
             ELSE UNION {IF IsAlive(h, t) THEN h[t].part.entries ELSE {Garbage} : t \in direct}

\* What was marked before the collection is on the gray stack and traced as well.
Roots(p) == Immortal \cup p \cup marked \cup Sq!ToSet(stack) \cup Sq!ToSet(structs)

\* objs and all that is reached from them
Closed(h, objs) ==
    LET Close[s \in SUBSET Nat] ==
            LET t == s \cup UNION {Refs(h, o) : o \in s \ {Garbage}}
            IN  IF t = s THEN s ELSE Close[t]
    IN  Close[objs]

Reached(h, p) == Closed(h, Roots(p))

Sweep(h, kept) ==
    [o \in DOMAIN h |-> IF o \in kept \/ h[o].kind = Freed THEN h[o]
                        ELSE [kind |-> Freed, part |-> <<>>]]

\* the memory of an unreachable object that the sweep gives back
Released(h, kept) ==
    UNION {PartsOf(h, o, Owned[h[o].kind]) : o \in {x \in DOMAIN h \ kept : h[x].kind # Freed}}

\* the heap and the marks with which an allocation goes on: it collects or not
Collections == {<<heap, marked>>, <<Sweep(heap, Reached(heap, pool)), {}>>}

(***************************************************************************)
(* The instructions.                                                       *)
(***************************************************************************)
Instr == Head(code)
Doing(op) == code # <<>> /\ Instr.op = op
Done == code' = Tail(code)
Value(name) == local[name]
Values(names) == {local[n] : n \in names}

Bind(name, o) == local' = (name :> o) @@ local

Allocate ==
    /\ Doing("alloc")
    /\ \E after \in Collections :
          /\ heap' = Append(after[1], [kind |-> Instr.kind,
                                      part |-> [p \in Members(Instr.kind) |-> {Garbage}]])
          /\ marked' = after[2]
    /\ Bind(Instr.x, Len(heap) + 1)
    /\ Done
    /\ UNCHANGED <<stack, structs, pool>>

AllocateMemory ==
    /\ Doing("memory")
    /\ \E after \in Collections : heap' = after[1] /\ marked' = after[2]
    /\ Done
    /\ UNCHANGED <<stack, structs, pool, local>>

PushValue ==
    /\ Doing("push")
    /\ stack' = Append(stack, Value(Instr.x))
    /\ Done
    /\ UNCHANGED <<heap, structs, pool, marked, local>>

DropValues ==
    /\ Doing("drop")
    /\ stack' = SubSeq(stack, 1, Len(stack) - Instr.n)
    /\ Done
    /\ UNCHANGED <<heap, structs, pool, marked, local>>

SetStackSlot ==
    /\ Doing("setSlot")
    /\ stack' = [stack EXCEPT ![Len(stack) + 1 - Instr.n] = Value(Instr.x)]
    /\ Done
    /\ UNCHANGED <<heap, structs, pool, marked, local>>

MarkValue ==
    /\ Doing("mark")
    /\ marked' = marked \cup {Value(Instr.x)}
    /\ Done
    /\ UNCHANGED <<heap, stack, structs, pool, local>>

WritePart ==
    /\ Doing("write") \/ Doing("add")
    /\ heap' = [heap EXCEPT ![Value(Instr.x)].part[Instr.part] =
                   IF Instr.op = "write" THEN Values(Instr.ys) ELSE @ \cup {Value(Instr.y)}]
    /\ Done
    /\ UNCHANGED <<stack, structs, pool, marked, local>>

LoadPart ==
    /\ Doing("load") \/ Doing("take")
    /\ LET from == Value(Instr.y) IN
       \E o \in heap[from].part[Instr.part] :
          /\ Bind(Instr.x, o)
          /\ heap' = IF Instr.op = "load" THEN heap
                     ELSE [heap EXCEPT ![from].part[Instr.part] = @ \ {o}]
    /\ Done
    /\ UNCHANGED <<stack, structs, pool, marked>>

Assign ==
    /\ Doing("let") \/ Doing("peek")
    /\ Bind(Instr.x, IF Instr.op = "let" THEN Value(Instr.y) ELSE Sq!Last(stack))
    /\ Done
    /\ UNCHANGED <<heap, stack, structs, pool, marked>>

Read ==
    /\ Doing("use")
    /\ Done
    /\ UNCHANGED <<heap, stack, structs, pool, marked, local>>

InternString ==
    /\ Doing("intern")
    /\ pool' = pool \cup {Value(Instr.x)}
    /\ Done
    /\ UNCHANGED <<heap, stack, structs, marked, local>>

PushStructInstance ==
    /\ Doing("pushStruct")
    /\ structs' = Append(structs, Value(Instr.x))
    /\ Done
    /\ UNCHANGED <<heap, stack, pool, marked, local>>

PopStructInstance ==
    /\ Doing("popStruct")
    /\ structs' = Sq!Front(structs)
    /\ Bind(Instr.x, Sq!Last(structs))
    /\ Done
    /\ UNCHANGED <<heap, stack, pool, marked>>

Branch ==
    /\ Doing("either")
    /\ \E path \in Instr.paths : code' = path \o Tail(code)
    /\ UNCHANGED <<heap, stack, structs, pool, marked, local>>

Init ==
    /\ \E p \in Procedures :
          /\ code = Procedure[p].code
          /\ stack = [i \in DOMAIN Procedure[p].on |-> Slot(Procedure[p].on[i])]
    /\ heap = WorldHeap
    /\ structs = <<>>
    /\ pool = {Slot("pooled"), Slot("text")}
    /\ marked = {}
    /\ local = [n \in {World[i][1] : i \in DOMAIN World} \cup {"memory", "lowest"} |->
                   IF n = "memory" THEN Garbage ELSE IF n = "lowest" THEN stack[1] ELSE Slot(n)]

Next ==
    \/ Allocate \/ AllocateMemory
    \/ PushValue \/ DropValues \/ SetStackSlot \/ MarkValue
    \/ WritePart \/ LoadPart \/ Assign \/ Read \/ InternString
    \/ PushStructInstance \/ PopStructInstance
    \/ Branch

Spec == Init /\ [][Next]_vars
-----------------------------------------------------------------------------
(***************************************************************************)
(* Properties.                                                             *)
(***************************************************************************)
Objects == DOMAIN heap \cup {Garbage}

TypeOK ==
    /\ \A o \in DOMAIN heap :
          IF heap[o].kind = Freed THEN heap[o].part = <<>>
          ELSE /\ heap[o].kind \in ObjectKinds
               /\ heap[o].part \in [Members(heap[o].kind) -> SUBSET Objects]
    /\ stack \in Seq(Objects)
    /\ structs \in Seq(DOMAIN heap)
    /\ pool \subseteq DOMAIN heap
    /\ marked \subseteq DOMAIN heap
    /\ \A n \in DOMAIN local : local[n] \in Objects

MayCollect == Doing("alloc") \/ Doing("memory")

(***************************************************************************)
(* Whenever an allocation may collect, all that the collector would read   *)
(* was written: the objects it reaches are objects that exist, their parts *)
(* were assigned (as NULL or with size 0 while their memory is still being *)
(* allocated), and what it sweeps owns nothing that was not assigned.      *)
(***************************************************************************)
CollectorReadsWhatWasWritten ==
    MayCollect =>
        LET kept == Reached(heap, pool)
        IN  /\ Garbage \notin kept
            /\ Garbage \notin Released(heap, kept)

\* the variables an instruction looks through or stores
Touched ==
    CASE Instr.op \in {"push", "setSlot", "mark", "intern", "use", "pushStruct"} -> {Instr.x}
      [] Instr.op \in {"add"}          -> {Instr.x, Instr.y}
      [] Instr.op \in {"load", "take"} -> {Instr.y}
      [] Instr.op = "write"            -> {Instr.x} \cup Instr.ys
      [] OTHER                         -> {}

(***************************************************************************)
(* No C variable that an instruction goes through or stores points to an   *)
(* object that a collection has freed since it was assigned.  ("memory",   *)
(* pushed as if it were an object, is the matter of the property above.)   *)
(***************************************************************************)
NothingFreedIsUsed ==
    code # <<>> => \A n \in Touched \ {"memory"} : IsAlive(heap, Value(n))

(***************************************************************************)
(* On every way out a procedure leaves the stack as it found it, with its  *)
(* operands replaced by one result: the locals of the script below are     *)
(* where the compiler counts on them.  The struct stack is empty again.    *)
(***************************************************************************)
StackIsBalanced ==
    code = <<>> =>
        /\ Len(stack) = 2
        /\ stack[1] = Value("lowest")
        /\ structs = <<>>

(***************************************************************************)
(* What is left on the stack is finished: it and all that is reached from  *)
(* it exists and has every part assigned, those that only freeing it would *)
(* read included.                                                          *)
(***************************************************************************)
ResultsAreComplete ==
    code = <<>> =>
        \A o \in Reached(heap, pool) :
            /\ IsAlive(heap, o)
            /\ Garbage \notin PartsOf(heap, o, Members(heap[o].kind))
=============================================================================
