------------------------------ MODULE MCMemory ------------------------------
(***************************************************************************)
(* Memory from both sides, one at a time (part says which): the heap under *)
(* scripts whose objects are all reachable by the time of a collection,    *)
(* with four slots in slabs of two and "len" a name of the library; and    *)
(* the C code that builds objects with a collection before each of its     *)
(* allocations.                                                            *)
(***************************************************************************)
EXTENDS Heap

CONSTANT Parts \* what is explored: "heap", "native"

MCLibraryNames == <<"len">>

-----------------------------------------------------------------------------
VARIABLES nativeHeap, nativeStack, structs, nativePool, nativeMarks, local, code

nativeVars == <<nativeHeap, nativeStack, structs, nativePool, nativeMarks, local, code>>

CONSTANT Procedures

Native == INSTANCE Rooting WITH
    heap <- nativeHeap, stack <- nativeStack, pool <- nativePool, marked <- nativeMarks

\* those that are rooted as they should be
Programs == INSTANCE Natives

MCProcedures == DOMAIN Programs!Procedure \ Programs!Unsound

ASSUME Native!ProceduresAssumption

-----------------------------------------------------------------------------
VARIABLE part

heapAndScript == <<heapVars, markVars, gcVars, scriptVars, slabVars>>

MemoryInit ==
    /\ part \in Parts
    /\ Init
    /\ IF part = "native" THEN Native!Init
       ELSE /\ nativeHeap = <<>> /\ nativeStack = <<>> /\ structs = <<>>
            /\ nativePool = {} /\ nativeMarks = {} /\ local = <<>> /\ code = <<>>

HeapStep == part = "heap" /\ Next /\ UNCHANGED <<part, nativeVars>>
NativeStep == part = "native" /\ Native!Next /\ UNCHANGED <<part, heapAndScript>>

MemorySpec == MemoryInit /\ [][HeapStep \/ NativeStep]_<<part, heapAndScript, nativeVars>>
FairMemorySpec == MemorySpec /\ WF_vars(Collector)

-----------------------------------------------------------------------------
\* A collection that starts while an object is being built finds every part of
\* what it reads assigned, and what it frees is not in a C variable that is
\* used later.  When the C code returns, on every path, the stack is as the
\* compiler counts on and what is left on it is complete (see Rooting).
NativesAreSound ==
    part = "native" =>
        /\ Native!TypeOK /\ Native!CollectorReadsWhatWasWritten /\ Native!NothingFreedIsUsed
        /\ Native!StackIsBalanced /\ Native!ResultsAreComplete
=============================================================================
