---------------------------- MODULE Constructors ----------------------------
(***************************************************************************)
(* The C functions that make and grow heap objects (src/src/object.c), as  *)
(* programs of a small machine: what they allocate, in which order they    *)
(* write the parts of what they made, and when they push and pop it.       *)
(* Between two instructions nothing happens; a collection can run only     *)
(* inside an allocation.  Module Rooting runs the programs.                *)
(*                                                                         *)
(* An operator here is a C function; its arguments are the names of the C  *)
(* variables it is called with, the last of them the one that gets its     *)
(* result.  Sizes, hashes and contents without references are left out.    *)
(***************************************************************************)
EXTENDS Sequences

(***************************************************************************)
(* The instructions.                                                       *)
(***************************************************************************)

\* x = ALLOCATE_OBJECT(kind): a new object none of whose parts is written
Alloc(kind, x) == <<[op |-> "alloc", kind |-> kind, x |-> x]>>

\* ALLOCATE or GROW_ARRAY of memory that is not an object
Memory == <<[op |-> "memory"]>>

\* push(module_record, x), pop(module_record), stack_top -= n
Push(x) == <<[op |-> "push", x |-> x]>>
Drop(n) == <<[op |-> "drop", n |-> n]>>
Pop == Drop(1)

\* x->part = ys, the objects it refers to; adding y to x->part
Write(x, part, ys) == <<[op |-> "write", x |-> x, part |-> part, ys |-> ys]>>
Add(x, part, y) == <<[op |-> "add", x |-> x, part |-> part, y |-> y]>>

\* x = some element of y->part, which stays there or is taken out
Load(x, y, part) == <<[op |-> "load", x |-> x, y |-> y, part |-> part]>>
Take(x, y, part) == <<[op |-> "take", x |-> x, y |-> y, part |-> part]>>

\* x = y;  x = the value at the top of the stack;  *x is read
Let(x, y) == <<[op |-> "let", x |-> x, y |-> y]>>
Peek(x) == <<[op |-> "peek", x |-> x]>>
Use(x) == <<[op |-> "use", x |-> x]>>

\* stack_top[-n] = x;  mark_value(x) outside of a collection
SetSlot(n, x) == <<[op |-> "setSlot", n |-> n, x |-> x]>>
Mark(x) == <<[op |-> "mark", x |-> x]>>

\* vm->strings gets the string x
Intern(x) == <<[op |-> "intern", x |-> x]>>

\* the struct instance stack
PushStruct(x) == <<[op |-> "pushStruct", x |-> x]>>
PopStruct(x) == <<[op |-> "popStruct", x |-> x]>>

\* one of several ways on; a loop of at most two rounds
Either(paths) == <<[op |-> "either", paths |-> paths]>>
Sometimes(code) == Either({<<>>, code})
Loop(code) == Either({<<>>, code, code \o code})

(***************************************************************************)
(* What the collector knows of a kind of object.                           *)
(***************************************************************************)

\* the parts blacken_object reads.  Of a set it reads the entries of its table.
Traced ==
    [closure  |-> {"function", "upvalues"}, upvalue |-> {"closed"},
     function |-> {"name"},                 array   |-> {"values"},
     table    |-> {"entries"},              set     |-> {"entries"},
     tuple    |-> {"elements"},             error   |-> {"message"},
     result   |-> {"as"},                   option  |-> {"value"},
     iterator |-> {"iterable"},             struct  |-> {"name"},
     instance |-> {"struct_type", "fields"}, file   |-> {"path", "mode"},
     string   |-> {},                       range   |-> {}]

\* the parts free_object gives back with the object, besides itself
Owned ==
    [closure  |-> {"upvalues"}, upvalue |-> {},         function |-> {},
     array    |-> {"values"},   table   |-> {"entries"}, set     |-> {"entries"},
     tuple    |-> {"elements"}, error   |-> {},          result  |-> {},
     option   |-> {},           iterator |-> {},         struct  |-> {},
     instance |-> {"fields"},   file    |-> {},          string  |-> {"chars"},
     range    |-> {}]

ObjectKinds == DOMAIN Traced
Members(kind) == Traced[kind] \cup Owned[kind]

(***************************************************************************)
(* Strings: new ones are entered in the intern pool, whose strings are     *)
(* roots of the collector; one that is there already is not made again.    *)
(***************************************************************************)
AllocateString(x) ==
    Alloc("string", x) \o Write(x, "chars", {}) \o Push(x)
        \o Sometimes(Memory) \o Intern(x) \o Pop

CopyString(x) == Either({Let(x, "pooled"), Memory \o AllocateString(x)})

TakeString(x) == Either({Let(x, "pooled"), AllocateString(x)})

\* to_string of a string, of a scalar or a name, of a collection
TextOf(v, x) == Either({Let(x, v), CopyString(x), Memory \o TakeString(x)})

\* to_string of a native callable: the buffer is the string's from take_string
\* on, and is freed after it
ToStringOfNative(x) == Memory \o AllocateString(x) \o Write(x, "chars", {"memory"})

(***************************************************************************)
(* Errors, results, options.                                               *)
(***************************************************************************)
NewError(message, x) ==
    Push(message) \o Alloc("error", x) \o Pop \o Write(x, "message", {message})

\* mutant: the pop is missing
NewOkResultUnpopped(v, x) == Push(v) \o Alloc("result", x) \o Write(x, "as", {v})

NewOkResult(v, x) == Push(v) \o Alloc("result", x) \o Pop \o Write(x, "as", {v})

NewErrorResult(error, x) ==
    Push(error) \o Alloc("result", x) \o Pop \o Write(x, "as", {error})

NewOption(v, x) == Alloc("option", x) \o Write(x, "value", {v})

MakeGcSafeError(x) ==
    CopyString("message") \o Push("message")
        \o NewError("message", "error") \o Push("error")
        \o NewErrorResult("error", x) \o Drop(2)

(***************************************************************************)
(* Collections.  An array has size 0 while its memory is allocated and so  *)
(* shows the collector no element; a table has no entries; a tuple has its *)
(* size but no elements yet, unless it is empty; a set has no table.       *)
(***************************************************************************)
NewArray(x) ==
    Alloc("array", x) \o Push(x) \o Write(x, "values", {}) \o Memory \o Pop

NewObjectTable(x) ==
    Alloc("table", x) \o Push(x) \o Write(x, "entries", {}) \o Memory \o Pop

NewTuple(x, empty) ==
    Alloc("tuple", x)
        \o (IF empty THEN Write(x, "elements", {}) \o Push(x)
                     ELSE Push(x) \o Memory)
        \o Pop

NewSet(x) ==
    Alloc("set", x) \o Push(x) \o NewObjectTable("setTable")
        \o Write(x, "entries", {"setTable"}) \o Pop

EnsureCapacity(array) == Sometimes(Push(array) \o Memory \o Pop)

ArrayAdd(array, v) == EnsureCapacity(array) \o Mark(v) \o Add(array, "values", v)

ArrayAddBack(array, v) == EnsureCapacity(array) \o Add(array, "values", v)

AdjustCapacity(table) == Push(table) \o Memory \o Pop

ObjectTableSet(table, k, v) ==
    Sometimes(AdjustCapacity(table)) \o Mark(k) \o Mark(v)
        \o Add(table, "entries", k) \o Add(table, "entries", v)

(***************************************************************************)
(* Functions, structs, iterators, files.                                   *)
(***************************************************************************)
NewUpvalue(x) == Alloc("upvalue", x) \o Write(x, "closed", {})

\* "memory" is the array of upvalue pointers, pushed as if it were an object;
\* of a function without upvalues it is NULL
NewClosure(function, x, captures) ==
    Push(function)
        \o (IF captures THEN Memory \o Push("memory") ELSE Push("nil"))
        \o Alloc("closure", x) \o Drop(2)
        \o Write(x, "function", {function}) \o Write(x, "upvalues", {})

NewStructType(name, x) ==
    Push(name) \o Alloc("struct", x) \o Pop \o Write(x, "name", {name})

NewStructInstance(type, x) ==
    Push(type) \o Alloc("instance", x) \o Push(x)
        \o Write(x, "struct_type", {type}) \o Write(x, "fields", {}) \o Memory \o Drop(2)

NewRange(x) == Alloc("range", x)

NewIterator(v, x) == Alloc("iterator", x) \o Write(x, "iterable", {v})

NewObjectFile(path, mode, x) ==
    Push(path) \o Push(mode) \o Alloc("file", x) \o Drop(2)
        \o Write(x, "path", {path}) \o Write(x, "mode", {mode}) \o Use(path) \o Use(mode)
=============================================================================
