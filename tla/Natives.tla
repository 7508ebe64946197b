------------------------------- MODULE Natives -------------------------------
(***************************************************************************)
(* Instructions of the VM (src/src/vm/) and functions of the standard      *)
(* library (src/src/stdlib/) that make objects, as programs of the machine *)
(* of Constructors.  A procedure is given by what is on the stack before   *)
(* it and its code; "below" is a local of the script, which it must leave  *)
(* alone, and it leaves one result on top of it.  The objects of the world *)
(* it runs in are named in Rooting; "nil" stands for scalars and natives.  *)
(***************************************************************************)
EXTENDS Naturals, Constructors

\* An instruction pops its operands and pushes its result itself.
Instruction(operands, code) == [on |-> <<"below">> \o operands, code |-> code]

(***************************************************************************)
(* call_value for a native: its arguments stay on the stack while it runs, *)
(* above the callee; then they are replaced by what it returned in "out".  *)
(***************************************************************************)
Native(args, code) ==
    [on   |-> <<"below", "nil">> \o args,
     code |-> code \o Drop(Len(args) + 1) \o Push("out")]

(***************************************************************************)
(* OP_INVOKE_STDLIB and handle_invoke: a method has no slot for its callee.*)
(* The native goes into the slot below the receiver; what was there, the   *)
(* original, is marked, kept in a C variable while the method runs, and    *)
(* put back below the result.                                              *)
(***************************************************************************)
Method(below, args, code) ==
    [on   |-> <<below>> \o args,
     code |-> Let("original", "lowest") \o Mark("original") \o SetSlot(Len(args) + 1, "nil")
                  \o code \o Drop(Len(args) + 1) \o Push("out")
                  \o Peek("answer") \o Pop \o Push("original") \o Push("answer")]

\* A run of script code: it may allocate and collect, and answers with a scalar
\* or with an object of its own.
Script(x) ==
    Sometimes(Memory) \o Either({Let(x, "nil"), NewOption("nil", x)})

(***************************************************************************)
(* execute_callable with n arguments on the stack above the callee: they   *)
(* are replaced by what the function returned, which is also the ok result *)
(* put in x.  (A run that fails does not come back: runtime_panic jumps.)  *)
(***************************************************************************)
ExecuteCallable(n, script, x) ==
    CopyString("empty") \o NewError("empty", "callError")
        \o NewErrorResult("callError", "errorResult")
        \o script \o Drop(n + 1) \o Push("returned")
        \o Peek("execution") \o NewOkResult("execution", x)

InvokeStructMethod(receiver, x) ==
    CopyString("methodName") \o Push(receiver)
        \o Script("returned") \o Drop(1) \o Push("returned") \o Peek(x) \o Drop(1)

(***************************************************************************)
(* Instructions.                                                           *)
(***************************************************************************)
OpClosure(captures) ==
    Instruction(<<>>,
        Let("constant", "function") \o NewClosure("constant", "closure", captures)
            \o Push("closure")
            \o (IF captures
                THEN NewUpvalue("upvalue") \o Add("closure", "upvalues", "upvalue")
                ELSE <<>>))

OpArray ==
    Instruction(<<"value", "first">>,
        NewArray("array1")
            \o Peek("v") \o Pop \o Add("array1", "values", "v")
            \o Peek("w") \o Pop \o Add("array1", "values", "w")
            \o Push("array1"))

\* a literal of more than twelve pairs grows the table it fills
OpTable(grows) ==
    Instruction(<<"text", "value">>,
        NewObjectTable("table1") \o Peek("v") \o Pop \o Peek("k") \o Pop
            \o (IF grows THEN AdjustCapacity("table1") ELSE <<>>)
            \o Add("table1", "entries", "k") \o Add("table1", "entries", "v")
            \o Push("table1"))

OpSet ==
    Instruction(<<"value">>,
        NewSet("set1") \o Peek("v") \o Pop \o Push("set1")
            \o ObjectTableSet("setTable", "v", "nil"))

OpTuple(empty) ==
    Instruction(IF empty THEN <<>> ELSE <<"value">>,
        NewTuple("tuple1", empty)
            \o (IF empty THEN <<>>
                ELSE Peek("v") \o Pop \o Write("tuple1", "elements", {"v"}))
            \o Push("tuple1"))

OpOk ==
    Instruction(<<"value">>,
        Peek("v") \o NewOkResult("v", "result1") \o Pop \o Push("result1"))

OpErr ==
    Instruction(<<"value">>,
        Peek("v") \o TextOf("v", "message") \o NewError("message", "error")
            \o Push("error") \o NewErrorResult("error", "result1") \o Drop(2) \o Push("result1"))

OpSome ==
    Instruction(<<"value">>,
        Peek("v") \o NewOption("v", "option1") \o Pop \o Push("option1"))

\* OP_STRUCT_INSTANCE_START, a field, OP_STRUCT_INSTANCE_END
OpStructInstance ==
    Instruction(<<"struct">>,
        Peek("type") \o NewStructInstance("type", "instance1") \o Pop \o PushStruct("instance1")
            \o Script("field") \o Push("field") \o Pop \o Add("instance1", "fields", "field")
            \o PopStruct("made") \o Push("made"))

OpSliceOfArray ==
    Instruction(<<"array", "nil">>,
        Pop \o Peek("sliced") \o NewArray("slice")
            \o Loop(Load("v", "sliced", "values") \o Add("slice", "values", "v"))
            \o Pop \o Push("slice"))

OpSliceOfString ==
    Instruction(<<"text", "nil">>,
        Pop \o Memory \o Memory \o Memory \o TakeString("slice") \o Pop \o Push("slice"))

OpIterInit ==
    Instruction(<<"array">>,
        Peek("iterable") \o NewIterator("iterable", "iterator1") \o Pop \o Push("iterator1"))

IterateNext(iterator, x) ==
    Load("iterable", iterator, "iterable")
        \o Either({Load(x, "iterable", "values"), Memory \o CopyString(x)})
        \o NewOption(x, "out")

Concatenate ==
    Instruction(<<"text", "text">>,
        Peek("b") \o Memory \o TakeString("joined") \o Drop(2) \o Push("joined"))

(***************************************************************************)
(* Arrays.                                                                 *)
(***************************************************************************)
ArrayPush(below) ==
    Method(below, <<"array", "value">>,
        Either({ArrayAdd("array", "value") \o NewOkResult("nil", "out"),
                MakeGcSafeError("out")}))

ArrayPop(below) ==
    Method(below, <<"array">>,
        Either({Take("popped", "array", "values") \o NewOkResult("popped", "out"),
                MakeGcSafeError("out")}))

\* a new array kept on the stack while it is filled and until the result holds it
Filled(fill) ==
    NewArray("array1") \o Push("array1") \o fill \o NewOkResult("array1", "out") \o Pop

ArrayConcat(below) ==
    Method(below, <<"array", "other">>,
        Filled(Loop(Load("v", "array", "values") \o Add("array1", "values", "v"))))

ArrayReverse(below) == Method(below, <<"array">>, Memory \o NewOkResult("nil", "out"))

\* mutant: the result of the callback is popped before it is in the array
ArrayMapEarlyPop(below) ==
    Method(below, <<"array", "callable">>,
        Filled(Loop(Load("arrayValue", "array", "values")
                        \o Push("callable") \o Push("arrayValue")
                        \o ExecuteCallable(1, Script("returned"), "result")
                        \o Pop \o Use("result") \o ArrayAddBack("array1", "execution"))))

ArrayMap(below) ==
    Method(below, <<"array", "callable">>,
        Filled(Loop(Load("arrayValue", "array", "values")
                        \o Push("callable") \o Push("arrayValue")
                        \o ExecuteCallable(1, Script("returned"), "result")
                        \o Use("result") \o ArrayAddBack("array1", "execution") \o Pop)))

ArrayFilter(below, script) ==
    Method(below, <<"array", "callable">>,
        Filled(Load("arrayValue", "array", "values")
                   \o Push("callable") \o Push("arrayValue")
                   \o ExecuteCallable(1, script, "result")
                   \o Use("result") \o Sometimes(ArrayAddBack("array1", "arrayValue")) \o Pop))

\* a callback that takes an element out of the array that is being filtered
RemovingScript(x) == Take("removed", "array", "values") \o Script(x)

ArrayReduce(below) ==
    Method(below, <<"array", "callable", "value">>,
        Let("accumulator", "value")
            \o Loop(Load("arrayValue", "array", "values")
                        \o Push("callable") \o Push("arrayValue") \o Push("accumulator")
                        \o ExecuteCallable(2, Script("returned"), "result")
                        \o Use("result") \o Let("accumulator", "execution") \o Pop)
            \o NewOkResult("accumulator", "out"))

ArrayJoin(below) ==
    Method(below, <<"array", "text">>,
        Loop(Load("v", "array", "values") \o TextOf("v", "element")
                 \o Push("element") \o Use("element") \o Pop)
            \o TakeString("joined") \o Push("joined") \o NewOkResult("joined", "out") \o Pop)

(***************************************************************************)
(* Tables, sets, tuples, strings, ranges.                                  *)
(***************************************************************************)
TableValues(below) ==
    Method(below, <<"table">>,
        NewArray("values")
            \o Loop(Load("v", "table", "entries") \o Add("values", "values", "v"))
            \o NewOkResult("values", "out"))

\* until all pairs are made, the size of the array of pairs is 0
Pair(x) ==
    NewArray(x) \o Push(x) \o Load("k", "table", "entries") \o Add(x, "values", "k") \o Pop

TablePairs(below, two) ==
    Method(below, <<"table">>,
        NewArray("pairs") \o Push("pairs") \o Pair("pair1")
            \o (IF two THEN Pair("pair2") ELSE <<>>)
            \o Add("pairs", "values", "pair1")
            \o (IF two THEN Add("pairs", "values", "pair2") ELSE <<>>)
            \o NewOkResult("pairs", "out") \o Pop)

NewSetFunction ==
    Native(<<"array">>,
        NewSet("set1")
            \o Loop(Load("v", "array", "values") \o ObjectTableSet("setTable", "v", "nil"))
            \o Push("set1") \o NewOkResult("set1", "out") \o Pop)

NewTupleFunction ==
    Native(<<"array">>,
        NewTuple("out", FALSE) \o Load("v", "array", "values") \o Write("out", "elements", {"v"}))

StringGet(below) ==
    Method(below, <<"text", "nil">>,
        Either({CopyString("part") \o Push("part") \o NewOkResult("part", "out") \o Pop,
                MakeGcSafeError("out")}))

StringSplit(below) ==
    Method(below, <<"text", "text">>,
        Filled(Loop(CopyString("sub") \o Push("sub") \o ArrayAddBack("array1", "sub") \o Pop)))

NewRangeFunction ==
    Native(<<"nil", "nil", "nil">>,
        Either({NewRange("range1") \o Push("range1") \o NewOkResult("range1", "out") \o Pop,
                MakeGcSafeError("out")}))

(***************************************************************************)
(* Core functions and fs.open.                                             *)
(***************************************************************************)
CastArray ==
    NewArray("array1") \o Push("array1")
        \o Either({Loop(CopyString("char") \o Push("char")
                            \o ArrayAddBack("array1", "char") \o Pop),
                   Load("k", "table", "entries") \o ArrayAddBack("array1", "k"),
                   ArrayAdd("array1", "value")})
        \o Pop

ArrayFunction ==
    Native(<<"value", "table">>, CastArray \o NewOkResult("array1", "out"))

CastTable ==
    NewObjectTable("out") \o Push("out")
        \o Either({Loop(CopyString("char") \o Push("char")
                            \o ObjectTableSet("out", "nil", "char") \o Pop),
                   Loop(Load("v", "array", "values") \o ObjectTableSet("out", "nil", "v")),
                   ObjectTableSet("out", "nil", "value")})
        \o Pop

TableFunction == Native(<<"value", "array">>, CastTable)

StringFunction(native) ==
    Native(<<"text">>, IF native THEN ToStringOfNative("out") ELSE TextOf("text", "out"))

ErrorFunction ==
    Native(<<"text">>,
        TextOf("text", "message") \o Push("message") \o NewError("message", "out") \o Pop)

\* the names found so far stay on the stack until the text is printed, also
\* when the next name is not in the table
Token == CopyString("token") \o Push("token")

FormatFunction(known) ==
    Native(<<"text", "table">>,
        Token \o Load("v", "table", "entries")
            \o (IF known
                THEN Either({Use("v") \o Drop(1),
                             Token \o Load("w", "table", "entries")
                                 \o Use("v") \o Use("w") \o Drop(2)})
                        \o NewOkResult("nil", "out")
                ELSE MakeGcSafeError("out")))

NextFunction == Native(<<"iterator">>, IterateNext("iterator", "v"))

NextMethodFunction == Native(<<"value">>, InvokeStructMethod("value", "out"))

IterFunction ==
    Native(<<"array", "value">>,
        Either({NewIterator("array", "iterator1"), InvokeStructMethod("value", "iterator1")})
            \o NewOkResult("iterator1", "out"))

FsOpen ==
    Native(<<"text", "text">>,
        TakeString("full_path") \o Push("full_path")
            \o NewObjectFile("full_path", "text", "file") \o Push("file")
            \o Either({NewOkResult("file", "out") \o Drop(2),
                       Drop(2) \o MakeGcSafeError("out")}))

(***************************************************************************)
(* The procedures by name.                                                 *)
(***************************************************************************)
Procedure ==
    [OP_CLOSURE |-> OpClosure(FALSE),          OP_CLOSURE_upvalues |-> OpClosure(TRUE),
     OP_ARRAY |-> OpArray,                     OP_SET |-> OpSet,
     OP_TABLE |-> OpTable(FALSE),              OP_TABLE_grows |-> OpTable(TRUE),
     OP_TUPLE_empty |-> OpTuple(TRUE),         OP_TUPLE |-> OpTuple(FALSE),
     OP_OK |-> OpOk, OP_ERR |-> OpErr,         OP_SOME |-> OpSome,
     OP_STRUCT_INSTANCE |-> OpStructInstance,  OP_ITER_INIT |-> OpIterInit,
     OP_GET_SLICE_array |-> OpSliceOfArray,    OP_GET_SLICE_string |-> OpSliceOfString,
     concatenate |-> Concatenate,
     array_push |-> ArrayPush("nil"),          array_pop |-> ArrayPop("nil"),
     array_concat |-> ArrayConcat("nil"),      array_reverse |-> ArrayReverse("nil"),
     array_map |-> ArrayMap("nil"),            array_map_over_object |-> ArrayMap("below"),
     array_filter |-> ArrayFilter("nil", Script("returned")),
     array_filter_removes |-> ArrayFilter("nil", RemovingScript("returned")),
     array_reduce |-> ArrayReduce("nil"),      array_join |-> ArrayJoin("nil"),
     table_values |-> TableValues("nil"),
     table_pairs |-> TablePairs("nil", FALSE), table_pairs_two |-> TablePairs("nil", TRUE),
     new_set |-> NewSetFunction,               new_tuple |-> NewTupleFunction,
     string_get |-> StringGet("nil"),          string_split |-> StringSplit("nil"),
     new_range |-> NewRangeFunction,
     array |-> ArrayFunction, table |-> TableFunction,
     string |-> StringFunction(FALSE),         string_native |-> StringFunction(TRUE),
     error |-> ErrorFunction,
     format |-> FormatFunction(TRUE),          format_unknown |-> FormatFunction(FALSE),
     next |-> NextFunction,                    next_method |-> NextMethodFunction,
     iter |-> IterFunction,                    fs_open |-> FsOpen]

(***************************************************************************)
(* Those that a collection at the wrong moment, or (format) any run, makes *)
(* fail.  The methods are called over a local that holds no object, but    *)
(* for array_map_over_object: the mark of the original lasts one           *)
(* collection.                                                             *)
(***************************************************************************)
Unsound ==
    {"OP_CLOSURE_upvalues", "OP_TABLE_grows", "OP_SET", "OP_TUPLE", "array_map_over_object",
     "array_filter_removes", "table_pairs_two", "new_set", "new_tuple", "string_native",
     "format_unknown"}
=============================================================================
