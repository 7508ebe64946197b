------------------------------- MODULE Files --------------------------------
(***************************************************************************)
(* The fs module of the standard library (src/src/stdlib/fs.c): File       *)
(* values, which hold a C stream each, and the calls that take a path.     *)
(*                                                                         *)
(* The file system and the C library are modelled as fs.c uses them: names *)
(* are entries that refer to inodes, and what is written stays pending in  *)
(* the stream until it is flushed, which reading and seeking do.  The      *)
(* queries (exists, is_file, is_dir, file_size, is_open) and the position  *)
(* field, which nothing reads, are left out.                               *)
(***************************************************************************)
EXTENDS Integers, Sequences, FiniteSets

Fs == INSTANCE FiniteSetsExt
Seqs == INSTANCE SequencesExt

CONSTANTS Paths, Inodes,
          Handles,     \* ObjectFiles
          Modes,       \* the modes scripts open files with
          LF, CR, Hole, \* bytes; Hole is what a seek past the end leaves
          Texts, Asked, Offsets, \* what scripts write, ask for, seek by
          LineBuffer,  \* READLN_BUFFER_SIZE
          MaxSize, MaxStreams,   \* of a file; of the process
          Full,        \* may the disk fill up?
          SameFile,    \* may a file be copied onto itself?
          None, Directory, Closed

ASSUME NamesAssumption ==
    /\ {None, Directory} \cap Inodes = {} /\ None # Directory
    /\ LF # CR /\ Hole \notin {LF, CR}
ASSUME EnoughInodes ==
    /\ IsFiniteSet(Paths) /\ IsFiniteSet(Handles) /\ IsFiniteSet(Inodes)
    /\ Cardinality(Inodes) >= Cardinality(Paths) + Cardinality(Handles)
ASSUME ModesAssumption == Modes \subseteq {"r", "w", "a", "r+", "w+", "a+"}
ASSUME LineBufferAssumption == LineBuffer \in Nat \ {0}
ASSUME InputsAssumption ==
    /\ {LF, CR, Hole} \subseteq Int /\ Texts \subseteq Seq(Int)
    /\ Asked \subseteq Int /\ Offsets \subseteq Int
    /\ MaxSize \in Nat /\ MaxStreams \in Nat
    /\ Full \in BOOLEAN /\ SameFile \in BOOLEAN

Stream == [inode : Inodes \cup {Directory}, mode : Modes, at : Nat, pending : Seq(Int)]

ASSUME ClosedAssumption == Closed \notin Stream

VARIABLES entries,     \* what each path names
          content,     \* the bytes of each inode
          stream,      \* the stream of each handle
          descriptors, \* how many streams are open
          answer       \* of the last call, with what it was about

vars == <<entries, content, stream, descriptors, answer>>
disk == <<entries, content>>

mode_is_readable(mode) == mode \in {"r", "r+", "w+", "a+"}
mode_is_writable(mode) == mode \in {"w", "a", "r+", "w+", "a+"}
Appends(mode) == mode \in {"a", "a+"}

Init == /\ entries \in [Paths -> {None, Directory}]
        /\ content = [i \in Inodes |-> <<>>]
        /\ stream = [h \in Handles |-> Closed]
        /\ descriptors = 0
        /\ answer = <<"nil">>

Refuse(reason) ==
    answer' = <<reason>> /\ UNCHANGED <<entries, content, stream, descriptors>>

-----------------------------------------------------------------------------
(***************************************************************************)
(* The file system.                                                        *)
(***************************************************************************)
OpenOn(i) == {h \in Handles : stream[h] # Closed /\ stream[h].inode = i}

\* an inode with no name and no stream is gone, and its bytes with it
Reclaimed(bytes, names, streams) ==
    [i \in Inodes |-> IF \/ \E p \in Paths : names[p] = i
                         \/ \E h \in Handles : streams[h] # Closed /\ streams[h].inode = i
                      THEN bytes[i] ELSE <<>>]

Fresh == CHOOSE i \in Inodes : OpenOn(i) = {} /\ \A p \in Paths : entries[p] # i

Bytes(i) == IF i \in Inodes THEN content[i] ELSE <<>>

CanOpen == descriptors < MaxStreams

\* fopen for writing: the inode it gives, with what it holds then
Created(p) == IF entries[p] = None THEN Fresh ELSE entries[p]

\* text written at offset at of bytes
Overlay(bytes, at, text) ==
    IF text = <<>> THEN bytes
    ELSE [k \in 1 .. Fs!Max({Len(bytes), at + Len(text)}) |->
            IF k - at \in DOMAIN text THEN text[k - at]
            ELSE IF k \in DOMAIN bytes THEN bytes[k] ELSE Hole]

\* where the pending bytes of a stream go
Start(s) == IF Appends(s.mode) THEN Len(Bytes(s.inode)) ELSE s.at - Len(s.pending)

\* content when the first n pending bytes of a stream have been written
Written(s, n) ==
    [i \in Inodes |-> IF i = s.inode
                      THEN Overlay(content[i], Start(s), SubSeq(s.pending, 1, n))
                      ELSE content[i]]

Kept(s, n) == [s EXCEPT !.pending = SubSeq(s.pending, n+1, Len(s.pending))]

\* the bound MaxSize: n bytes and what is pending fit in a file
Fits(i, n) ==
    n + Fs!MapThenSumSet(LAMBDA h : Len(stream[h].pending), OpenOn(i)) <= MaxSize

\* how many of n bytes the disk takes
Takes(n) == IF Full THEN 0 .. n ELSE {n}

\* the bytes a stream has yet to read, what is pending being written first
Rest(s) == LET bytes == Bytes(s.inode)
               all == Overlay(bytes, Start(s), s.pending)
           IN  SubSeq(all, s.at + 1, Len(all))

-----------------------------------------------------------------------------
(***************************************************************************)
(* Files.                                                                  *)
(***************************************************************************)
\* fs.open
Open(h, p, mode) ==
    LET missing == mode \in {"r", "r+"} /\ entries[p] = None
        directory == entries[p] = Directory /\ mode # "r"
        inode == Created(p)
        empties == mode \in {"w", "w+"} \/ entries[p] = None
    IN  /\ stream[h] = Closed
        /\ \/ (missing \/ directory \/ ~CanOpen) /\ Refuse("io")
           \/ /\ ~missing /\ ~directory /\ CanOpen
              /\ entries' = [entries EXCEPT ![p] = inode]
              /\ content' = IF empties THEN [content EXCEPT ![inode] = <<>>]
                            ELSE content
              /\ stream' = [stream EXCEPT ![h] =
                              [inode |-> inode, mode |-> mode, at |-> 0, pending |-> <<>>]]
              /\ descriptors' = descriptors + 1
              /\ answer' = <<"opened", h>>

\* fclose, whose result nobody looks at: by close, or when the value is freed
Fclose(h, reply) ==
    LET s == stream[h]
    IN  \E n \in Takes(Len(s.pending)) :
          /\ stream' = [stream EXCEPT ![h] = Closed]
          /\ content' = Reclaimed(Written(s, n), entries, stream')
          /\ descriptors' = descriptors - 1
          /\ answer' = reply
          /\ UNCHANGED entries

Close(h) == Fclose(h, <<"closed", h>>)

\* a collection frees the value
Collect(h) == Fclose(h, <<"collected", h>>)

Flush(h) ==
    LET s == stream[h]
    IN  \E n \in Takes(Len(s.pending)) :
          /\ content' = Written(s, n)
          /\ stream' = [stream EXCEPT ![h] = Kept(s, n)]
          /\ answer' = IF n = Len(s.pending) THEN <<"flushed", h>> ELSE <<"io">>
          /\ UNCHANGED <<entries, descriptors>>

\* write, and writeln with the line's end in text.  n bytes are accepted; the
\* pending bytes are written at once when the stream's buffer is full
Write(h, text) ==
    LET s == stream[h]
        end == Start(s) + Len(s.pending)
    IN  \/ ~mode_is_writable(s.mode) /\ Refuse("mode")
        \/ \E n \in Takes(Len(text)), flushed \in BOOLEAN :
           LET t == [s EXCEPT !.pending = @ \o SubSeq(text, 1, n), !.at = end + n]
               m == IF flushed THEN Len(t.pending) ELSE 0
           IN  /\ mode_is_writable(s.mode)
               /\ Fits(s.inode, Fs!Max({Len(Bytes(s.inode)), end + n}))
               /\ content' = Written(t, m)
               /\ stream' = [stream EXCEPT ![h] = Kept(t, m)]
               /\ answer' = IF n = Len(text) THEN <<"wrote", h, text>> ELSE <<"io">>
               /\ UNCHANGED <<entries, descriptors>>

\* what reading and seeking begin with
Drain(h) ==
    LET s == stream[h]
    IN  content' = Written(s, Len(s.pending)) /\ UNCHANGED <<entries, descriptors>>

Moved(s, at) == [s EXCEPT !.at = at, !.pending = <<>>]

CannotRead(s) ==
    \/ ~mode_is_readable(s.mode) /\ Refuse("mode")
    \/ /\ mode_is_readable(s.mode)
       /\ s.inode = Directory \/ (Full /\ s.pending # <<>>)
       /\ Refuse("io")

CanRead(s) == mode_is_readable(s.mode) /\ s.inode # Directory

Read(h, n) ==
    LET s == stream[h]
        got == Fs!Min({n, Len(Rest(s))})
    IN  \/ n <= 0 /\ Refuse("value")
        \/ n > 0 /\ CannotRead(s)
        \/ /\ n > 0 /\ CanRead(s)
           /\ Drain(h)
           /\ stream' = [stream EXCEPT ![h] = Moved(s, s.at + got)]
           /\ answer' = <<"read", h, SubSeq(Rest(s), 1, got)>>

\* read_remaining sizes its buffer by the distance to the end, which is
\* negative, and then too large, when the offset is past it
ReadAll(h) ==
    LET s == stream[h]
        end == Len(Overlay(Bytes(s.inode), Start(s), s.pending))
    IN  \/ CannotRead(s)
        \/ /\ CanRead(s) /\ s.at > end
           /\ Drain(h)
           /\ stream' = [stream EXCEPT ![h] = Moved(s, s.at)]
           /\ answer' = <<"io">>
        \/ /\ CanRead(s) /\ s.at <= end
           /\ Drain(h)
           /\ stream' = [stream EXCEPT ![h] = Moved(s, end)]
           /\ answer' = <<"all", h, Rest(s)>>
        \* not every system refuses to read a directory
        \/ /\ mode_is_readable(s.mode) /\ s.inode = Directory
           /\ answer' = <<"all", h, <<>>>>
           /\ UNCHANGED <<entries, content, stream, descriptors>>

-----------------------------------------------------------------------------
(***************************************************************************)
(* Lines.                                                                  *)
(***************************************************************************)
\* The loop of readln and read_lines, on what there is to read: count bytes
\* make a line, used are consumed; eof if the end was met on the way.
\* mutant: a line feed after a carriage return is left for the next line
NextLineKeepsLF(rest) ==
    LET Breaks == {i \in DOMAIN rest : rest[i] \in {LF, CR}}
        count == Fs!Min({LineBuffer, Len(rest)} \cup {i - 1 : i \in Breaks})
    IN  [line |-> SubSeq(rest, 1, count),
         used |-> IF count = LineBuffer \/ count = Len(rest) THEN count ELSE count + 1,
         eof |-> count < LineBuffer /\ count = Len(rest)]

NextLine(rest) ==
    LET Breaks == {i \in DOMAIN rest : rest[i] \in {LF, CR}}
        count == Fs!Min({LineBuffer, Len(rest)} \cup {i - 1 : i \in Breaks})
        Is(i, byte) == i \in DOMAIN rest /\ rest[i] = byte
        breaks == IF count = LineBuffer \/ count = Len(rest) THEN 0
                  ELSE IF Is(count + 1, CR) /\ Is(count + 2, LF) THEN 2 ELSE 1
        lastCR == breaks = 1 /\ Is(count + 1, CR) /\ count + 1 = Len(rest)
    IN  [line |-> SubSeq(rest, 1, count),
         used |-> count + breaks,
         eof |-> (count < LineBuffer /\ count = Len(rest)) \/ lastCR]

After(rest) == SubSeq(rest, NextLine(rest).used + 1, Len(rest))

Lines[rest \in Seq(Int)] ==
    LET next == NextLine(rest)
    IN  IF next.eof /\ next.line = <<>> THEN <<>>
        ELSE IF next.eof THEN <<next.line>>
        ELSE <<next.line>> \o Lines[After(rest)]

ReadLine(h) ==
    LET s == stream[h]
        next == NextLine(Rest(s))
    IN  \/ CannotRead(s)
        \/ /\ CanRead(s)
           /\ Drain(h)
           /\ stream' = [stream EXCEPT ![h] = Moved(s, s.at + next.used)]
           /\ answer' = <<"line", h, next.line>>

ReadLines(h) ==
    LET s == stream[h]
    IN  \/ CannotRead(s)
        \/ /\ CanRead(s)
           /\ Drain(h)
           /\ stream' = [stream EXCEPT ![h] = Moved(s, s.at + Len(Rest(s)))]
           /\ answer' = <<"lines", h, Lines[Rest(s)]>>

Seek(h, offset, whence) ==
    LET s == stream[h]
        base == CASE whence = "start" -> 0
                  [] whence = "current" -> s.at
                  [] whence = "end" -> Len(Overlay(Bytes(s.inode), Start(s), s.pending))
    IN  \/ (base + offset < 0 \/ (Full /\ s.pending # <<>>)) /\ Refuse("io")
        \/ /\ base + offset \in 0 .. MaxSize
           /\ Drain(h)
           /\ stream' = [stream EXCEPT ![h] = Moved(s, base + offset)]
           /\ answer' = <<"moved", h>>

Tell(h) ==
    /\ answer' = <<"at", h, stream[h].at>>
    /\ UNCHANGED <<entries, content, stream, descriptors>>

-----------------------------------------------------------------------------
(***************************************************************************)
(* Calls that take a path.                                                 *)
(***************************************************************************)
ReadFile(p) ==
    \/ (entries[p] \in {None, Directory} \/ ~CanOpen) /\ Refuse("io")
    \/ /\ entries[p] # None /\ CanOpen
       /\ answer' = <<"file", p, Bytes(entries[p])>>
       /\ UNCHANGED <<entries, content, stream, descriptors>>

\* fopen, fwrite, fclose.  What is short of text may show in fwrite, or in
\* fclose, where nobody looks
WriteWhole(p, before, text, reply) ==
    \/ (entries[p] = Directory \/ ~CanOpen) /\ Refuse("io")
    \/ \E n \in Takes(Len(text)) :
          /\ entries[p] # Directory /\ CanOpen
          /\ Fits(Created(p), Len(before) + n)
          /\ entries' = [entries EXCEPT ![p] = Created(p)]
          /\ content' = [content EXCEPT ![Created(p)] = before \o SubSeq(text, 1, n)]
          /\ answer' \in {reply} \cup IF n < Len(text) THEN {<<"io">>} ELSE {}
          /\ UNCHANGED <<stream, descriptors>>

WriteFile(p, text) == WriteWhole(p, <<>>, text, <<"wrote file", p, text>>)

\* mutant: the file is opened as for write_file
AppendFileTruncates(p, text) == WriteWhole(p, <<>>, text, <<"appended", p, text>>)

AppendFile(p, text) ==
    WriteWhole(p, IF entries[p] \in Inodes THEN Bytes(entries[p]) ELSE <<>>, text,
               <<"appended", p, text>>)

\* mutant: the source is not closed when the destination cannot be opened
CopyFileLeaks(from, to) ==
    \/ (entries[from] = None \/ ~CanOpen) /\ Refuse("io")
    \/ /\ entries[from] # None /\ CanOpen
       /\ entries[to] = Directory \/ descriptors + 1 >= MaxStreams
       /\ answer' = <<"io">>
       /\ descriptors' = descriptors + 1
       /\ UNCHANGED <<entries, content, stream>>

\* The destination is emptied before the source is read, and removed when the
\* copy fails, as it does from a directory
CopyFile(from, to) ==
    LET dst == Created(to)
        emptied == [content EXCEPT ![dst] = <<>>]
        bytes == IF entries[from] = Directory THEN <<>> ELSE emptied[entries[from]]
    IN  \/ (entries[from] = None \/ ~CanOpen) /\ Refuse("io")
        \/ (entries[to] = Directory \/ descriptors + 1 >= MaxStreams) /\ Refuse("io")
        \/ /\ entries[from] # None /\ entries[to] # Directory
           /\ descriptors + 1 < MaxStreams
           /\ SameFile \/ from # to
           /\ \/ \E n \in Takes(Len(bytes)) :
                    /\ entries[from] # Directory /\ Fits(dst, n)
                    /\ entries' = [entries EXCEPT ![to] = dst]
                    /\ content' = [content EXCEPT ![dst] = SubSeq(bytes, 1, n)]
                    /\ answer' = <<"copied", from, to>>
              \/ /\ entries[from] = Directory \/ Full
                 /\ entries' = [entries EXCEPT ![to] = None]
                 /\ content' = Reclaimed(emptied, entries', stream)
                 /\ answer' = <<"io">>
           /\ UNCHANGED <<stream, descriptors>>

\* remove, rename, mkdir, remove_dir
Rearrange(allowed, names, reply) ==
    \/ ~allowed /\ Refuse("io")
    \/ /\ allowed /\ entries' = names /\ answer' = reply
       /\ content' = Reclaimed(content, names, stream)
       /\ UNCHANGED <<stream, descriptors>>

Remove(p) == Rearrange(entries[p] \in Inodes, [entries EXCEPT ![p] = None], <<"removed", p>>)

Rename(from, to) ==
    LET directory(p) == entries[p] = Directory
    IN  Rearrange(/\ entries[from] # None
                  /\ entries[to] = None \/ directory(from) = directory(to),
                  IF from = to THEN entries
                  ELSE [entries EXCEPT ![from] = None, ![to] = entries[from]],
                  <<"renamed", from, to>>)

MakeDir(p) == Rearrange(entries[p] = None, [entries EXCEPT ![p] = Directory], <<"made", p>>)

RemoveDir(p) == Rearrange(entries[p] = Directory, [entries EXCEPT ![p] = None], <<"removed", p>>)

-----------------------------------------------------------------------------
OnFile(h) ==
    IF stream[h] = Closed THEN Refuse("closed")
    ELSE \/ Close(h) \/ Collect(h) \/ Flush(h) \/ Tell(h)
         \/ ReadAll(h) \/ ReadLine(h) \/ ReadLines(h)
         \/ \E n \in Asked : Read(h, n)
         \/ \E text \in Texts : Write(h, text)
         \/ \E o \in Offsets, w \in {"start", "current", "end"} : Seek(h, o, w)

OnPath(p) ==
    \/ ReadFile(p) \/ Remove(p) \/ MakeDir(p) \/ RemoveDir(p)
    \/ \E text \in Texts : WriteFile(p, text) \/ AppendFile(p, text)
    \/ \E to \in Paths : CopyFile(p, to) \/ Rename(p, to)

Next == \/ \E h \in Handles : OnFile(h)
        \/ \E h \in Handles, p \in Paths, mode \in Modes : Open(h, p, mode)
        \/ \E p \in Paths : OnPath(p)

Spec == Init /\ [][Next]_vars

-----------------------------------------------------------------------------
(***************************************************************************)
(* The type invariant.  A name, or an open file, keeps an inode; what is   *)
(* pending lies behind the offset.                                         *)
(***************************************************************************)
TypeOK ==
    /\ entries \in [Paths -> Inodes \cup {None, Directory}]
    /\ content \in [Inodes -> Seq(Int)]
    /\ stream \in [Handles -> Stream \cup {Closed}]
    /\ \A p, q \in Paths : entries[p] = entries[q] => p = q \/ entries[p] \notin Inodes
    /\ \A h \in Handles : stream[h] # Closed =>
          LET s == stream[h]
          IN  /\ s.inode = Directory => s.mode = "r"
              /\ Len(s.pending) <= s.at
              /\ s.pending # <<>> => mode_is_writable(s.mode)
    /\ descriptors \in 0 .. MaxStreams

(***************************************************************************)
(* Every stream that fs.c opens is one an open file holds, or is closed    *)
(* again when the call returns, whichever way it fails.                    *)
(***************************************************************************)
NoDescriptorLeaks == descriptors = Cardinality({h \in Handles : stream[h] # Closed})

\* Every stream that was opened belongs to an open file or is closed when the
\* call returns, on the error paths as well.
FilesAreSound == TypeOK /\ NoDescriptorLeaks

(***************************************************************************)
(* readln and read_lines cut what there is to read at its line ends, all   *)
(* of it and nowhere else; what follows the last line end is a line if it  *)
(* is not empty.  That is what the code does: it leaves out an empty last  *)
(* line at every end of file, where its comment (src/src/stdlib/fs.c:379)  *)
(* says "Only skip the very first iteration's empty result if we are       *)
(* immediately at EOF (i.e. the file was empty)".  A CR at the end of the  *)
(* file is another matter: `next == EOF' then drops the empty line before  *)
(* the CR, and the property fails, so the passing run has no text that     *)
(* ends in one (EndsInCR of MCFiles).                                      *)
(***************************************************************************)
LineEnds == {<<LF>>, <<CR>>, <<CR, LF>>}
HasNoEnd(line) == \A i \in DOMAIN line : line[i] \notin {LF, CR}

IsFirstLine(line, rest, after) ==
    /\ HasNoEnd(line)
    /\ \/ rest = line /\ after = <<>>
       \/ \E end \in LineEnds : /\ rest = line \o end \o after
                                /\ ~(end = <<CR>> /\ after # <<>> /\ Head(after) = LF)

AreLines(lines, rest) ==
    \E ends \in [DOMAIN lines -> LineEnds \cup {<<>>}] :
       /\ Seqs!FlattenSeq([i \in DOMAIN lines |-> lines[i] \o ends[i]]) = rest
       /\ \A i \in DOMAIN lines :
             /\ HasNoEnd(lines[i])
             /\ ends[i] = <<>> => i = Len(lines) /\ lines[i] # <<>>
             /\ i > 1 /\ ends[i-1] = <<CR>> => lines[i] \o ends[i] # <<LF>>

LinesAreTheText ==
    [][\A h \in Handles : stream[h] # Closed =>
          LET rest == Rest(stream[h])
              Answers(call) == answer'[1] = call /\ answer'[2] = h
          IN  /\ Answers("line") => IsFirstLine(answer'[3], rest, (Rest(stream[h]))')
              /\ Answers("lines") => AreLines(answer'[3], rest)]_vars

(***************************************************************************)
(* What a call answers to have done is done: bytes written are at the      *)
(* offset and nothing else has changed, a file that was flushed or closed  *)
(* holds all that was written to it, a copy is a copy.                     *)
(***************************************************************************)
Text(h) == LET s == stream[h] IN Overlay(Bytes(s.inode), Start(s), s.pending)

HandleCallsAreDone(h) ==
    /\ \A text \in Texts : answer' = <<"wrote", h, text>> =>
          (Text(h))' = Overlay(Text(h), stream'[h].at - Len(text), text)
    /\ answer' \in {<<"flushed", h>>, <<"moved", h>>, <<"closed", h>>, <<"collected", h>>}
          => \A p \in Paths : entries[p] = stream[h].inode =>
                               Bytes(entries[p])' = Text(h)

PathCallsAreDone(p) ==
    LET At(r) == Bytes(entries[r])
        OnlyChanges(ps) == \A r \in Paths \ ps : entries'[r] = entries[r] /\ At(r)' = At(r)
    IN  /\ \A text \in Texts :
             /\ answer' = <<"wrote file", p, text>> => At(p)' = text /\ OnlyChanges({p})
             /\ answer' = <<"appended", p, text>> =>
                   /\ OnlyChanges({p})
                   /\ At(p)' = (IF entries[p] = None THEN <<>> ELSE At(p)) \o text
        /\ \A q \in Paths :
             /\ answer' = <<"copied", p, q>> => At(q)' = At(p) /\ OnlyChanges({q})
             /\ answer' = <<"renamed", p, q>> =>
                   entries'[q] = entries[p] /\ OnlyChanges({p, q})

AcknowledgedIsDone ==
    [][/\ \A h \in Handles : stream[h] # Closed => HandleCallsAreDone(h)
       /\ \A p \in Paths : PathCallsAreDone(p)]_vars
=============================================================================
