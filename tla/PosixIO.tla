------------------------------ MODULE PosixIO -------------------------------
(***************************************************************************)
(* PosixIO (src/storage/io/posix/posix_io.cpp): a backend object holds a   *)
(* file descriptor, and read and write are loops of kernel calls that may  *)
(* transfer less than they were asked to, be interrupted or fail.  The     *)
(* kernel is external: a table of descriptors and the bytes of the files.  *)
(*                                                                         *)
(* A kernel call that is interrupted (EINTR), and a pwrite that transfers  *)
(* nothing, are tried again with nothing changed: they are stuttering      *)
(* steps.                                                                  *)
(***************************************************************************)
EXTENDS Integers, Sequences, FiniteSetsExt

CONSTANTS
  Thread,
  Object,      \* backend objects, each with a file of its own
  NoFile,      \* a descriptor that is not in use
  Byte, Zero,  \* values of a byte
  MaxOffset,   \* bound: bytes of a file
  MaxOpen      \* bound: descriptors

ASSUME ByteAssumption == Zero \in Byte
ASSUME NoFileAssumption == NoFile \notin Object
ASSUME BoundsAssumption == MaxOffset \in Nat /\ MaxOpen \in Nat \ {0}

Offset == 0 .. MaxOffset - 1
Descriptor == 0 .. MaxOpen - 1
Closed == -1

VARIABLES
  fd,      \* the descriptor of each object, or Closed
  table,   \* kernel: the file each descriptor stands for
  size,    \* kernel: the size of each file
  bytes,   \* kernel: its bytes; those past its end are zero
  io       \* the read or write loop each thread is in, or was in last

kernelVars == <<table, size, bytes>>
ioVars == <<fd, table, size, bytes, io>>

Idle == [obj |-> NoFile, off |-> 0, len |-> 0, data |-> <<>>, done |-> 0,
         state |-> "idle"]

IOInit ==
  /\ fd = [o \in Object |-> Closed]
  /\ table = [n \in Descriptor |-> NoFile]
  /\ size \in [Object -> 0 .. MaxOffset]
  /\ bytes = [o \in Object |-> [i \in Offset |-> Zero]]
  /\ io = [t \in Thread |-> Idle]

-----------------------------------------------------------------------------
(* Lifecycle. *)

\* close(2) of the descriptor of o.  When it fails, the descriptor may be gone
\* all the same.
CloseOutcomes(o) ==
  LET released == [table EXCEPT ![fd[o]] = NoFile]
  IN IF table[fd[o]] = NoFile THEN {[ok |-> FALSE, table |-> table]}
     ELSE {[ok |-> TRUE, table |-> released], [ok |-> FALSE, table |-> released],
           [ok |-> FALSE, table |-> table]}

\* open(2) takes the lowest descriptor that is free, creates the file if need
\* be and keeps its bytes.
OpenOutcomes(o, tbl) ==
  LET free == {n \in Descriptor : tbl[n] = NoFile}
  IN {[fd |-> Closed, table |-> tbl]} \cup
     {[fd |-> n, table |-> [tbl EXCEPT ![n] = o]] :
        n \in {m \in free : \A k \in free : m <= k}}

\* close of a closed object changes nothing.
Close(o) ==
  /\ fd[o] # Closed
  /\ \E k \in CloseOutcomes(o) :
       /\ table' = k.table
       /\ fd' = IF k.ok THEN [fd EXCEPT ![o] = Closed] ELSE fd
  /\ UNCHANGED <<size, bytes, io>>

\* An object that is open is closed first; if that fails, it is left so.
Open(o) ==
  /\ \E k \in IF fd[o] = Closed THEN {[ok |-> TRUE, table |-> table]}
              ELSE CloseOutcomes(o) :
       IF k.ok
       THEN \E r \in OpenOutcomes(o, k.table) :
              /\ table' = r.table
              /\ fd' = [fd EXCEPT ![o] = r.fd]
       ELSE table' = k.table /\ UNCHANGED fd
  /\ UNCHANGED <<size, bytes, io>>

\* ~PosixIO ignores what close answers.
Destroy(o) ==
  /\ fd[o] # Closed
  /\ \E k \in CloseOutcomes(o) : table' = k.table
  /\ fd' = [fd EXCEPT ![o] = Closed]
  /\ UNCHANGED <<size, bytes, io>>

-----------------------------------------------------------------------------
(* read and write. *)

\* The file a kernel call of o reaches, if any: check_open, and EBADF.
Reached(o) == {f \in Object : \E n \in Descriptor : fd[o] = n /\ table[n] = f}

Looping(t) == io[t].state \in {"reading", "writing"}

\* The loop begins, on a buffer of len bytes; "data" are the bytes to write, or
\* those read so far.
BeginIO(t, o, off, len, data, state) ==
  io' = [io EXCEPT ![t] = [obj |-> o, off |-> off, len |-> len, data |-> data,
                           done |-> 0, state |-> state]]

\* A kernel call fails.  (check_open cannot: nobody closes an object in use.)
FailIO(t) ==
  /\ Looping(t)
  /\ io' = [io EXCEPT ![t].state = "failed"]
  /\ UNCHANGED <<fd, kernelVars>>

\* Mutant: every turn of the loop starts at the same offset.
FirstOffset(t) == io[t].off

NextOffset(t) == io[t].off + io[t].done

\* Mutant: the loop goes on while done <= len.
AdvancedPast(t, n, data) ==
  [io EXCEPT ![t].done = @ + n, ![t].data = data,
             ![t].state = IF n = 0 \/ io[t].done + n > io[t].len THEN "done" ELSE @]

\* The loop after n more bytes; it also ends when there are none (the end of
\* the file).
Advanced(t, n, data) ==
  [io EXCEPT ![t].done = @ + n, ![t].data = data,
             ![t].state = IF n = 0 \/ io[t].done + n = io[t].len THEN "done" ELSE @]

\* How many bytes a pread may transfer.
Readable(t, f) ==
  IF NextOffset(t) >= size[f] THEN {0}
  ELSE 1 .. Min({io[t].len - io[t].done, size[f] - NextOffset(t)})

\* One turn of the loop of read.
ReadTurn(t) ==
  /\ io[t].state = "reading"
  /\ \E f \in Reached(io[t].obj) : \E n \in Readable(t, f) :
       io' = Advanced(t, n, io[t].data \o
                            [i \in 1 .. n |-> bytes[f][NextOffset(t) + i - 1]])
  /\ UNCHANGED <<fd, kernelVars>>

\* One turn of the loop of write.
WriteTurn(t) ==
  /\ io[t].state = "writing"
  /\ \E f \in Reached(io[t].obj), n \in 1 .. io[t].len - io[t].done :
       LET from == NextOffset(t)
       IN /\ from + n <= MaxOffset
          /\ bytes' = [bytes EXCEPT ![f] =
               [i \in Offset |-> IF i \in from .. from + n - 1
                                 THEN io[t].data[io[t].done + i - from + 1]
                                 ELSE @[i]]]
          /\ size' = [size EXCEPT ![f] = Max({@, from + n})]
          /\ io' = Advanced(t, n, io[t].data)
  /\ UNCHANGED <<fd, table>>

\* ftruncate
Truncate(f, n) ==
  /\ size' = [size EXCEPT ![f] = n]
  /\ bytes' = [bytes EXCEPT ![f] = [i \in Offset |-> IF i < n THEN @[i] ELSE Zero]]
=============================================================================
