----------------------------- MODULE PageStore ------------------------------
(***************************************************************************)
(* PageStore (src/storage/page/page_store.cpp) over PosixIO: pages of a    *)
(* file read, written and allocated by several threads.  Callers keep the  *)
(* contract of io_ops.hpp: calls on overlapping ranges are serialised, two *)
(* allocations are, and nobody opens or closes an object that is in use.   *)
(***************************************************************************)
EXTENDS PosixIO

CONSTANTS
  PageSize,
  MaxU64,             \* the largest byte count, for 2^64 - 1
  Mixed, Untouched,   \* as in PageFile
  Pending

ASSUME PageSizeAssumption == PageSize \in Nat \ {0}
ASSUME MaxU64Assumption == MaxU64 \in 0 .. MaxOffset

PageId == 0 .. MaxOffset \div PageSize - 1

\* What a call may return.
Answer == [status : {"ok", "error"}, data : Byte \cup PageId \cup {Mixed, Untouched}]

ASSUME PendingAssumption == Pending \notin Answer

VARIABLES
  call   \* the page operation each thread is in, or what its last one returned

vars == <<ioVars, call>>

Ok(x) == [status |-> "ok", data |-> x]
Error(buffer) == [status |-> "error", data |-> buffer]

Init ==
  /\ IOInit
  /\ call = [t \in Thread |-> Ok(Zero)]

Running == {t \in Thread : call[t].status = "running"}
InUse(o) == \E t \in Running : call[t].obj = o

Summary(page) ==
  IF \A i, j \in DOMAIN page : page[i] = page[j] THEN page[1] ELSE Mixed

OnFile(o, p) == Summary([i \in 1 .. PageSize |-> bytes[o][p * PageSize + i - 1]])

Returns(t, x) == call' = [call EXCEPT ![t] = x]

-----------------------------------------------------------------------------
(* Lifecycle of the backend. *)

OpenBackend(o) == ~InUse(o) /\ Open(o) /\ UNCHANGED call
CloseBackend(o) == ~InUse(o) /\ Close(o) /\ UNCHANGED call
DestroyBackend(o) == ~InUse(o) /\ Destroy(o) /\ UNCHANGED call

-----------------------------------------------------------------------------
(* read_page, write_page and allocate_page begin with file_size. *)

Begin(t, op, o, p, byte) ==
  /\ t \notin Running
  /\ call' = [call EXCEPT ![t] = [status |-> "running", op |-> op, obj |-> o, page |-> p,
                                  byte |-> byte, step |-> "size", was |-> Zero]]
  /\ UNCHANGED ioVars

On(o, p, ops) ==
  \E t \in Running : call[t].obj = o /\ call[t].op \in ops /\ call[t].page = p

BeginRead(t, o, p) ==
  ~On(o, p, {"write"}) /\ Begin(t, "read", o, p, Zero)

BeginWrite(t, o, p, byte) ==
  ~On(o, p, {"read", "write"}) /\ Begin(t, "write", o, p, byte)

BeginAllocate(t, o) ==
  /\ \A u \in Running : ~(call[u].obj = o /\ call[u].op = "allocate")
  /\ Begin(t, "allocate", o, 0, Zero)

PageCount(f) == size[f] \div PageSize
WholePages(f) == size[f] % PageSize = 0

\* validate_existing_page
HasPage(f, p) == WholePages(f) /\ p < PageCount(f)

\* Mutant: pages are compared with bytes.
CanGrowBytes(f) == WholePages(f) /\ PageCount(f) + 1 <= MaxU64

\* byte_size_for_page_count of one more page does not overflow.
CanGrow(f) == WholePages(f) /\ PageCount(f) + 1 <= MaxU64 \div PageSize

Accepts(f, c) == IF c.op = "allocate" THEN CanGrow(f) ELSE HasPage(f, c.page)

\* Reads and writes of a page that is there go on to the loop; allocate_page
\* keeps the page count it found.
CheckSize(t) ==
  LET c == call[t] IN
  /\ t \in Running
  /\ c.step = "size"
  /\ \E f \in Reached(c.obj) :
       /\ Accepts(f, c)
       /\ \/ /\ c.op = "read"
             /\ BeginIO(t, c.obj, c.page * PageSize, PageSize, <<>>, "reading")
             /\ call' = [call EXCEPT ![t].step = "io"]
          \/ /\ c.op = "write"
             /\ BeginIO(t, c.obj, c.page * PageSize, PageSize,
                        [i \in 1 .. PageSize |-> c.byte], "writing")
             /\ call' = [call EXCEPT ![t].step = "io", ![t].was = OnFile(f, c.page)]
          \/ /\ c.op = "allocate"
             /\ call' = [call EXCEPT ![t].step = "truncate", ![t].page = PageCount(f)]
             /\ UNCHANGED io
  /\ UNCHANGED <<fd, kernelVars>>

\* The backend is not open, the file is not of whole pages or does not have the
\* page, or the new size overflows.
Refuse(t) ==
  /\ t \in Running
  /\ call[t].step = "size"
  /\ \A f \in Reached(call[t].obj) : ~Accepts(f, call[t])
  /\ Returns(t, Error(Untouched))
  /\ UNCHANGED ioVars

Allocate(t) ==
  /\ t \in Running
  /\ call[t].step = "truncate"
  /\ \E f \in Reached(call[t].obj) : Truncate(f, (call[t].page + 1) * PageSize)
  /\ Returns(t, Ok(call[t].page))
  /\ UNCHANGED <<fd, table, io>>

Transfer(t) ==
  /\ ReadTurn(t) \/ WriteTurn(t)
  /\ UNCHANGED call

\* lseek or ftruncate fails, or a kernel call of the loop.
KernelFails(t) ==
  \/ /\ t \in Running
     /\ call[t].step \in {"size", "truncate"}
     /\ Returns(t, Error(Untouched))
     /\ UNCHANGED ioVars
  \/ /\ FailIO(t)
     /\ UNCHANGED call

\* The loop is over.  A read that is short means PageNotFound.
Finish(t) ==
  LET l == io[t] IN
  /\ t \in Running
  /\ call[t].step = "io"
  /\ l.state \in {"done", "failed"}
  /\ Returns(t, CASE call[t].op = "write" /\ l.state = "done" -> Ok(call[t].byte)
                  [] call[t].op = "write" /\ l.state = "failed" -> Error(Untouched)
                  [] call[t].op = "read" /\ l.state = "done" /\ l.done = PageSize ->
                       Ok(Summary(l.data))
                  [] OTHER -> Error(IF l.done = 0 THEN Untouched ELSE Mixed))
  /\ io' = [io EXCEPT ![t] = Idle]
  /\ UNCHANGED <<fd, kernelVars>>

Proceed(t) ==
  CheckSize(t) \/ Refuse(t) \/ Allocate(t) \/ Transfer(t) \/ Finish(t)

Next ==
  \/ \E o \in Object : OpenBackend(o) \/ CloseBackend(o) \/ DestroyBackend(o)
  \/ \E t \in Thread : Proceed(t) \/ KernelFails(t)
  \/ \E t \in Thread, o \in Object :
       \/ BeginAllocate(t, o)
       \/ \E p \in PageId : BeginRead(t, o, p)
       \/ \E p \in PageId, byte \in Byte : BeginWrite(t, o, p, byte)

\* A thread that is in a call goes on with it, and the kernel does not
\* interrupt it for ever.  Nothing is said of errors: none has to happen.
Fairness == \A t \in Thread : WF_vars(Proceed(t))

Spec == Init /\ [][Next]_vars /\ Fairness

(***************************************************************************)
(* Properties.                                                             *)
(***************************************************************************)

TypeOK ==
  /\ fd \in [Object -> Descriptor \cup {Closed}]
  /\ table \in [Descriptor -> Object \cup {NoFile}]
  /\ size \in [Object -> 0 .. MaxOffset]
  /\ bytes \in [Object -> [Offset -> Byte]]
  /\ \A t \in Thread :
       /\ io[t].data \in Seq(Byte)
       /\ io[t].done \in 0 .. io[t].len
       /\ Looping(t) => t \in Running
  /\ \A t \in Running : call[t].page \in PageId \cup {MaxOffset \div PageSize}

\* The page as the callers know it: a write that is under way has not happened.
Promised(o, p) ==
  LET writing == {t \in Running : /\ call[t].obj = o /\ call[t].page = p
                                  /\ call[t].op = "write" /\ call[t].step = "io"}
  IN IF writing = {} THEN OnFile(o, p)
     ELSE (CHOOSE was \in {call[t].was : t \in writing} : TRUE)

File == INSTANCE PageFile WITH
  Content <- Byte,
  page_count <- [o \in Object |-> PageCount(o)],
  answer <- [t \in Thread |-> IF t \in Running THEN Pending ELSE call[t]],
  disk <- [o \in Object |-> [p \in PageId |-> Promised(o, p)]]

\* Calls of different threads on different pages are atomic to their callers,
\* however many kernel calls they take: a read returns a page as one write left
\* it, a write that succeeds stores all of its page and nothing else, one that
\* fails tears no other page, a new page has a new id and reads as zeros
\* (io_ops.hpp:14-16, the loops of posix_io.cpp:101-145, page_store.cpp:25-90).
PageCallsAreAtomic == File!Spec

\* Every page operation returns, whatever short or interrupted transfers its
\* loops go through (posix_io.cpp:101-117, 131-143).
CallsReturn == \A t \in Thread : t \in Running ~> t \notin Running
=============================================================================
