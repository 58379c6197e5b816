-------------------------- MODULE PageStoreProofs ---------------------------
(***************************************************************************)
(* Page calls are atomic to their callers, for every number of threads,    *)
(* every page size and every file size, as long as each backend reaches    *)
(* its own file, which a single backend always does.                       *)
(***************************************************************************)
EXTENDS PageStore, TLAPS

USE ByteAssumption, NoFileAssumption, BoundsAssumption, PageSizeAssumption,
    MaxU64Assumption

(***************************************************************************)
(* Pages and offsets.                                                      *)
(***************************************************************************)

\* The offset of byte i of page p.
At(p, i) == p * PageSize + i - 1

\* A file of n whole pages holds every byte of the pages below n.
LEMMA PageBelow ==
  ASSUME NEW n \in Nat, NEW p \in Nat, p < n
  PROVE  (p + 1) * PageSize <= n * PageSize
  <1>1. PICK k \in Nat : n = p + 1 + k
    BY SMT
  <1>2. n * PageSize = (p + 1) * PageSize + k * PageSize
    BY <1>1, SMT
  <1>3. k * PageSize >= 0
    BY SMT
  <1> QED
    BY <1>2, <1>3, SMT

LEMMA SomeBytes ==
  ASSUME NEW n \in 0 .. PageSize, n # 0
  PROVE  n \in 1 .. PageSize
  OBVIOUS

LEMMA NextPage ==
  ASSUME NEW p \in Nat
  PROVE  /\ p * PageSize \in Nat
         /\ (p + 1) * PageSize = p * PageSize + PageSize
  BY SMT

\* Two pages share no byte.
LEMMA PagesApart ==
  ASSUME NEW p \in Nat, NEW q \in Nat, p # q,
         NEW i \in 1 .. PageSize, NEW j \in 1 .. PageSize
  PROVE  At(p, i) # At(q, j)
  <1>1. CASE p < q
    <2>1. p * PageSize + PageSize <= q * PageSize
      BY <1>1, PageBelow, NextPage
    <2> QED
      BY <2>1, NextPage, SMT DEF At
  <1>2. CASE q < p
    <2>1. q * PageSize + PageSize <= p * PageSize
      BY <1>2, PageBelow, NextPage
    <2> QED
      BY <2>1, NextPage, SMT DEF At
  <1> QED
    BY <1>1, <1>2, SMT

\* Division with remainder by the size of a page.
LEMMA Division ==
  ASSUME NEW n \in Nat
  PROVE  \E q \in Nat, r \in 0 .. PageSize - 1 :
           /\ q = n \div PageSize
           /\ r = n % PageSize
           /\ n = q * PageSize + r
  <1> DEFINE q == n \div PageSize
             r == n % PageSize
  <1>1. q \in Nat /\ r \in 0 .. PageSize - 1
    <2>1. q \in Int /\ q >= 0
      BY SMT
    <2>2. r \in 0 .. PageSize - 1
      BY SMT
    <2> QED
      BY <2>1, <2>2
  <1>2. q = n \div PageSize /\ r = n % PageSize
    OBVIOUS
  <1> HIDE DEF q, r
  <1>3. n = q * PageSize + r
    BY <1>1, <1>2, SMT
  <1> QED
    BY <1>1, <1>2, <1>3, Zenon

LEMMA WholeDivision ==
  ASSUME NEW n \in Nat
  PROVE  (n * PageSize) \div PageSize = n /\ (n * PageSize) % PageSize = 0
  BY SMT

\* A page of the file lies within what a file may hold.
LEMMA PageIdBound ==
  ASSUME NEW p \in PageId
  PROVE  /\ p \in Nat
         /\ p * PageSize \in Nat
         /\ (p + 1) * PageSize <= MaxOffset
         /\ (p + 1) * PageSize = p * PageSize + PageSize
  <1>1. PICK q \in Nat, r \in 0 .. PageSize - 1 :
          q = MaxOffset \div PageSize /\ r = MaxOffset % PageSize
          /\ MaxOffset = q * PageSize + r
    BY Division
  <1>2. p \in Nat /\ p < q
    BY <1>1 DEF PageId
  <1>3. (p + 1) * PageSize <= q * PageSize
    BY <1>1, <1>2, PageBelow
  <1>4. q * PageSize \in Nat
    BY NextPage
  <1>5. /\ p * PageSize \in Nat
        /\ (p + 1) * PageSize = p * PageSize + PageSize
    BY <1>2, NextPage
  <1> QED
    BY <1>1, <1>2, <1>3, <1>4, <1>5

LEMMA PageEndIsNat ==
  ASSUME NEW p \in PageId
  PROVE  (p + 1) * PageSize \in Nat
  BY PageIdBound

LEMMA OffsetOfByte ==
  ASSUME NEW p \in PageId, NEW i \in 1 .. PageSize
  PROVE  At(p, i) \in Offset
  BY PageIdBound DEF At, Offset

\* Page p is one of the whole pages of n bytes exactly when all of its bytes are.
LEMMA PagesIn ==
  ASSUME NEW n \in Nat, NEW p \in Nat
  PROVE  /\ n \div PageSize \in Nat
         /\ p < n \div PageSize <=> (p + 1) * PageSize <= n
         /\ \E q \in Nat : /\ q = n \div PageSize
                           /\ n % PageSize = 0 => n = q * PageSize
  <1>1. PICK q \in Nat, r \in 0 .. PageSize - 1 :
          q = n \div PageSize /\ r = n % PageSize
          /\ n = q * PageSize + r
    BY Division
  <1>2. p < q => (p + 1) * PageSize <= q * PageSize
    BY PageBelow
  <1>3. ~(p < q) => q * PageSize <= p * PageSize
    <2>1. CASE q < p
      <3>1. (q + 1) * PageSize <= p * PageSize
        BY <2>1, PageBelow
      <3> QED
        BY <3>1, NextPage
    <2>2. CASE q = p
      BY <2>2, NextPage
    <2> QED
      BY <2>1, <2>2
  <1>4. (p + 1) * PageSize = p * PageSize + PageSize
    BY NextPage
  <1>5. q * PageSize \in Nat /\ p * PageSize \in Nat
    BY NextPage
  <1>7. p < q <=> (p + 1) * PageSize <= n
    <2>1. CASE p < q
      BY <2>1, <1>1, <1>2, <1>4, <1>5
    <2>2. CASE ~(p < q)
      <3> DEFINE a == q * PageSize
                 b == p * PageSize
      <3>1. /\ a \in Nat /\ b \in Nat /\ a <= b
            /\ (p + 1) * PageSize = b + PageSize
            /\ n = a + r
        BY <2>2, <1>1, <1>3, <1>4, <1>5
      <3> HIDE DEF a, b
      <3>2. ~(b + PageSize <= a + r)
        BY <3>1
      <3> QED
        BY <2>2, <3>1, <3>2, Zenon
    <2> QED
      BY <2>1, <2>2
  <1>8. r = 0 => n = q * PageSize
    BY <1>1, <1>5
  <1> QED
    BY <1>1, <1>7, <1>8

\* A file has page p exactly when it holds all of its bytes.
LEMMA PageWithin ==
  ASSUME NEW f \in Object, size[f] \in Nat, NEW p \in Nat
  PROVE  /\ PageCount(f) \in Nat
         /\ p < PageCount(f) <=> (p + 1) * PageSize <= size[f]
         /\ WholePages(f) => size[f] = PageCount(f) * PageSize
  <1>1. /\ PageCount(f) \in Nat
        /\ p < PageCount(f) <=> (p + 1) * PageSize <= size[f]
    BY PagesIn DEF PageCount
  <1>2. PICK q \in Nat : /\ q = size[f] \div PageSize
                         /\ size[f] % PageSize = 0 => size[f] = q * PageSize
    BY PagesIn, Zenon
  <1>3. PageCount(f) = q
    BY <1>2 DEF PageCount
  <1>4. WholePages(f) => size[f] = q * PageSize
    BY <1>2 DEF WholePages
  <1> QED
    BY <1>1, <1>3, <1>4

(***************************************************************************)
(* Types.  A thread is in a loop of kernel calls exactly in the "io" step  *)
(* of a read or a write, and the loop is on the page of its call.          *)
(***************************************************************************)
CallState ==
  [status : {"running"}, op : {"read", "write", "allocate"}, obj : Object, page : Nat,
   byte : Byte, step : {"size", "io", "truncate"}, was : Byte \cup {Mixed}]

LoopState ==
  [obj : Object \cup {NoFile}, off : Nat, len : Nat, data : Seq(Byte), done : Nat,
   state : {"idle", "reading", "writing", "done", "failed"}]

LoopOf(c, l) ==
  /\ c.op \in {"read", "write"}
  /\ c.page \in PageId
  /\ l.obj = c.obj
  /\ l.off = c.page * PageSize
  /\ l.len = PageSize
  /\ l.done \in 0 .. PageSize
  /\ c.op = "read" => /\ l.state \in {"reading", "done", "failed"}
                      /\ Len(l.data) = l.done
  /\ c.op = "write" => /\ l.state \in {"writing", "done", "failed"}
                       /\ l.data = [i \in 1 .. PageSize |-> c.byte]
                       /\ l.state = "done" => l.done = PageSize

Fits(c, l) ==
  /\ c \in Answer => l = Idle
  /\ c \in CallState =>
       /\ c.step = "size" => /\ l = Idle
                             /\ c.page \in PageId \/ (c.op = "allocate" /\ c.page = 0)
       /\ c.step = "truncate" => /\ l = Idle
                                 /\ c.op = "allocate"
                                 /\ c.page + 1 <= MaxU64 \div PageSize
       /\ c.step = "io" => LoopOf(c, l)

KernelType ==
  /\ fd \in [Object -> Descriptor \cup {Closed}]
  /\ table \in [Descriptor -> Object \cup {NoFile}]
  /\ size \in [Object -> 0 .. MaxOffset]
  /\ bytes \in [Object -> [Offset -> Byte]]

ThreadType ==
  /\ call \in [Thread -> Answer \cup CallState]
  /\ io \in [Thread -> LoopState]
  /\ \A t \in Thread : Fits(call[t], io[t])

TypeInv == KernelType /\ ThreadType

LEMMA IdleType == Idle \in LoopState
  BY DEF Idle, LoopState

LEMMA AnswerType ==
  ASSUME NEW x \in Byte \cup PageId \cup {Mixed, Untouched}
  PROVE  /\ Ok(x) \in Answer /\ Error(x) \in Answer
         /\ Fits(Ok(x), Idle) /\ Fits(Error(x), Idle)
  BY DEF Ok, Error, Answer, Fits, CallState

\* Who is in a call.
LEMMA RunningCalls ==
  ASSUME ThreadType
  PROVE  /\ Running = {t \in Thread : call[t] \in CallState}
         /\ \A t \in Thread : t \notin Running => call[t] \in Answer
  BY DEF ThreadType, Running, Answer, CallState

\* A step of thread t that leaves it with call c and loop l.
LEMMA ThreadStep ==
  ASSUME ThreadType, NEW t \in Thread, NEW c \in Answer \cup CallState,
         NEW l \in LoopState, Fits(c, l),
         call' = [call EXCEPT ![t] = c], io' = [io EXCEPT ![t] = l]
  PROVE  ThreadType'
  <1>1. /\ call' \in [Thread -> Answer \cup CallState]
        /\ io' \in [Thread -> LoopState]
    BY DEF ThreadType
  <1>2. ASSUME NEW u \in Thread
        PROVE  Fits(call'[u], io'[u])
    <2>1. CASE u = t
      BY <2>1, Zenon DEF ThreadType
    <2>2. CASE u # t
      BY <2>2, Zenon DEF ThreadType
    <2> QED
      BY <2>1, <2>2
  <1>3. \A u \in Thread : Fits(call'[u], io'[u])
    BY <1>2
  <1> QED
    BY <1>1, <1>3, Zenon DEF ThreadType, Fits, LoopOf, Answer, CallState, PageId, Idle

(***************************************************************************)
(* Types, action by action.                                                *)
(***************************************************************************)

LEMMA CloseOutcomesType ==
  ASSUME KernelType, NEW o \in Object, fd[o] # Closed, NEW k \in CloseOutcomes(o)
  PROVE  k.table \in [Descriptor -> Object \cup {NoFile}]
  BY DEF KernelType, CloseOutcomes

LEMMA OpenOutcomesType ==
  ASSUME NEW o \in Object, NEW tbl \in [Descriptor -> Object \cup {NoFile}],
         NEW r \in OpenOutcomes(o, tbl)
  PROVE  /\ r.table \in [Descriptor -> Object \cup {NoFile}]
         /\ r.fd \in Descriptor \cup {Closed}
  BY DEF OpenOutcomes

LEMMA LifecycleTypes ==
  ASSUME TypeInv, NEW o \in Object,
         OpenBackend(o) \/ CloseBackend(o) \/ DestroyBackend(o)
  PROVE  TypeInv'
  <1>1. KernelType'
    <2>1. CASE CloseBackend(o)
      BY <2>1, CloseOutcomesType DEF TypeInv, KernelType, CloseBackend, Close
    <2>2. CASE DestroyBackend(o)
      BY <2>2, CloseOutcomesType DEF TypeInv, KernelType, DestroyBackend, Destroy
    <2>3. CASE OpenBackend(o)
      <3>1. PICK k \in IF fd[o] = Closed THEN {[ok |-> TRUE, table |-> table]}
                       ELSE CloseOutcomes(o) :
              IF k.ok
              THEN \E r \in OpenOutcomes(o, k.table) :
                     table' = r.table /\ fd' = [fd EXCEPT ![o] = r.fd]
              ELSE table' = k.table /\ UNCHANGED fd
        BY <2>3 DEF OpenBackend, Open
      <3>2. k.table \in [Descriptor -> Object \cup {NoFile}]
        BY <3>1, CloseOutcomesType DEF TypeInv, KernelType
      <3>3. /\ table' \in [Descriptor -> Object \cup {NoFile}]
            /\ fd' \in [Object -> Descriptor \cup {Closed}]
        BY <3>1, <3>2, OpenOutcomesType DEF TypeInv, KernelType
      <3> QED
        BY <2>3, <3>3 DEF TypeInv, KernelType, OpenBackend, Open
    <2> QED
      BY <2>1, <2>2, <2>3
  <1>2. UNCHANGED <<call, io>>
    BY DEF OpenBackend, CloseBackend, DestroyBackend, Open, Close, Destroy
  <1>3. ThreadType'
    BY <1>2 DEF TypeInv, ThreadType
  <1> QED
    BY <1>1, <1>3 DEF TypeInv

\* The call a thread begins with.
NewCall(op, o, p, byte) ==
  [status |-> "running", op |-> op, obj |-> o, page |-> p, byte |-> byte,
   step |-> "size", was |-> Zero]

LEMMA BeginTypes ==
  ASSUME TypeInv, NEW t \in Thread, NEW o \in Object, NEW p \in Nat, NEW byte \in Byte,
         NEW op \in {"read", "write", "allocate"}, p \in PageId \/ (op = "allocate" /\ p = 0),
         Begin(t, op, o, p, byte)
  PROVE  TypeInv'
  <1> DEFINE c == NewCall(op, o, p, byte)
  <1>1. c \in CallState /\ c \notin Answer
    BY DEF NewCall, CallState, Answer
  <1>2. Fits(c, Idle)
    BY <1>1 DEF Fits, NewCall
  <1>3. call[t] \in Answer /\ io[t] = Idle
    BY RunningCalls DEF TypeInv, ThreadType, Begin, Fits
  <1>4. call' = [call EXCEPT ![t] = c] /\ io' = io
    BY DEF Begin, NewCall, ioVars
  <1>5. io' = [io EXCEPT ![t] = Idle]
    BY <1>3, <1>4 DEF TypeInv, ThreadType
  <1> HIDE DEF c
  <1>6. ThreadType'
    BY <1>1, <1>2, <1>4, <1>5, IdleType, ThreadStep, Zenon DEF TypeInv
  <1>7. KernelType'
    BY DEF TypeInv, KernelType, Begin, ioVars
  <1> QED
    BY <1>6, <1>7 DEF TypeInv

\* The page of a file as one value.
LEMMA OnFileType ==
  ASSUME KernelType, NEW f \in Object, NEW p \in PageId
  PROVE  OnFile(f, p) \in Byte \cup {Mixed}
  <1> DEFINE page == [i \in 1 .. PageSize |-> bytes[f][p * PageSize + i - 1]]
  <1>1. page[1] \in Byte
    <2>1. 1 \in 1 .. PageSize
      OBVIOUS
    <2>2. bytes[f][At(p, 1)] \in Byte
      BY <2>1, OffsetOfByte DEF KernelType
    <2> QED
      BY <2>1, <2>2 DEF At
  <1> HIDE DEF page
  <1>2. Summary(page) \in Byte \cup {Mixed}
    BY <1>1 DEF Summary
  <1> QED
    BY <1>2 DEF OnFile, page

NewLoop(c, data, state) ==
  [obj |-> c.obj, off |-> c.page * PageSize, len |-> PageSize, data |-> data,
   done |-> 0, state |-> state]

\* What the calls become when the size of the file is known.
ReadCall(c) == [c EXCEPT !.step = "io"]
WriteCall(c, f) == [c EXCEPT !.step = "io", !.was = OnFile(f, c.page)]
AllocateCall(c, f) == [c EXCEPT !.step = "truncate", !.page = PageCount(f)]

WholePage(byte) == [i \in 1 .. PageSize |-> byte]

CallAfterSize(c, f) ==
  CASE c.op = "read" -> ReadCall(c)
    [] c.op = "write" -> WriteCall(c, f)
    [] c.op = "allocate" -> AllocateCall(c, f)

LoopAfterSize(c) ==
  CASE c.op = "read" -> NewLoop(c, <<>>, "reading")
    [] c.op = "write" -> NewLoop(c, WholePage(c.byte), "writing")
    [] c.op = "allocate" -> Idle

LEMMA AfterSizeTypes ==
  ASSUME KernelType, NEW c \in CallState, c.step = "size", NEW f \in Object,
         Accepts(f, c), c.op # "allocate" => c.page \in PageId
  PROVE  /\ CallAfterSize(c, f) \in CallState
         /\ LoopAfterSize(c) \in LoopState
         /\ Fits(CallAfterSize(c, f), LoopAfterSize(c))
  <1>1. CASE c.op = "read"
    <2> DEFINE d == ReadCall(c)
               l == NewLoop(c, <<>>, "reading")
    <2>1. CallAfterSize(c, f) = d /\ LoopAfterSize(c) = l
      BY <1>1 DEF CallAfterSize, LoopAfterSize
    <2>2. /\ d \in CallState /\ d \notin Answer
          /\ d.step = "io" /\ d.op = "read" /\ d.page = c.page /\ d.obj = c.obj
      BY <1>1 DEF ReadCall, CallState, Answer
    <2>3. c.page \in PageId /\ c.obj \in Object /\ c.page * PageSize \in Nat
      BY <1>1, PageIdBound DEF CallState
    <2>4. l \in LoopState
      BY <2>3 DEF NewLoop, LoopState
    <2>5. LoopOf(d, l)
      BY <2>2, <2>3 DEF LoopOf, NewLoop
    <2> HIDE DEF d, l
    <2> QED
      BY <2>1, <2>2, <2>4, <2>5 DEF Fits
  <1>2. CASE c.op = "write"
    <2> DEFINE d == WriteCall(c, f)
               l == NewLoop(c, WholePage(c.byte), "writing")
    <2>1. CallAfterSize(c, f) = d /\ LoopAfterSize(c) = l
      BY <1>2 DEF CallAfterSize, LoopAfterSize
    <2>2. c.page \in PageId /\ c.obj \in Object /\ c.byte \in Byte /\ c.page * PageSize \in Nat
      BY <1>2, PageIdBound DEF CallState
    <2>3. OnFile(f, c.page) \in Byte \cup {Mixed}
      BY <2>2, OnFileType
    <2>4. /\ d \in CallState /\ d \notin Answer
          /\ d.step = "io" /\ d.op = "write" /\ d.page = c.page /\ d.obj = c.obj
          /\ d.byte = c.byte
      BY <1>2, <2>3, Zenon DEF WriteCall, CallState, Answer
    <2>5. WholePage(c.byte) \in Seq(Byte)
      BY <2>2 DEF WholePage
    <2>6. l \in LoopState
      BY <2>2, <2>5 DEF NewLoop, LoopState
    <2>7. LoopOf(d, l)
      BY <2>2, <2>4 DEF LoopOf, NewLoop, WholePage
    <2> HIDE DEF d, l
    <2> QED
      BY <2>1, <2>4, <2>6, <2>7 DEF Fits
  <1>3. CASE c.op = "allocate"
    <2> DEFINE d == AllocateCall(c, f)
    <2>1. CallAfterSize(c, f) = d /\ LoopAfterSize(c) = Idle
      BY <1>3 DEF CallAfterSize, LoopAfterSize
    <2>2. PageCount(f) \in Nat /\ PageCount(f) + 1 <= MaxU64 \div PageSize
      BY <1>3, PageWithin DEF Accepts, CanGrow, KernelType
    <2>3. /\ d \in CallState /\ d \notin Answer
          /\ d.step = "truncate" /\ d.op = "allocate" /\ d.page = PageCount(f)
      BY <1>3, <2>2, Zenon DEF AllocateCall, CallState, Answer
    <2> HIDE DEF d
    <2> QED
      BY <2>1, <2>2, <2>3, IdleType DEF Fits
  <1> QED
    BY <1>1, <1>2, <1>3 DEF CallState

\* The step in which a call learns the size of the file, as one assignment.
LEMMA CheckSizeStep ==
  ASSUME TypeInv, NEW t \in Thread, CheckSize(t)
  PROVE  /\ t \in Running /\ call[t] \in CallState /\ call[t].step = "size"
         /\ call[t].op # "allocate" => call[t].page \in PageId
         /\ UNCHANGED <<fd, table, size, bytes>>
         /\ \E f \in Reached(call[t].obj) :
              /\ Accepts(f, call[t])
              /\ call' = [call EXCEPT ![t] = CallAfterSize(call[t], f)]
              /\ io' = [io EXCEPT ![t] = LoopAfterSize(call[t])]
  <1>1. t \in Running /\ call[t] \in CallState /\ call[t].step = "size"
    BY RunningCalls DEF TypeInv, CheckSize
  <1>2. io[t] = Idle /\ (call[t].op # "allocate" => call[t].page \in PageId)
    BY <1>1 DEF TypeInv, ThreadType, Fits
  <1>3. UNCHANGED <<fd, table, size, bytes>>
    BY DEF CheckSize, kernelVars
  <1>4. PICK f \in Reached(call[t].obj) :
          /\ Accepts(f, call[t])
          /\ \/ /\ call[t].op = "read"
                /\ BeginIO(t, call[t].obj, call[t].page * PageSize, PageSize, <<>>, "reading")
                /\ call' = [call EXCEPT ![t].step = "io"]
             \/ /\ call[t].op = "write"
                /\ BeginIO(t, call[t].obj, call[t].page * PageSize, PageSize,
                           [i \in 1 .. PageSize |-> call[t].byte], "writing")
                /\ call' = [call EXCEPT ![t].step = "io", ![t].was = OnFile(f, call[t].page)]
             \/ /\ call[t].op = "allocate"
                /\ call' = [call EXCEPT ![t].step = "truncate", ![t].page = PageCount(f)]
                /\ UNCHANGED io
    BY DEF CheckSize
  <1>5. CASE call[t].op = "read"
    <2>1. io' = [io EXCEPT ![t] = LoopAfterSize(call[t])]
      BY <1>4, <1>5 DEF BeginIO, LoopAfterSize, NewLoop
    <2>2. call' = [call EXCEPT ![t] = ReadCall(call[t])]
      BY <1>4, <1>5, Zenon DEF ReadCall
    <2> QED
      BY <1>1, <1>2, <1>3, <1>4, <1>5, <2>1, <2>2 DEF CallAfterSize
  <1>6. CASE call[t].op = "write"
    <2>1. io' = [io EXCEPT ![t] = LoopAfterSize(call[t])]
      BY <1>4, <1>6 DEF BeginIO, LoopAfterSize, NewLoop, WholePage
    <2>2. call' = [call EXCEPT ![t] = WriteCall(call[t], f)]
      BY <1>4, <1>6, Zenon DEF WriteCall
    <2> QED
      BY <1>1, <1>2, <1>3, <1>4, <1>6, <2>1, <2>2, Zenon DEF CallAfterSize
  <1>7. CASE call[t].op = "allocate"
    <2>1. io' = [io EXCEPT ![t] = LoopAfterSize(call[t])]
      BY <1>2, <1>4, <1>7 DEF LoopAfterSize, TypeInv, ThreadType
    <2>2. call' = [call EXCEPT ![t] = AllocateCall(call[t], f)]
      BY <1>4, <1>7, Zenon DEF AllocateCall
    <2> QED
      BY <1>1, <1>2, <1>3, <1>4, <1>7, <2>1, <2>2, Zenon DEF CallAfterSize
  <1> QED
    BY <1>1, <1>5, <1>6, <1>7 DEF CallState

LEMMA CheckSizeTypes ==
  ASSUME TypeInv, NEW t \in Thread, CheckSize(t)
  PROVE  TypeInv'
  <1>1. PICK f \in Reached(call[t].obj) :
          /\ Accepts(f, call[t])
          /\ call' = [call EXCEPT ![t] = CallAfterSize(call[t], f)]
          /\ io' = [io EXCEPT ![t] = LoopAfterSize(call[t])]
    BY CheckSizeStep
  <1>2. f \in Object
    BY DEF Reached
  <1>3. /\ CallAfterSize(call[t], f) \in CallState
        /\ LoopAfterSize(call[t]) \in LoopState
        /\ Fits(CallAfterSize(call[t], f), LoopAfterSize(call[t]))
    BY <1>1, <1>2, CheckSizeStep, AfterSizeTypes DEF TypeInv
  <1>4. ThreadType'
    BY <1>1, <1>3, ThreadStep, Zenon DEF TypeInv
  <1>5. KernelType'
    BY CheckSizeStep DEF TypeInv, KernelType
  <1> QED
    BY <1>4, <1>5 DEF TypeInv

\* A call returns x, and its loop is over.
LEMMA ReturnTypes ==
  ASSUME ThreadType, NEW t \in Thread, NEW x \in Answer, Fits(x, Idle),
         call' = [call EXCEPT ![t] = x], io' = [io EXCEPT ![t] = Idle]
  PROVE  ThreadType'
  BY IdleType, ThreadStep, Zenon

LEMMA RefuseTypes ==
  ASSUME TypeInv, NEW t \in Thread, t \in Running, call[t].step \in {"size", "truncate"},
         Returns(t, Error(Untouched)), UNCHANGED ioVars
  PROVE  TypeInv'
  <1>1. io[t] = Idle
    BY RunningCalls DEF TypeInv, ThreadType, Fits
  <1>2. io' = [io EXCEPT ![t] = Idle]
    BY <1>1 DEF ioVars, TypeInv, ThreadType
  <1>3. ThreadType'
    BY <1>2, AnswerType, ReturnTypes, Zenon DEF TypeInv, Returns
  <1>4. KernelType'
    BY DEF TypeInv, KernelType, ioVars
  <1> QED
    BY <1>3, <1>4 DEF TypeInv

\* The page an allocation is about to add is one a file may have.
LEMMA NewPageType ==
  ASSUME NEW p \in Nat, p + 1 <= MaxU64 \div PageSize
  PROVE  p \in PageId /\ (p + 1) * PageSize \in 0 .. MaxOffset
  <1>1. p < MaxU64 \div PageSize
    BY PagesIn
  <1>2. (p + 1) * PageSize <= MaxU64
    BY <1>1, PagesIn
  <1>3. (p + 1) * PageSize \in Nat
    BY NextPage
  <1>4. (p + 1) * PageSize <= MaxOffset
    BY <1>2, <1>3
  <1>5. p < MaxOffset \div PageSize
    BY <1>4, PagesIn
  <1>6. p \in PageId
    BY <1>5, PagesIn DEF PageId
  <1> QED
    BY <1>3, <1>4, <1>6

\* The step in which allocate_page makes the file longer.
LEMMA AllocateStep ==
  ASSUME TypeInv, NEW t \in Thread, Allocate(t)
  PROVE  /\ t \in Running /\ call[t] \in CallState /\ call[t].step = "truncate"
         /\ call[t].op = "allocate" /\ call[t].page \in PageId
         /\ (call[t].page + 1) * PageSize \in 0 .. MaxOffset
         /\ io[t] = Idle /\ UNCHANGED <<fd, table, io>>
         /\ call' = [call EXCEPT ![t] = Ok(call[t].page)]
         /\ \E f \in Reached(call[t].obj) : Truncate(f, (call[t].page + 1) * PageSize)
  <1>1. t \in Running /\ call[t] \in CallState /\ call[t].step = "truncate"
    BY RunningCalls DEF TypeInv, Allocate
  <1>2. io[t] = Idle /\ call[t].op = "allocate" /\ call[t].page + 1 <= MaxU64 \div PageSize
    BY <1>1 DEF TypeInv, ThreadType, Fits
  <1>3. call[t].page \in PageId /\ (call[t].page + 1) * PageSize \in 0 .. MaxOffset
    BY <1>1, <1>2, NewPageType DEF CallState
  <1> QED
    BY <1>1, <1>2, <1>3 DEF Allocate, Returns

LEMMA AllocateTypes ==
  ASSUME TypeInv, NEW t \in Thread, Allocate(t)
  PROVE  TypeInv'
  <1>1. io' = [io EXCEPT ![t] = Idle]
    BY AllocateStep DEF TypeInv, ThreadType
  <1>2. ThreadType'
    BY <1>1, AllocateStep, AnswerType, ReturnTypes, Zenon DEF TypeInv
  <1>3. PICK f \in Object : Truncate(f, (call[t].page + 1) * PageSize)
    BY AllocateStep DEF Reached
  <1> DEFINE n == (call[t].page + 1) * PageSize
  <1>4. n \in 0 .. MaxOffset
    BY AllocateStep
  <1> HIDE DEF n
  <1>5. /\ size' \in [Object -> 0 .. MaxOffset]
        /\ bytes' \in [Object -> [Offset -> Byte]]
    <2>1. Truncate(f, n)
      BY <1>3 DEF n
    <2> QED
      BY <1>4, <2>1 DEF Truncate, TypeInv, KernelType
  <1>6. KernelType'
    BY <1>5, AllocateStep DEF TypeInv, KernelType
  <1> QED
    BY <1>2, <1>6 DEF TypeInv

\* A thread whose loop is not idle is in the "io" step of a read or a write.
LEMMA LoopingCalls ==
  ASSUME ThreadType, NEW t \in Thread,
         io[t].state \in {"reading", "writing"} \/ (t \in Running /\ call[t].step = "io")
  PROVE  /\ t \in Running /\ call[t] \in CallState /\ call[t].step = "io"
         /\ LoopOf(call[t], io[t]) /\ io[t] \in LoopState
  <1>1. call[t] \in CallState
    BY RunningCalls DEF ThreadType, Fits, Idle
  <1>2. t \in Running
    BY <1>1, RunningCalls
  <1>3. call[t].step = "io"
    BY <1>1 DEF ThreadType, Fits, Idle, CallState
  <1> QED
    BY <1>1, <1>2, <1>3 DEF ThreadType, Fits

\* A loop after n more bytes.
AdvancedLoop(l, n, data) ==
  [l EXCEPT !.done = @ + n, !.data = data,
            !.state = IF n = 0 \/ l.done + n = l.len THEN "done" ELSE @]

LEMMA AdvancedStep ==
  ASSUME NEW t \in Thread, NEW n, NEW data, io' = Advanced(t, n, data)
  PROVE  io' = [io EXCEPT ![t] = AdvancedLoop(io[t], n, data)]
  BY Zenon DEF Advanced, AdvancedLoop

\* What has become of loop l.
Advance(m, l, n, data) ==
  /\ m \in LoopState
  /\ m.obj = l.obj
  /\ m.off = l.off
  /\ m.len = l.len
  /\ m.done = l.done + n
  /\ m.data = data
  /\ m.state = IF n = 0 \/ l.done + n = l.len THEN "done" ELSE l.state

LEMMA AdvancedFields ==
  ASSUME NEW l \in LoopState, NEW n \in Nat, NEW data \in Seq(Byte)
  PROVE  Advance(AdvancedLoop(l, n, data), l, n, data)
  <1> DEFINE s == IF n = 0 \/ l.done + n = l.len THEN "done" ELSE l.state
             d == l.done + n
             m == AdvancedLoop(l, n, data)
  <1>1. d \in Nat /\ s \in {"idle", "reading", "writing", "done", "failed"}
    BY DEF LoopState
  <1>2. m = [l EXCEPT !.done = d, !.data = data, !.state = s]
    BY Zenon DEF AdvancedLoop
  <1> HIDE DEF s, d, m
  <1>3. /\ m \in LoopState
        /\ m.obj = l.obj /\ m.off = l.off /\ m.len = l.len
        /\ m.done = d /\ m.data = data /\ m.state = s
    BY <1>1, <1>2, Zenon DEF LoopState
  <1>4. Advance(m, l, n, data)
    BY <1>3, Zenon DEF Advance, s, d
  <1> QED
    BY <1>4 DEF m

LEMMA MinOfTwo ==
  ASSUME NEW a \in Int, NEW b \in Int
  PROVE  Min({a, b}) \in {a, b} /\ Min({a, b}) <= a /\ Min({a, b}) <= b
  <1>1. \E x \in {a, b} : \A y \in {a, b} : x <= y
    OBVIOUS
  <1> QED
    BY <1>1 DEF Min

LEMMA MaxOfTwo ==
  ASSUME NEW a \in Int, NEW b \in Int
  PROVE  Max({a, b}) \in {a, b} /\ Max({a, b}) >= a /\ Max({a, b}) >= b
  <1>1. \E x \in {a, b} : \A y \in {a, b} : x >= y
    OBVIOUS
  <1> QED
    BY <1>1 DEF Max

\* A pread transfers no more than the buffer and the file have left.
LEMMA ReadableBound ==
  ASSUME TypeInv, NEW t \in Thread, LoopOf(call[t], io[t]), NEW f \in Object,
         NEW n \in Readable(t, f)
  PROVE  /\ n \in 0 .. PageSize - io[t].done
         /\ \A i \in 1 .. n : NextOffset(t) + i - 1 \in Offset
  <1>1. /\ io[t].done \in 0 .. PageSize /\ io[t].len = PageSize
        /\ NextOffset(t) \in Nat /\ size[f] \in 0 .. MaxOffset
    <2>1. io[t].done \in 0 .. PageSize /\ io[t].len = PageSize
      BY DEF LoopOf
    <2>2. io[t].off \in Nat
      BY PageIdBound DEF LoopOf
    <2> QED
      BY <2>1, <2>2 DEF TypeInv, KernelType, NextOffset
  <1> DEFINE a == io[t].len - io[t].done
             b == size[f] - NextOffset(t)
  <1>2. CASE NextOffset(t) >= size[f]
    BY <1>1, <1>2 DEF Readable
  <1>3. CASE ~(NextOffset(t) >= size[f])
    <2>1. a \in Int /\ b \in Int
      BY <1>1
    <2>2. n \in 1 .. Min({a, b})
      BY <1>3 DEF Readable
    <2> HIDE DEF a, b
    <2>3. Min({a, b}) \in Int /\ Min({a, b}) <= a /\ Min({a, b}) <= b
      BY <2>1, MinOfTwo, Zenon
    <2>4. n \in Nat /\ n <= a /\ n <= b
      BY <2>1, <2>2, <2>3
    <2> QED
      BY <1>1, <2>4 DEF a, b, Offset
  <1> QED
    BY <1>2, <1>3

\* The n bytes of file f that the next kernel call of t reads.
BytesRead(t, f, n) == [i \in 1 .. n |-> bytes[f][NextOffset(t) + i - 1]]

\* The step of a read that transfers some bytes.
LEMMA ReadTurnStep ==
  ASSUME TypeInv, NEW t \in Thread, ReadTurn(t)
  PROVE  /\ t \in Running /\ call[t] \in CallState /\ call[t].step = "io"
         /\ call[t].op = "read" /\ LoopOf(call[t], io[t]) /\ io[t] \in LoopState
         /\ UNCHANGED <<fd, table, size, bytes>>
         /\ \E f \in Reached(call[t].obj) : \E n \in 0 .. PageSize - io[t].done :
              /\ \A i \in 1 .. n : NextOffset(t) + i - 1 \in Offset
              /\ BytesRead(t, f, n) \in Seq(Byte) /\ Len(BytesRead(t, f, n)) = n
              /\ io' = [io EXCEPT ![t] =
                          AdvancedLoop(io[t], n, io[t].data \o BytesRead(t, f, n))]
  <1>1. /\ t \in Running /\ call[t] \in CallState /\ call[t].step = "io"
        /\ LoopOf(call[t], io[t]) /\ io[t] \in LoopState
    BY LoopingCalls DEF TypeInv, ReadTurn
  <1>2. call[t].op = "read" /\ io[t].obj = call[t].obj
    BY <1>1 DEF LoopOf, ReadTurn
  <1>3. UNCHANGED <<fd, table, size, bytes>>
    BY DEF ReadTurn, kernelVars
  <1>4. PICK f \in Reached(call[t].obj) : \E n \in Readable(t, f) :
               io' = Advanced(t, n, io[t].data \o BytesRead(t, f, n))
    BY <1>2, Zenon DEF ReadTurn, BytesRead
  <1>5. PICK n \in Readable(t, f) :
               io' = Advanced(t, n, io[t].data \o BytesRead(t, f, n))
    BY <1>4
  <1>6. f \in Object
    BY DEF Reached
  <1>7. /\ n \in 0 .. PageSize - io[t].done
        /\ \A i \in 1 .. n : NextOffset(t) + i - 1 \in Offset
    BY <1>1, <1>6, ReadableBound
  <1>8. BytesRead(t, f, n) \in Seq(Byte) /\ Len(BytesRead(t, f, n)) = n
    <2>1. n \in Nat
      BY <1>1, <1>7 DEF LoopOf
    <2>2. \A i \in 1 .. n : bytes[f][NextOffset(t) + i - 1] \in Byte
      <3>1. \A j \in Offset : bytes[f][j] \in Byte
        BY <1>6 DEF TypeInv, KernelType
      <3> QED
        BY <1>7, <3>1, Zenon
    <2> QED
      BY <2>1, <2>2 DEF BytesRead
  <1>9. io' = [io EXCEPT ![t] = AdvancedLoop(io[t], n, io[t].data \o BytesRead(t, f, n))]
    BY <1>5, AdvancedStep
  <1> QED
    BY <1>1, <1>2, <1>3, <1>7, <1>8, <1>9, Zenon

\* The loop of a read that transfers bytes is still on its page.
LEMMA ReadAdvances ==
  ASSUME NEW c \in CallState, NEW l \in LoopState, LoopOf(c, l), c.op = "read",
         l.state = "reading", NEW n \in 0 .. PageSize - l.done, NEW s \in Seq(Byte), Len(s) = n
  PROVE  /\ l.data \o s \in Seq(Byte)
         /\ AdvancedLoop(l, n, l.data \o s) \in LoopState
         /\ LoopOf(c, AdvancedLoop(l, n, l.data \o s))
  <1>1. l.data \in Seq(Byte) /\ Len(l.data) = l.done /\ l.done \in 0 .. PageSize /\ n \in Nat
    BY DEF LoopOf, LoopState
  <1> DEFINE d == l.data \o s
             m == AdvancedLoop(l, n, d)
  <1>2. d \in Seq(Byte) /\ Len(d) = l.done + n
    BY <1>1
  <1> HIDE DEF d
  <1>3. Advance(m, l, n, d)
    BY <1>1, <1>2, AdvancedFields, Zenon
  <1> HIDE DEF m
  <1>4. m.done \in 0 .. PageSize /\ Len(m.data) = m.done
    BY <1>1, <1>2, <1>3 DEF Advance
  <1>5. m \in LoopState /\ LoopOf(c, m)
    BY <1>3, <1>4 DEF LoopOf, Advance
  <1> QED
    BY <1>2, <1>5 DEF m, d

LEMMA ReadTurnTypes ==
  ASSUME TypeInv, NEW t \in Thread, ReadTurn(t), UNCHANGED call
  PROVE  TypeInv'
  <1>1. PICK f \in Reached(call[t].obj) : \E n \in 0 .. PageSize - io[t].done :
              /\ BytesRead(t, f, n) \in Seq(Byte) /\ Len(BytesRead(t, f, n)) = n
              /\ io' = [io EXCEPT ![t] =
                          AdvancedLoop(io[t], n, io[t].data \o BytesRead(t, f, n))]
    BY ReadTurnStep
  <1>2. PICK n \in 0 .. PageSize - io[t].done :
              /\ BytesRead(t, f, n) \in Seq(Byte) /\ Len(BytesRead(t, f, n)) = n
              /\ io' = [io EXCEPT ![t] =
                          AdvancedLoop(io[t], n, io[t].data \o BytesRead(t, f, n))]
    BY <1>1, Zenon
  <1> DEFINE l == AdvancedLoop(io[t], n, io[t].data \o BytesRead(t, f, n))
  <1>3. l \in LoopState /\ LoopOf(call[t], l)
    BY <1>2, ReadTurnStep, ReadAdvances, Zenon DEF ReadTurn
  <1>4. call' = [call EXCEPT ![t] = call[t]] /\ io' = [io EXCEPT ![t] = l]
    BY <1>2 DEF TypeInv, ThreadType
  <1> HIDE DEF l
  <1>5. Fits(call[t], l)
    BY <1>3, ReadTurnStep DEF Fits, CallState, Answer
  <1>6. ThreadType'
    BY <1>3, <1>4, <1>5, ReadTurnStep, ThreadStep, Zenon DEF TypeInv
  <1>7. KernelType'
    BY ReadTurnStep DEF TypeInv, KernelType
  <1> QED
    BY <1>6, <1>7 DEF TypeInv

\* The bytes of a file after n bytes of value b were written at offset "from".
Stored(old, from, n, b) ==
  [i \in Offset |-> IF i \in from .. from + n - 1 THEN b ELSE old[i]]

\* The step of a write that transfers some bytes.
\* The bytes of one turn are bytes of the page being written.
LEMMA WithinTransfer ==
  ASSUME NEW done \in 0 .. PageSize, NEW o \in Nat, NEW n \in 1 .. PageSize - done,
         NEW i \in o .. o + n - 1
  PROVE  done + i - o + 1 \in 1 .. PageSize
  OBVIOUS

LEMMA WriteTurnStep ==
  ASSUME TypeInv, NEW t \in Thread, WriteTurn(t)
  PROVE  /\ t \in Running /\ call[t] \in CallState /\ call[t].step = "io"
         /\ call[t].op = "write" /\ LoopOf(call[t], io[t]) /\ io[t] \in LoopState
         /\ NextOffset(t) \in Nat
         /\ UNCHANGED <<fd, table>>
         /\ \E f \in Reached(call[t].obj) : \E n \in 1 .. PageSize - io[t].done :
              /\ NextOffset(t) + n <= MaxOffset
              /\ bytes' = [bytes EXCEPT ![f] =
                             Stored(bytes[f], NextOffset(t), n, call[t].byte)]
              /\ size' = [size EXCEPT ![f] = Max({size[f], NextOffset(t) + n})]
              /\ io' = [io EXCEPT ![t] = AdvancedLoop(io[t], n, io[t].data)]
  <1>1. /\ t \in Running /\ call[t] \in CallState /\ call[t].step = "io"
        /\ LoopOf(call[t], io[t]) /\ io[t] \in LoopState
    BY LoopingCalls DEF TypeInv, WriteTurn
  <1>2. /\ call[t].op = "write" /\ io[t].obj = call[t].obj
        /\ io[t].len = PageSize /\ io[t].done \in 0 .. PageSize
        /\ io[t].data = [i \in 1 .. PageSize |-> call[t].byte]
    BY <1>1 DEF LoopOf, WriteTurn
  <1>3. NextOffset(t) \in Nat
    <2>1. io[t].off \in Nat
      BY <1>1 DEF LoopState
    <2> QED
      BY <1>2, <2>1 DEF NextOffset
  <1>4. PICK f \in Reached(call[t].obj), n \in 1 .. PageSize - io[t].done :
          /\ NextOffset(t) + n <= MaxOffset
          /\ bytes' = [bytes EXCEPT ![f] =
               [i \in Offset |-> IF i \in NextOffset(t) .. NextOffset(t) + n - 1
                                 THEN io[t].data[io[t].done + i - NextOffset(t) + 1]
                                 ELSE bytes[f][i]]]
          /\ size' = [size EXCEPT ![f] = Max({size[f], NextOffset(t) + n})]
          /\ io' = Advanced(t, n, io[t].data)
    BY <1>2, Zenon DEF WriteTurn
  <1>5. ASSUME NEW i \in NextOffset(t) .. NextOffset(t) + n - 1
        PROVE  io[t].data[io[t].done + i - NextOffset(t) + 1] = call[t].byte
    <2>1. io[t].done + i - NextOffset(t) + 1 \in 1 .. PageSize
      BY <1>2, <1>3, WithinTransfer, Zenon
    <2> QED
      BY <1>2, <2>1
  <1>6. bytes' = [bytes EXCEPT ![f] = Stored(bytes[f], NextOffset(t), n, call[t].byte)]
    <2>1. [i \in Offset |-> IF i \in NextOffset(t) .. NextOffset(t) + n - 1
                            THEN io[t].data[io[t].done + i - NextOffset(t) + 1]
                            ELSE bytes[f][i]]
          = Stored(bytes[f], NextOffset(t), n, call[t].byte)
      BY <1>5, Zenon DEF Stored
    <2> QED
      BY <1>4, <2>1, Zenon
  <1>7. io' = [io EXCEPT ![t] = AdvancedLoop(io[t], n, io[t].data)]
    BY <1>4, AdvancedStep
  <1> QED
    BY <1>1, <1>2, <1>3, <1>4, <1>6, <1>7, Zenon DEF WriteTurn

\* The loop of a write that transfers bytes is still on its page.
LEMMA WriteAdvances ==
  ASSUME NEW c \in CallState, NEW l \in LoopState, LoopOf(c, l), c.op = "write",
         l.state = "writing", NEW n \in 1 .. PageSize - l.done
  PROVE  /\ AdvancedLoop(l, n, l.data) \in LoopState
         /\ LoopOf(c, AdvancedLoop(l, n, l.data))
  <1>1. l.data \in Seq(Byte) /\ l.done \in 0 .. PageSize /\ n \in Nat \ {0}
    BY DEF LoopOf, LoopState
  <1> DEFINE m == AdvancedLoop(l, n, l.data)
  <1>2. Advance(m, l, n, l.data)
    BY <1>1, AdvancedFields
  <1> HIDE DEF m
  <1>3. m \in LoopState /\ LoopOf(c, m)
    BY <1>1, <1>2 DEF LoopOf, Advance
  <1> QED
    BY <1>3 DEF m

LEMMA StoredType ==
  ASSUME NEW old \in [Offset -> Byte], NEW from, NEW n, NEW b \in Byte
  PROVE  Stored(old, from, n, b) \in [Offset -> Byte]
  BY DEF Stored

LEMMA WriteTurnTypes ==
  ASSUME TypeInv, NEW t \in Thread, WriteTurn(t), UNCHANGED call
  PROVE  TypeInv'
  <1>1. PICK f \in Reached(call[t].obj) : \E n \in 1 .. PageSize - io[t].done :
              /\ NextOffset(t) + n <= MaxOffset
              /\ bytes' = [bytes EXCEPT ![f] =
                             Stored(bytes[f], NextOffset(t), n, call[t].byte)]
              /\ size' = [size EXCEPT ![f] = Max({size[f], NextOffset(t) + n})]
              /\ io' = [io EXCEPT ![t] = AdvancedLoop(io[t], n, io[t].data)]
    BY WriteTurnStep, Zenon
  <1>2. PICK n \in 1 .. PageSize - io[t].done :
              /\ NextOffset(t) + n <= MaxOffset
              /\ bytes' = [bytes EXCEPT ![f] =
                             Stored(bytes[f], NextOffset(t), n, call[t].byte)]
              /\ size' = [size EXCEPT ![f] = Max({size[f], NextOffset(t) + n})]
              /\ io' = [io EXCEPT ![t] = AdvancedLoop(io[t], n, io[t].data)]
    BY <1>1, Zenon
  <1> DEFINE l == AdvancedLoop(io[t], n, io[t].data)
  <1>3. l \in LoopState /\ LoopOf(call[t], l)
    BY <1>2, WriteTurnStep, WriteAdvances, Zenon DEF WriteTurn
  <1>4. call' = [call EXCEPT ![t] = call[t]] /\ io' = [io EXCEPT ![t] = l]
    BY <1>2, Zenon DEF TypeInv, ThreadType
  <1> HIDE DEF l
  <1>5. Fits(call[t], l)
    BY <1>3, WriteTurnStep DEF Fits, CallState, Answer
  <1>6. ThreadType'
    BY <1>3, <1>4, <1>5, WriteTurnStep, ThreadStep, Zenon DEF TypeInv
  <1>7. f \in Object /\ call[t].byte \in Byte
    BY WriteTurnStep DEF Reached, CallState
  <1>8. bytes' \in [Object -> [Offset -> Byte]]
    BY <1>2, <1>7, StoredType DEF TypeInv, KernelType
  <1>9. size' \in [Object -> 0 .. MaxOffset]
    <2>1. size[f] \in 0 .. MaxOffset /\ NextOffset(t) + n \in 0 .. MaxOffset
      BY <1>2, <1>7, WriteTurnStep DEF TypeInv, KernelType
    <2> DEFINE a == size[f]
               b == NextOffset(t) + n
    <2>2. Max({a, b}) \in {a, b}
      <3>1. a \in Int /\ b \in Int
        BY <2>1
      <3> HIDE DEF a, b
      <3> QED
        BY <3>1, MaxOfTwo, Zenon
    <2> QED
      BY <1>2, <2>1, <2>2, Zenon DEF TypeInv, KernelType
  <1>10. KernelType'
    BY <1>8, <1>9, WriteTurnStep DEF TypeInv, KernelType
  <1> QED
    BY <1>6, <1>10 DEF TypeInv

\* A loop in which a kernel call failed.
FailedLoop(l) == [l EXCEPT !.state = "failed"]

LEMMA FailIOStep ==
  ASSUME TypeInv, NEW t \in Thread, FailIO(t)
  PROVE  /\ t \in Running /\ call[t] \in CallState /\ call[t].step = "io"
         /\ LoopOf(call[t], io[t]) /\ io[t] \in LoopState
         /\ UNCHANGED <<fd, table, size, bytes>>
         /\ io' = [io EXCEPT ![t] = FailedLoop(io[t])]
  <1>1. /\ t \in Running /\ call[t] \in CallState /\ call[t].step = "io"
        /\ LoopOf(call[t], io[t]) /\ io[t] \in LoopState
    BY LoopingCalls DEF TypeInv, FailIO, Looping
  <1>2. io' = [io EXCEPT ![t] = FailedLoop(io[t])]
    BY Zenon DEF FailIO, FailedLoop
  <1> QED
    BY <1>1, <1>2, Zenon DEF FailIO, kernelVars

LEMMA FailedFits ==
  ASSUME NEW c \in CallState, NEW l \in LoopState, LoopOf(c, l), c.step = "io"
  PROVE  /\ FailedLoop(l) \in LoopState
         /\ LoopOf(c, FailedLoop(l))
         /\ Fits(c, FailedLoop(l))
  <1> DEFINE m == FailedLoop(l)
  <1>1. /\ m \in LoopState /\ m.obj = l.obj /\ m.off = l.off /\ m.len = l.len
        /\ m.done = l.done /\ m.data = l.data /\ m.state = "failed"
    BY DEF FailedLoop, LoopState
  <1> HIDE DEF m
  <1>2. LoopOf(c, m)
    BY <1>1 DEF LoopOf
  <1>3. Fits(c, m)
    BY <1>2 DEF Fits, CallState, Answer
  <1> QED
    BY <1>1, <1>2, <1>3 DEF m

LEMMA FailIOTypes ==
  ASSUME TypeInv, NEW t \in Thread, FailIO(t), UNCHANGED call
  PROVE  TypeInv'
  <1>1. /\ FailedLoop(io[t]) \in LoopState
        /\ Fits(call[t], FailedLoop(io[t]))
    BY FailIOStep, FailedFits
  <1>2. call' = [call EXCEPT ![t] = call[t]]
    BY DEF TypeInv, ThreadType
  <1>3. ThreadType'
    BY <1>1, <1>2, FailIOStep, ThreadStep, Zenon DEF TypeInv
  <1>4. KernelType'
    BY FailIOStep DEF TypeInv, KernelType
  <1> QED
    BY <1>3, <1>4 DEF TypeInv

\* What a call returns when its loop is over.
Outcome(c, l) ==
  CASE c.op = "write" /\ l.state = "done" -> Ok(c.byte)
    [] c.op = "write" /\ l.state = "failed" -> Error(Untouched)
    [] c.op = "read" /\ l.state = "done" /\ l.done = PageSize -> Ok(Summary(l.data))
    [] OTHER -> Error(IF l.done = 0 THEN Untouched ELSE Mixed)

LEMMA FinishStep ==
  ASSUME TypeInv, NEW t \in Thread, Finish(t)
  PROVE  /\ t \in Running /\ call[t] \in CallState /\ call[t].step = "io"
         /\ LoopOf(call[t], io[t]) /\ io[t] \in LoopState
         /\ io[t].state \in {"done", "failed"}
         /\ UNCHANGED <<fd, table, size, bytes>>
         /\ call' = [call EXCEPT ![t] = Outcome(call[t], io[t])]
         /\ io' = [io EXCEPT ![t] = Idle]
  <1>1. /\ t \in Running /\ call[t] \in CallState /\ call[t].step = "io"
        /\ LoopOf(call[t], io[t]) /\ io[t] \in LoopState
    BY LoopingCalls DEF TypeInv, Finish
  <1>2. call' = [call EXCEPT ![t] = Outcome(call[t], io[t])]
    BY DEF Finish, Returns, Outcome
  <1> QED
    BY <1>1, <1>2 DEF Finish, kernelVars

LEMMA OutcomeType ==
  ASSUME NEW c \in CallState, NEW l \in LoopState, LoopOf(c, l)
  PROVE  Outcome(c, l) \in Answer /\ Fits(Outcome(c, l), Idle)
  <1>1. c.byte \in Byte
    BY DEF CallState
  <1>2. l.done = PageSize /\ c.op = "read" => Summary(l.data) \in Byte \cup {Mixed}
    BY DEF LoopOf, LoopState, Summary
  <1>3. CASE c.op = "write" /\ l.state = "done"
    BY <1>1, <1>3, AnswerType DEF Outcome
  <1>4. CASE c.op = "write" /\ l.state = "failed"
    BY <1>4, AnswerType DEF Outcome
  <1>5. CASE c.op = "read" /\ l.state = "done" /\ l.done = PageSize
    <2>1. Outcome(c, l) = Ok(Summary(l.data))
      BY <1>5 DEF Outcome
    <2> QED
      BY <1>2, <1>5, <2>1, AnswerType
  <1>6. CASE ~(c.op = "write" /\ l.state = "done") /\ ~(c.op = "write" /\ l.state = "failed")
             /\ ~(c.op = "read" /\ l.state = "done" /\ l.done = PageSize)
    <2>1. Outcome(c, l) = Error(IF l.done = 0 THEN Untouched ELSE Mixed)
      BY <1>6 DEF Outcome
    <2> QED
      BY <2>1, AnswerType
  <1> QED
    BY <1>3, <1>4, <1>5, <1>6

LEMMA FinishTypes ==
  ASSUME TypeInv, NEW t \in Thread, Finish(t)
  PROVE  TypeInv'
  <1>1. Outcome(call[t], io[t]) \in Answer /\ Fits(Outcome(call[t], io[t]), Idle)
    BY FinishStep, OutcomeType
  <1>2. ThreadType'
    BY <1>1, FinishStep, ReturnTypes DEF TypeInv
  <1>3. KernelType'
    BY FinishStep DEF TypeInv, KernelType
  <1> QED
    BY <1>2, <1>3 DEF TypeInv

(***************************************************************************)
(* The type invariant is inductive.                                        *)
(***************************************************************************)

LEMMA TypesInitially == Init => TypeInv
  <1> SUFFICES ASSUME Init PROVE TypeInv
    OBVIOUS
  <1>1. KernelType
    BY DEF Init, IOInit, KernelType
  <1>2. Ok(Zero) \in Answer /\ Fits(Ok(Zero), Idle)
    BY AnswerType
  <1>3. ThreadType
    BY <1>2, IdleType DEF Init, IOInit, ThreadType
  <1> QED
    BY <1>1, <1>3 DEF TypeInv

LEMMA BeginOps ==
  ASSUME TypeInv, NEW t \in Thread, NEW o \in Object,
         \/ BeginAllocate(t, o)
         \/ \E p \in PageId : BeginRead(t, o, p)
         \/ \E p \in PageId, byte \in Byte : BeginWrite(t, o, p, byte)
  PROVE  \E op \in {"read", "write", "allocate"}, p \in Nat, byte \in Byte :
           /\ p \in PageId \/ (op = "allocate" /\ p = 0)
           /\ Begin(t, op, o, p, byte)
  <1>1. CASE BeginAllocate(t, o)
    BY <1>1 DEF BeginAllocate
  <1>2. CASE \E p \in PageId : BeginRead(t, o, p)
    BY <1>2, PageIdBound DEF BeginRead
  <1>3. CASE \E p \in PageId, byte \in Byte : BeginWrite(t, o, p, byte)
    BY <1>3, PageIdBound DEF BeginWrite
  <1> QED
    BY <1>1, <1>2, <1>3

LEMMA TypesStep == TypeInv /\ [Next]_vars => TypeInv'
  <1> SUFFICES ASSUME TypeInv, [Next]_vars
               PROVE  TypeInv'
    OBVIOUS
  <1>1. ASSUME NEW o \in Object, OpenBackend(o) \/ CloseBackend(o) \/ DestroyBackend(o)
        PROVE  TypeInv'
    BY <1>1, LifecycleTypes
  <1>2. ASSUME NEW t \in Thread, CheckSize(t)
        PROVE  TypeInv'
    BY <1>2, CheckSizeTypes
  <1>3. ASSUME NEW t \in Thread, Refuse(t)
        PROVE  TypeInv'
    BY <1>3, RefuseTypes DEF Refuse
  <1>4. ASSUME NEW t \in Thread, Allocate(t)
        PROVE  TypeInv'
    BY <1>4, AllocateTypes
  <1>5. ASSUME NEW t \in Thread, Transfer(t)
        PROVE  TypeInv'
    BY <1>5, ReadTurnTypes, WriteTurnTypes DEF Transfer
  <1>6. ASSUME NEW t \in Thread, Finish(t)
        PROVE  TypeInv'
    BY <1>6, FinishTypes
  <1>7. ASSUME NEW t \in Thread, KernelFails(t)
        PROVE  TypeInv'
    BY <1>7, RefuseTypes, FailIOTypes DEF KernelFails
  <1>8. ASSUME NEW t \in Thread, NEW o \in Object,
               \/ BeginAllocate(t, o)
               \/ \E p \in PageId : BeginRead(t, o, p)
               \/ \E p \in PageId, byte \in Byte : BeginWrite(t, o, p, byte)
        PROVE  TypeInv'
    BY <1>8, BeginOps, BeginTypes
  <1>9. CASE UNCHANGED vars
    BY <1>9 DEF vars, ioVars, TypeInv, KernelType, ThreadType
  <1> QED
    BY <1>1, <1>2, <1>3, <1>4, <1>5, <1>6, <1>7, <1>8, <1>9 DEF Next, Proceed

LEMMA TypesAlways == Spec => []TypeInv
  BY TypesInitially, TypesStep, PTL DEF Spec

LEMMA TypesImply == TypeInv => TypeOK
  <1> SUFFICES ASSUME TypeInv PROVE TypeOK
    OBVIOUS
  <1>1. ASSUME NEW t \in Thread
        PROVE  /\ io[t].data \in Seq(Byte)
               /\ io[t].done \in 0 .. io[t].len
               /\ Looping(t) => t \in Running
    <2>1. io[t] \in LoopState
      BY DEF TypeInv, ThreadType
    <2>2. Looping(t) => t \in Running
      BY LoopingCalls DEF TypeInv, Looping
    <2>3. io[t] = Idle \/ LoopOf(call[t], io[t])
      BY DEF TypeInv, ThreadType, Fits, CallState
    <2>4. io[t].done \in 0 .. io[t].len
      BY <2>3 DEF Idle, LoopOf
    <2> QED
      BY <2>1, <2>2, <2>4 DEF LoopState
  <1>2. ASSUME NEW t \in Running
        PROVE  call[t].page \in PageId \cup {MaxOffset \div PageSize}
    <2>1. t \in Thread /\ call[t] \in CallState
      BY RunningCalls DEF TypeInv
    <2>2. 0 \in PageId \cup {MaxOffset \div PageSize}
      BY PagesIn DEF PageId
    <2>3. call[t].step = "truncate" => call[t].page \in PageId
      BY <2>1, NewPageType DEF TypeInv, ThreadType, Fits, CallState
    <2>4. call[t].step # "truncate" => call[t].page \in PageId \cup {0}
      BY <2>1 DEF TypeInv, ThreadType, Fits, CallState, LoopOf
    <2> QED
      BY <2>2, <2>3, <2>4
  <1> QED
    BY <1>1, <1>2 DEF TypeOK, TypeInv, KernelType

\* Types hold through short transfers, failing kernel calls, and backends that
\* are opened, closed and destroyed between calls, whichever file they reach:
\* no loop runs past its buffer, and only a running call has one
\* (posix_io.cpp:92-150, page_store.cpp:25-90).
THEOREM TypeCorrect == Spec => []TypeOK
  BY TypesAlways, TypesImply, PTL

(***************************************************************************)
(* Calls and the file.  While each backend reaches its own file, the loop  *)
(* of a read holds what the file has, the first bytes of the page of a     *)
(* write are the new ones, the page being added is the next one, and the   *)
(* bytes past the end of a file are zero.                                  *)
(***************************************************************************)

\* Every open backend that reaches a file reaches its own.  A close that fails
\* and has released the descriptor is how it can come to be otherwise
\* (posix_io.cpp:46-90).
OwnFile == \A o \in Object : Reached(o) \subseteq {o}

PageOf(b, p) == [i \in 1 .. PageSize |-> b[At(p, i)]]

\* Call c, its loop l, and the file: n bytes, which are b.
Agrees(c, l, n, b) ==
  /\ c.step = "io" =>
       /\ (c.page + 1) * PageSize <= n
       /\ c.op = "read" => \A i \in 1 .. l.done : l.data[i] = b[At(c.page, i)]
       /\ c.op = "write" => /\ \A i \in 1 .. l.done : b[At(c.page, i)] = c.byte
                            /\ l.done = 0 => Summary(PageOf(b, c.page)) = c.was
  /\ c.step = "truncate" => n = c.page * PageSize

Agreement ==
  \A t \in Running : Agrees(call[t], io[t], size[call[t].obj], bytes[call[t].obj])

\* The contract of io_ops.hpp between two calls.
Apart(c, d) ==
  c.obj = d.obj =>
    /\ ~(c.op = "allocate" /\ d.op = "allocate")
    /\ c.op = "write" /\ d.op \in {"read", "write"} => c.page # d.page

Exclusive == \A t, u \in Running : t # u => Apart(call[t], call[u])

PastEnd == \A o \in Object : \A i \in Offset : i >= size[o] => bytes[o][i] = Zero

FileInv == TypeInv /\ Agreement /\ Exclusive /\ PastEnd

LEMMA SizeIsNat ==
  ASSUME FileInv, NEW o \in Object
  PROVE  size[o] \in Nat
  BY DEF FileInv, TypeInv, KernelType

LEMMA OnFileIs ==
  ASSUME NEW o, NEW p
  PROVE  OnFile(o, p) = Summary(PageOf(bytes[o], p))
  BY DEF OnFile, PageOf, At

\* A call agrees with a file that has the same bytes in its page.
LEMMA AgreesStill ==
  ASSUME NEW c, NEW l, NEW n, NEW b, Agrees(c, l, n, b), NEW m, NEW b2,
         c.step = "io" => /\ l.done \in 0 .. PageSize
                          /\ (c.page + 1) * PageSize <= m
                          /\ \A i \in 1 .. PageSize : b2[At(c.page, i)] = b[At(c.page, i)],
         c.step = "truncate" => m = n
  PROVE  Agrees(c, l, m, b2)
  <1>1. CASE c.step = "io"
    <2>1. PageOf(b2, c.page) = PageOf(b, c.page)
      BY <1>1 DEF PageOf
    <2>2. \A i \in 1 .. l.done : i \in 1 .. PageSize
      BY <1>1
    <2>3. /\ c.op = "read" => \A i \in 1 .. l.done : l.data[i] = b[At(c.page, i)]
          /\ c.op = "write" => /\ \A i \in 1 .. l.done : b[At(c.page, i)] = c.byte
                               /\ l.done = 0 => Summary(PageOf(b, c.page)) = c.was
      BY <1>1, Zenon DEF Agrees
    <2>4. \A i \in 1 .. l.done : b2[At(c.page, i)] = b[At(c.page, i)]
      BY <1>1, <2>2, Zenon
    <2> QED
      BY <1>1, <2>1, <2>3, <2>4, Zenon DEF Agrees
  <1>2. CASE c.step # "io"
    BY <1>2 DEF Agrees
  <1> QED
    BY <1>1, <1>2

\* A step of thread t, as it is seen by the calls.
LEMMA CallsStep ==
  ASSUME FileInv, NEW t \in Thread, NEW c, NEW l,
         call' = [call EXCEPT ![t] = c], io' = [io EXCEPT ![t] = l],
         c.status = "running" =>
           /\ Agrees(c, l, size'[c.obj], bytes'[c.obj])
           /\ \A u \in Running : u # t => Apart(c, call[u]) /\ Apart(call[u], c),
         \A u \in Running : u # t =>
           Agrees(call[u], io[u], size'[call[u].obj], bytes'[call[u].obj])
  PROVE  Agreement' /\ Exclusive'
  <1>1. /\ call'[t] = c /\ io'[t] = l
        /\ \A u \in Thread : u # t => call'[u] = call[u] /\ io'[u] = io[u]
    BY DEF FileInv, TypeInv, ThreadType
  <1>2. ASSUME NEW u \in Running'
        PROVE  /\ u \in Thread
               /\ u = t => c.status = "running"
               /\ u # t => u \in Running
    BY <1>1, Zenon DEF Running
  <1>3. ASSUME NEW u \in Running'
        PROVE  Agrees(call'[u], io'[u], size'[call'[u].obj], bytes'[call'[u].obj])
    <2>1. CASE u = t
      BY <1>1, <1>2, <2>1, Zenon
    <2>2. CASE u # t
      BY <1>1, <1>2, <2>2, Zenon
    <2> QED
      BY <2>1, <2>2
  <1>4. ASSUME NEW u \in Running', NEW v \in Running', u # v
        PROVE  Apart(call'[u], call'[v])
    <2>1. CASE u = t
      BY <1>1, <1>2, <1>4, <2>1, Zenon
    <2>2. CASE v = t
      BY <1>1, <1>2, <1>4, <2>2, Zenon
    <2>3. CASE u # t /\ v # t
      BY <1>1, <1>2, <1>4, <2>3, Zenon DEF FileInv, Exclusive
    <2> QED
      BY <2>1, <2>2, <2>3
  <1>5. Agreement'
    BY <1>3, Zenon DEF Agreement, Agrees, PageOf, At, Summary
  <1>6. Exclusive'
    BY <1>4, Zenon DEF Exclusive, Apart
  <1> QED
    BY <1>5, <1>6

\* A step of thread t that writes nothing.
LEMMA QuietStep ==
  ASSUME FileInv, NEW t \in Thread, NEW c, NEW l,
         call' = [call EXCEPT ![t] = c], io' = [io EXCEPT ![t] = l],
         UNCHANGED <<size, bytes>>,
         c.status = "running" =>
           /\ Agrees(c, l, size[c.obj], bytes[c.obj])
           /\ \A u \in Running : u # t => Apart(c, call[u]) /\ Apart(call[u], c)
  PROVE  Agreement' /\ Exclusive' /\ PastEnd'
  <1>1. c.status = "running" => Agrees(c, l, size'[c.obj], bytes'[c.obj])
    OBVIOUS
  <1>2. \A u \in Running : Agrees(call[u], io[u], size'[call[u].obj], bytes'[call[u].obj])
    BY DEF FileInv, Agreement
  <1>3. Agreement' /\ Exclusive'
    BY <1>1, <1>2, CallsStep, Zenon
  <1>4. PastEnd'
    BY DEF FileInv, PastEnd
  <1> QED
    BY <1>3, <1>4

\* A call that returns leaves the others as they were.
LEMMA ReturnStep ==
  ASSUME FileInv, NEW t \in Thread, NEW x \in Answer,
         call' = [call EXCEPT ![t] = x], io' = [io EXCEPT ![t] = Idle],
         UNCHANGED <<size, bytes>>
  PROVE  Agreement' /\ Exclusive' /\ PastEnd'
  <1>1. x.status # "running"
    BY DEF Answer
  <1> QED
    BY <1>1, QuietStep, Zenon

(***************************************************************************)
(* The calls and the file, action by action.                               *)
(***************************************************************************)

LEMMA BeginFile ==
  ASSUME FileInv, NEW t \in Thread, NEW o \in Object,
         \/ BeginAllocate(t, o)
         \/ \E p \in PageId : BeginRead(t, o, p)
         \/ \E p \in PageId, byte \in Byte : BeginWrite(t, o, p, byte)
  PROVE  Agreement' /\ Exclusive' /\ PastEnd'
  <1>1. ASSUME NEW op, NEW p, NEW byte, Begin(t, op, o, p, byte),
               \A u \in Running : /\ Apart(NewCall(op, o, p, byte), call[u])
                                  /\ Apart(call[u], NewCall(op, o, p, byte))
        PROVE  Agreement' /\ Exclusive' /\ PastEnd'
    <2> DEFINE c == NewCall(op, o, p, byte)
    <2>1. call' = [call EXCEPT ![t] = c] /\ UNCHANGED <<size, bytes, io>>
      BY <1>1 DEF Begin, NewCall, ioVars
    <2>2. io' = [io EXCEPT ![t] = io[t]]
      BY <2>1 DEF FileInv, TypeInv, ThreadType
    <2>3. c.step = "size"
      BY DEF NewCall
    <2> HIDE DEF c
    <2>4. Agrees(c, io[t], size[c.obj], bytes[c.obj])
      BY <2>3 DEF Agrees
    <2>5. \A u \in Running : Apart(c, call[u]) /\ Apart(call[u], c)
      BY <1>1, Zenon DEF c
    <2> QED
      BY <2>1, <2>2, <2>4, <2>5, QuietStep, Zenon
  <1>2. CASE BeginAllocate(t, o)
    <2>1. ASSUME NEW u \in Running
          PROVE  /\ Apart(NewCall("allocate", o, 0, Zero), call[u])
                 /\ Apart(call[u], NewCall("allocate", o, 0, Zero))
      BY <1>2 DEF BeginAllocate, NewCall, Apart
    <2>2. Begin(t, "allocate", o, 0, Zero)
      BY <1>2 DEF BeginAllocate
    <2> QED
      BY <1>1, <2>1, <2>2, Zenon
  <1>3. ASSUME NEW p \in PageId, BeginRead(t, o, p)
        PROVE  Agreement' /\ Exclusive' /\ PastEnd'
    <2>1. ASSUME NEW u \in Running
          PROVE  /\ Apart(NewCall("read", o, p, Zero), call[u])
                 /\ Apart(call[u], NewCall("read", o, p, Zero))
      BY <1>3 DEF BeginRead, On, NewCall, Apart
    <2>2. Begin(t, "read", o, p, Zero)
      BY <1>3 DEF BeginRead
    <2> QED
      BY <1>1, <2>1, <2>2, Zenon
  <1>4. ASSUME NEW p \in PageId, NEW byte \in Byte, BeginWrite(t, o, p, byte)
        PROVE  Agreement' /\ Exclusive' /\ PastEnd'
    <2>1. ASSUME NEW u \in Running
          PROVE  /\ Apart(NewCall("write", o, p, byte), call[u])
                 /\ Apart(call[u], NewCall("write", o, p, byte))
      BY <1>4 DEF BeginWrite, On, NewCall, Apart
    <2>2. Begin(t, "write", o, p, byte)
      BY <1>4 DEF BeginWrite
    <2> QED
      BY <1>1, <2>1, <2>2, Zenon
  <1> QED
    BY <1>2, <1>3, <1>4

\* The fields of a call that knows the size of the file.
LEMMA AfterSizeFields ==
  ASSUME NEW c \in CallState, NEW f
  PROVE  LET d == CallAfterSize(c, f) IN
         /\ d.status = "running" /\ d.op = c.op /\ d.obj = c.obj /\ d.byte = c.byte
         /\ c.op = "allocate" => d.step = "truncate" /\ d.page = PageCount(f)
         /\ c.op # "allocate" => d.step = "io" /\ d.page = c.page
         /\ c.op = "write" => d.was = OnFile(f, c.page)
  <1> DEFINE d == CallAfterSize(c, f)
  <1>1. CASE c.op = "read"
    <2>1. d = [c EXCEPT !.step = "io"]
      BY <1>1 DEF CallAfterSize, ReadCall
    <2> HIDE DEF d
    <2>2. /\ d.status = "running" /\ d.op = c.op /\ d.obj = c.obj /\ d.byte = c.byte
          /\ d.step = "io" /\ d.page = c.page
      BY <2>1 DEF CallState
    <2> QED
      BY <1>1, <2>2 DEF d
  <1>2. CASE c.op = "write"
    <2>1. d = [c EXCEPT !.step = "io", !.was = OnFile(f, c.page)]
      BY <1>2 DEF CallAfterSize, WriteCall
    <2> HIDE DEF d
    <2>2. /\ d.status = "running" /\ d.op = c.op /\ d.obj = c.obj /\ d.byte = c.byte
          /\ d.step = "io" /\ d.page = c.page /\ d.was = OnFile(f, c.page)
      BY <2>1 DEF CallState
    <2> QED
      BY <1>2, <2>2 DEF d
  <1>3. CASE c.op = "allocate"
    <2>1. d = [c EXCEPT !.step = "truncate", !.page = PageCount(f)]
      BY <1>3 DEF CallAfterSize, AllocateCall
    <2> HIDE DEF d
    <2>2. /\ d.status = "running" /\ d.op = c.op /\ d.obj = c.obj /\ d.byte = c.byte
          /\ d.step = "truncate" /\ d.page = PageCount(f)
      BY <2>1 DEF CallState
    <2> QED
      BY <1>3, <2>2 DEF d
  <1> QED
    BY <1>1, <1>2, <1>3 DEF CallState

\* What checking the size establishes: c goes on with page d.page of the file.
LEMMA AfterSizeAgrees ==
  ASSUME KernelType, NEW c \in CallState, Accepts(c.obj, c),
         c.op # "allocate" => c.page \in PageId
  PROVE  Agrees(CallAfterSize(c, c.obj), LoopAfterSize(c), size[c.obj], bytes[c.obj])
  <1> DEFINE d == CallAfterSize(c, c.obj)
             l == LoopAfterSize(c)
  <1>1. c.obj \in Object /\ size[c.obj] \in Nat
    BY DEF CallState, KernelType
  <1>2. /\ d.op = c.op
        /\ c.op = "allocate" => d.step = "truncate" /\ d.page = PageCount(c.obj)
        /\ c.op # "allocate" => d.step = "io" /\ d.page = c.page
        /\ c.op = "write" => d.was = OnFile(c.obj, c.page)
    BY AfterSizeFields
  <1>3. c.op # "allocate" => l.done = 0
    BY DEF LoopAfterSize, NewLoop, CallState
  <1> HIDE DEF d, l
  <1>4. CASE c.op = "allocate"
    <2>1. size[c.obj] = PageCount(c.obj) * PageSize
      BY <1>1, <1>4, PageWithin DEF Accepts, CanGrow
    <2>2. Agrees(d, l, size[c.obj], bytes[c.obj])
      BY <1>2, <1>4, <2>1 DEF Agrees
    <2> QED
      BY <2>2 DEF d, l
  <1>5. CASE c.op # "allocate"
    <2>1. c.page \in Nat /\ c.page < PageCount(c.obj)
      BY <1>5, PageIdBound DEF Accepts, HasPage
    <2>2. (c.page + 1) * PageSize <= size[c.obj]
      BY <1>1, <2>1, PageWithin
    <2>3. c.op = "write" => Summary(PageOf(bytes[c.obj], c.page)) = d.was
      BY <1>2, OnFileIs
    <2>4. \A i \in 1 .. l.done : FALSE
      BY <1>3, <1>5
    <2>5. Agrees(d, l, size[c.obj], bytes[c.obj])
      BY <1>2, <1>5, <2>2, <2>3, <2>4, Zenon DEF Agrees
    <2> QED
      BY <2>5 DEF d, l
  <1> QED
    BY <1>4, <1>5

LEMMA CheckSizeFile ==
  ASSUME FileInv, OwnFile, NEW t \in Thread, CheckSize(t)
  PROVE  Agreement' /\ Exclusive' /\ PastEnd'
  <1>1. /\ t \in Running /\ call[t] \in CallState
        /\ call[t].op # "allocate" => call[t].page \in PageId
        /\ UNCHANGED <<size, bytes>>
    BY CheckSizeStep DEF FileInv
  <1>2. PICK f \in Reached(call[t].obj) :
          /\ Accepts(f, call[t])
          /\ call' = [call EXCEPT ![t] = CallAfterSize(call[t], f)]
          /\ io' = [io EXCEPT ![t] = LoopAfterSize(call[t])]
    BY CheckSizeStep DEF FileInv
  <1>3. call[t].obj \in Object
    BY <1>1 DEF CallState
  <1>4. f = call[t].obj
    BY <1>3 DEF OwnFile
  <1> DEFINE c == call[t]
             d == CallAfterSize(c, c.obj)
  <1>5. call' = [call EXCEPT ![t] = d]
    BY <1>2, <1>4, Zenon
  <1>6. Agrees(d, LoopAfterSize(c), size[c.obj], bytes[c.obj])
    BY <1>1, <1>2, <1>4, AfterSizeAgrees, Zenon DEF FileInv, TypeInv
  <1>7. /\ d.op = c.op /\ d.obj = c.obj
        /\ c.op # "allocate" => d.page = c.page
    BY <1>1, AfterSizeFields
  <1> HIDE DEF d
  <1>8. ASSUME NEW u \in Running, u # t
        PROVE  Apart(d, call[u]) /\ Apart(call[u], d)
    <2>1. Apart(c, call[u]) /\ Apart(call[u], c)
      BY <1>1, <1>8 DEF FileInv, Exclusive
    <2> QED
      BY <1>7, <2>1, Zenon DEF Apart
  <1>9. Agrees(d, LoopAfterSize(c), size[d.obj], bytes[d.obj])
    BY <1>6, <1>7
  <1> QED
    BY <1>1, <1>2, <1>5, <1>8, <1>9, QuietStep, Zenon

LEMMA RefuseFile ==
  ASSUME FileInv, NEW t \in Thread, t \in Running, call[t].step \in {"size", "truncate"},
         Returns(t, Error(Untouched)), UNCHANGED ioVars
  PROVE  Agreement' /\ Exclusive' /\ PastEnd'
  <1>1. io[t] = Idle
    BY RunningCalls DEF FileInv, TypeInv, ThreadType, Fits
  <1>2. io' = [io EXCEPT ![t] = Idle] /\ UNCHANGED <<size, bytes>>
    BY <1>1 DEF ioVars, FileInv, TypeInv, ThreadType
  <1> QED
    BY <1>2, AnswerType, ReturnStep, Zenon DEF Returns

LEMMA FinishFile ==
  ASSUME FileInv, NEW t \in Thread, Finish(t)
  PROVE  Agreement' /\ Exclusive' /\ PastEnd'
  BY FinishStep, OutcomeType, ReturnStep DEF FileInv

\* The length of a loop and what it transferred are not changed by a failure.
LEMMA FailIOFile ==
  ASSUME FileInv, NEW t \in Thread, FailIO(t), UNCHANGED call
  PROVE  Agreement' /\ Exclusive' /\ PastEnd'
  <1> DEFINE c == call[t]
             l == FailedLoop(io[t])
  <1>1. /\ t \in Running /\ io[t] \in LoopState /\ io' = [io EXCEPT ![t] = l]
        /\ UNCHANGED <<size, bytes>>
    BY FailIOStep DEF FileInv
  <1>2. l.done = io[t].done /\ l.data = io[t].data
    BY <1>1 DEF FailedLoop, LoopState
  <1>3. call' = [call EXCEPT ![t] = c]
    BY DEF FileInv, TypeInv, ThreadType
  <1>4. Agrees(c, io[t], size[c.obj], bytes[c.obj])
    BY <1>1 DEF FileInv, Agreement
  <1> HIDE DEF l
  <1>5. Agrees(c, l, size[c.obj], bytes[c.obj])
    BY <1>2, <1>4, Zenon DEF Agrees
  <1>6. \A u \in Running : u # t => Apart(c, call[u]) /\ Apart(call[u], c)
    BY <1>1 DEF FileInv, Exclusive
  <1> QED
    BY <1>1, <1>3, <1>5, <1>6, QuietStep, Zenon

LEMMA ConcatAt ==
  ASSUME NEW x \in Seq(Byte), NEW y \in Seq(Byte), NEW i \in 1 .. Len(x) + Len(y)
  PROVE  (x \o y)[i] = IF i <= Len(x) THEN x[i] ELSE y[i - Len(x)]
  OBVIOUS

LEMMA ReadTurnFile ==
  ASSUME FileInv, OwnFile, NEW t \in Thread, ReadTurn(t), UNCHANGED call
  PROVE  Agreement' /\ Exclusive' /\ PastEnd'
  <1> DEFINE c == call[t]
             k == io[t]
             b == bytes[c.obj]
  <1>1. /\ t \in Running /\ c \in CallState /\ c.step = "io" /\ c.op = "read"
        /\ LoopOf(c, k) /\ k \in LoopState /\ UNCHANGED <<size, bytes>>
    BY ReadTurnStep, Zenon DEF FileInv
  <1>2. PICK f \in Reached(c.obj) : \E n \in 0 .. PageSize - k.done :
          /\ BytesRead(t, f, n) \in Seq(Byte) /\ Len(BytesRead(t, f, n)) = n
          /\ io' = [io EXCEPT ![t] = AdvancedLoop(k, n, k.data \o BytesRead(t, f, n))]
    BY ReadTurnStep DEF FileInv
  <1>3. f = c.obj
    BY <1>1 DEF OwnFile, CallState
  <1>4. PICK n \in 0 .. PageSize - k.done :
          /\ BytesRead(t, c.obj, n) \in Seq(Byte) /\ Len(BytesRead(t, c.obj, n)) = n
          /\ io' = [io EXCEPT ![t] = AdvancedLoop(k, n, k.data \o BytesRead(t, c.obj, n))]
    BY <1>2, <1>3, Zenon
  <1> DEFINE s == BytesRead(t, c.obj, n)
             l == AdvancedLoop(k, n, k.data \o s)
  <1>5. /\ k.data \in Seq(Byte) /\ k.done \in 0 .. PageSize /\ Len(k.data) = k.done
        /\ n \in Nat /\ k.off = c.page * PageSize /\ c.page * PageSize \in Nat
    BY <1>1, PageIdBound DEF LoopOf, LoopState
  <1>6. l.done = k.done + n /\ l.data = k.data \o s
    <2>1. k.data \o s \in Seq(Byte)
      BY <1>4, <1>5
    <2>2. Advance(l, k, n, k.data \o s)
      BY <1>1, <1>5, <2>1, AdvancedFields, Zenon
    <2> QED
      BY <2>2, Zenon DEF Advance
  <1>7. Agrees(c, k, size[c.obj], b)
    BY <1>1 DEF FileInv, Agreement
  <1>8. ASSUME NEW i \in 1 .. k.done + n
        PROVE  (k.data \o s)[i] = b[At(c.page, i)]
    <2>1. s \in Seq(Byte) /\ Len(s) = n
      BY <1>4
    <2>2. (k.data \o s)[i] = IF i <= k.done THEN k.data[i] ELSE s[i - k.done]
      <3> DEFINE x == k.data
      <3>1. x \in Seq(Byte) /\ Len(x) = k.done
        BY <1>5
      <3> HIDE DEF x, k, s
      <3>2. i \in 1 .. Len(x) + Len(s)
        BY <2>1, <3>1
      <3>3. (x \o s)[i] = IF i <= Len(x) THEN x[i] ELSE s[i - Len(x)]
        BY <2>1, <3>1, <3>2, ConcatAt, Zenon
      <3> QED
        BY <3>1, <3>3, Zenon DEF x
    <2>3. CASE i <= k.done
      <3>1. i \in 1 .. k.done
        BY <1>5, <2>3
      <3> QED
        BY <1>1, <1>7, <2>2, <2>3, <3>1, Zenon DEF Agrees
    <2>4. CASE ~(i <= k.done)
      <3>1. i - k.done \in 1 .. n
        BY <1>5, <2>4
      <3>2. s[i - k.done] = b[NextOffset(t) + (i - k.done) - 1]
        BY <3>1 DEF BytesRead
      <3>3. NextOffset(t) + (i - k.done) - 1 = At(c.page, i)
        <4> DEFINE base == c.page * PageSize
                   done == k.done
        <4>1. NextOffset(t) = base + done /\ At(c.page, i) = base + i - 1
          BY <1>5 DEF NextOffset, At
        <4>2. base \in Int /\ done \in Int /\ i \in Int
          BY <1>5
        <4> HIDE DEF base, done
        <4>3. base + done + (i - done) - 1 = base + i - 1
          BY <4>2
        <4> QED
          BY <4>1, <4>3, Zenon DEF done
      <3> QED
        BY <2>2, <2>4, <3>2, <3>3
    <2> QED
      BY <2>3, <2>4, Zenon
  <1>9. call' = [call EXCEPT ![t] = c] /\ io' = [io EXCEPT ![t] = l]
    BY <1>4, Zenon DEF FileInv, TypeInv, ThreadType
  <1> HIDE DEF l
  <1>10. Agrees(c, l, size[c.obj], b)
    <2>1. \A i \in 1 .. l.done : l.data[i] = b[At(c.page, i)]
      BY <1>6, <1>8, Zenon
    <2> QED
      BY <1>1, <1>7, <2>1 DEF Agrees
  <1>11. \A u \in Running : u # t => Apart(c, call[u]) /\ Apart(call[u], c)
    BY <1>1 DEF FileInv, Exclusive
  <1> QED
    BY <1>1, <1>9, <1>10, <1>11, QuietStep, Zenon

\* The n bytes after the first d bytes of page p are written: the others stay.
WritesInPage(old, new, p, d, n, byte) ==
  /\ \A i \in 1 .. d + n :
       new[At(p, i)] = IF i <= d THEN old[At(p, i)] ELSE byte
  /\ \A q \in PageId : q # p =>
       \A i \in 1 .. PageSize : new[At(q, i)] = old[At(q, i)]
  /\ \A j \in Offset : j >= (p + 1) * PageSize => new[j] = old[j]

LEMMA StoredInPage ==
  ASSUME NEW p \in PageId, NEW d \in 0 .. PageSize, NEW n \in 1 .. PageSize - d,
         NEW from, from = p * PageSize + d, NEW old \in [Offset -> Byte], NEW byte \in Byte
  PROVE  WritesInPage(old, Stored(old, from, n, byte), p, d, n, byte)
  <1> DEFINE new == Stored(old, from, n, byte)
             base == p * PageSize
  <1>1. /\ base \in Nat /\ (p + 1) * PageSize = base + PageSize /\ from = base + d
        /\ n \in Nat /\ from \in Nat /\ n <= PageSize - d
    BY PageIdBound
  <1>2. ASSUME NEW j \in Offset
        PROVE  new[j] = IF j \in from .. from + n - 1 THEN byte ELSE old[j]
    BY DEF Stored
  <1> HIDE DEF new, base
  <1>3. ASSUME NEW i \in 1 .. d + n
        PROVE  new[At(p, i)] = IF i <= d THEN old[At(p, i)] ELSE byte
    <2>1. i \in 1 .. PageSize
      BY <1>1
    <2>2. At(p, i) \in Offset /\ At(p, i) = base + i - 1
      BY <2>1, OffsetOfByte DEF At, base
    <2>3. At(p, i) \in from .. from + n - 1 <=> ~(i <= d)
      BY <1>1, <2>1, <2>2
    <2> QED
      BY <1>2, <2>2, <2>3, Zenon
  <1>4. ASSUME NEW q \in PageId, q # p, NEW i \in 1 .. PageSize
        PROVE  new[At(q, i)] = old[At(q, i)]
    <2>1. At(q, i) \in Offset /\ At(q, i) \in Int
      BY OffsetOfByte DEF Offset
    <2>2. At(q, i) \notin from .. from + n - 1
      <3> SUFFICES ASSUME At(q, i) \in from .. from + n - 1
                   PROVE  FALSE
        OBVIOUS
      <3> DEFINE j == At(q, i) - base + 1
      <3>1. j \in 1 .. PageSize
        BY <1>1, <2>1
      <3>2. At(q, i) = base + j - 1
        BY <1>1, <2>1
      <3> HIDE DEF j
      <3>3. At(q, i) = At(p, j)
        BY <3>2 DEF At, base
      <3> QED
        <4>1. p \in Nat /\ q \in Nat
          BY PageIdBound
        <4> QED
          BY <1>4, <3>1, <3>3, <4>1, PagesApart, Zenon
    <2> QED
      BY <1>2, <2>1, <2>2
  <1>5. ASSUME NEW j \in Offset, j >= (p + 1) * PageSize
        PROVE  new[j] = old[j]
    <2>1. j \notin from .. from + n - 1
      <3>1. j \in Int /\ j >= base + PageSize
        BY <1>1, <1>5 DEF Offset
      <3> QED
        BY <1>1, <3>1
    <2> QED
      BY <1>2, <2>1
  <1>6. WritesInPage(old, new, p, d, n, byte)
    BY <1>3, <1>4, <1>5, Zenon DEF WritesInPage
  <1> QED
    BY <1>6 DEF new

\* Page q of file o has the bytes it had.
SamePage(o, q) == \A i \in 1 .. PageSize : bytes'[o][At(q, i)] = bytes[o][At(q, i)]

\* A write that transfers bytes changes its own page and no other, and no size.
LEMMA WriteTurnEffect ==
  ASSUME FileInv, OwnFile, NEW t \in Thread, WriteTurn(t)
  PROVE  /\ UNCHANGED size /\ PastEnd'
         /\ \A o \in Object, q \in PageId :
              ~(o = call[t].obj /\ q = call[t].page) => SamePage(o, q)
         /\ \E n \in 1 .. PageSize - io[t].done :
              /\ io' = [io EXCEPT ![t] = AdvancedLoop(io[t], n, io[t].data)]
              /\ \A i \in 1 .. io[t].done + n :
                   bytes'[call[t].obj][At(call[t].page, i)] = call[t].byte
  <1> DEFINE c == call[t]
             k == io[t]
             b == bytes[c.obj]
             from == NextOffset(t)
  <1>1. /\ t \in Running /\ c \in CallState /\ c.step = "io" /\ c.op = "write"
        /\ LoopOf(c, k) /\ k \in LoopState
    BY WriteTurnStep DEF FileInv
  <1>2. PICK f \in Reached(c.obj) : \E n \in 1 .. PageSize - k.done :
          /\ from + n <= MaxOffset
          /\ bytes' = [bytes EXCEPT ![f] = Stored(bytes[f], from, n, c.byte)]
          /\ size' = [size EXCEPT ![f] = Max({size[f], from + n})]
          /\ io' = [io EXCEPT ![t] = AdvancedLoop(k, n, k.data)]
    BY WriteTurnStep, Zenon DEF FileInv
  <1>3. f = c.obj /\ c.obj \in Object
    BY <1>1 DEF OwnFile, CallState
  <1>4. PICK n \in 1 .. PageSize - k.done :
          /\ bytes' = [bytes EXCEPT ![c.obj] = Stored(b, from, n, c.byte)]
          /\ size' = [size EXCEPT ![c.obj] = Max({size[c.obj], from + n})]
          /\ io' = [io EXCEPT ![t] = AdvancedLoop(k, n, k.data)]
    BY <1>2, <1>3, Zenon
  <1>5. /\ c.page \in PageId /\ k.done \in 0 .. PageSize /\ c.byte \in Byte
        /\ b \in [Offset -> Byte] /\ size[c.obj] \in Nat
    BY <1>1, <1>3 DEF LoopOf, CallState, FileInv, TypeInv, KernelType
  <1>6. from = c.page * PageSize + k.done
    BY <1>1, Zenon DEF NextOffset, LoopOf
  <1>7. Agrees(c, k, size[c.obj], b)
    BY <1>1 DEF FileInv, Agreement
  <1> DEFINE new == Stored(b, from, n, c.byte)
  <1>8. /\ \A i \in 1 .. k.done + n :
             new[At(c.page, i)] = IF i <= k.done THEN b[At(c.page, i)] ELSE c.byte
        /\ \A q \in PageId : q # c.page =>
             \A i \in 1 .. PageSize : new[At(q, i)] = b[At(q, i)]
        /\ \A j \in Offset : j >= (c.page + 1) * PageSize => new[j] = b[j]
    <2>1. WritesInPage(b, new, c.page, k.done, n, c.byte)
      BY <1>5, <1>6, StoredInPage, Zenon
    <2> HIDE DEF new
    <2> QED
      BY <2>1, Zenon DEF WritesInPage
  <1>9. /\ bytes'[c.obj] = new
        /\ \A o \in Object : o # c.obj => bytes'[o] = bytes[o]
    BY <1>3, <1>4, Zenon DEF FileInv, TypeInv, KernelType
  <1> HIDE DEF new
  <1>10. UNCHANGED size
    <2> DEFINE base == c.page * PageSize
    <2>1. base \in Nat /\ (c.page + 1) * PageSize = base + PageSize
      BY <1>5, PageIdBound, Zenon
    <2>2. base + PageSize <= size[c.obj]
      BY <1>1, <1>7, <2>1, Zenon DEF Agrees
    <2>3. from = base + k.done
      BY <1>6
    <2> DEFINE x == size[c.obj]
               y == from + n
    <2>4. x \in Int /\ y \in Int /\ y <= x
      <3> HIDE DEF base
      <3> QED
        BY <1>5, <2>1, <2>2, <2>3
    <2>5. Max({x, y}) = x
      <3> HIDE DEF x, y
      <3>1. Max({x, y}) \in {x, y} /\ Max({x, y}) >= x
        BY <2>4, MaxOfTwo, Zenon
      <3> QED
        BY <2>4, <3>1
    <2> QED
      BY <1>3, <1>4, <2>5, Zenon DEF FileInv, TypeInv, KernelType
  <1>11. PastEnd'
    <2>1. ASSUME NEW o \in Object, NEW j \in Offset, j >= size[o]
          PROVE  bytes'[o][j] = Zero
      <3>1. bytes[o][j] = Zero
        BY <2>1 DEF FileInv, PastEnd
      <3>2. CASE o = c.obj
        <4>1. (c.page + 1) * PageSize <= size[c.obj]
          BY <1>1, <1>7 DEF Agrees
        <4>2. (c.page + 1) * PageSize \in Nat
          BY <1>5, PageIdBound
        <4>3. j >= (c.page + 1) * PageSize
          BY <1>5, <2>1, <3>2, <4>1, <4>2 DEF Offset
        <4> QED
          BY <1>8, <1>9, <3>1, <3>2, <4>3, Zenon
      <3>3. CASE o # c.obj
        BY <1>9, <3>1, <3>3
      <3> QED
        BY <3>2, <3>3
    <2> QED
      BY <1>10, <2>1 DEF PastEnd
  <1>12. ASSUME NEW o \in Object, NEW q \in PageId, ~(o = c.obj /\ q = c.page)
         PROVE  SamePage(o, q)
    BY <1>8, <1>9, <1>12, Zenon DEF SamePage
  <1>13. ASSUME NEW i \in 1 .. k.done + n
         PROVE  bytes'[c.obj][At(c.page, i)] = c.byte
    <2>1. CASE i <= k.done
      <3>1. i \in 1 .. k.done
        BY <1>5, <2>1
      <3> QED
        BY <1>1, <1>7, <1>8, <1>9, <2>1, <3>1, Zenon DEF Agrees
    <2>2. CASE ~(i <= k.done)
      BY <1>8, <1>9, <2>2, Zenon
    <2> QED
      BY <2>1, <2>2
  <1> QED
    BY <1>4, <1>10, <1>11, <1>12, <1>13, Zenon

LEMMA WriteTurnFile ==
  ASSUME FileInv, OwnFile, NEW t \in Thread, WriteTurn(t), UNCHANGED call
  PROVE  Agreement' /\ Exclusive' /\ PastEnd'
  <1> DEFINE c == call[t]
             k == io[t]
  <1>1. /\ t \in Running /\ c \in CallState /\ c.step = "io" /\ c.op = "write"
        /\ LoopOf(c, k) /\ k \in LoopState
    BY WriteTurnStep, Zenon DEF FileInv
  <1>2. /\ UNCHANGED size /\ PastEnd'
        /\ \A o \in Object, q \in PageId : ~(o = c.obj /\ q = c.page) => SamePage(o, q)
    BY WriteTurnEffect, Zenon
  <1>3. PICK n \in 1 .. PageSize - k.done :
          /\ io' = [io EXCEPT ![t] = AdvancedLoop(k, n, k.data)]
          /\ \A i \in 1 .. k.done + n : bytes'[c.obj][At(c.page, i)] = c.byte
    BY WriteTurnEffect, Zenon
  <1> DEFINE l == AdvancedLoop(k, n, k.data)
  <1>4. l.done = k.done + n /\ l.done # 0
    <2>1. k.data \in Seq(Byte) /\ n \in Nat \ {0} /\ k.done \in Nat
      BY <1>1 DEF LoopOf, LoopState
    <2>2. Advance(l, k, n, k.data)
      BY <1>1, <2>1, AdvancedFields, Zenon
    <2> QED
      BY <2>1, <2>2 DEF Advance
  <1>5. Agrees(c, k, size[c.obj], bytes[c.obj])
    BY <1>1 DEF FileInv, Agreement
  <1>6. call' = [call EXCEPT ![t] = c] /\ io' = [io EXCEPT ![t] = l]
    BY <1>3, Zenon DEF FileInv, TypeInv, ThreadType
  <1> HIDE DEF l
  <1>7. Agrees(c, l, size'[c.obj], bytes'[c.obj])
    <2>1. \A i \in 1 .. l.done : bytes'[c.obj][At(c.page, i)] = c.byte
      BY <1>3, <1>4, Zenon
    <2> QED
      BY <1>1, <1>2, <1>4, <1>5, <2>1, Zenon DEF Agrees
  <1>8. \A u \in Running : u # t => Apart(c, call[u]) /\ Apart(call[u], c)
    BY <1>1, Zenon DEF FileInv, Exclusive
  <1>9. ASSUME NEW u \in Running, u # t
        PROVE  Agrees(call[u], io[u], size'[call[u].obj], bytes'[call[u].obj])
    <2> DEFINE d == call[u]
    <2>1. u \in Thread /\ d \in CallState /\ d.obj \in Object
      BY RunningCalls, Zenon DEF FileInv, TypeInv, CallState
    <2>2. Agrees(d, io[u], size[d.obj], bytes[d.obj])
      BY Zenon DEF FileInv, Agreement
    <2>3. CASE d.step = "io"
      <3>1. LoopOf(d, io[u])
        BY <2>1, <2>3, Zenon DEF FileInv, TypeInv, ThreadType, Fits
      <3>2. ~(d.obj = c.obj /\ d.page = c.page)
        BY <1>1, <1>8, <1>9, <3>1, Zenon DEF Apart, LoopOf
      <3>3. SamePage(d.obj, d.page)
        BY <1>2, <2>1, <3>1, <3>2, Zenon DEF LoopOf
      <3>4. io[u].done \in 0 .. PageSize
        BY <3>1, Zenon DEF LoopOf
      <3>5. (d.page + 1) * PageSize <= size'[d.obj]
        BY <1>2, <2>2, <2>3, Zenon DEF Agrees
      <3>6. \A i \in 1 .. PageSize : bytes'[d.obj][At(d.page, i)] = bytes[d.obj][At(d.page, i)]
        BY <3>3, ZenonT(30) DEF SamePage
      <3> HIDE DEF d
      <3> QED
        BY <2>2, <2>3, <3>4, <3>5, <3>6, AgreesStill, Zenon DEF d
    <2>4. CASE d.step # "io"
      BY <1>2, <2>2, <2>4 DEF Agrees
    <2> QED
      BY <2>3, <2>4
  <1>10. Agreement' /\ Exclusive'
    BY <1>6, <1>7, <1>8, <1>9, CallsStep, Zenon
  <1> QED
    BY <1>2, <1>10, Zenon

\* An allocation adds the page after the last, and no byte is changed: those
\* past the end were zero.
LEMMA AllocateEffect ==
  ASSUME FileInv, OwnFile, NEW t \in Thread, Allocate(t)
  PROVE  /\ size[call[t].obj] = call[t].page * PageSize
         /\ size' = [size EXCEPT ![call[t].obj] = (call[t].page + 1) * PageSize]
         /\ UNCHANGED bytes
  <1> DEFINE c == call[t]
             n == (c.page + 1) * PageSize
  <1>1. /\ t \in Running /\ c \in CallState /\ c.step = "truncate" /\ c.page \in PageId
        /\ n \in 0 .. MaxOffset
    BY AllocateStep, Zenon DEF FileInv
  <1>2. c.obj \in Object
    BY <1>1 DEF CallState
  <1>3. Truncate(c.obj, n)
    BY <1>2, AllocateStep, ZenonT(30) DEF OwnFile, FileInv
  <1>4. size[c.obj] = c.page * PageSize
    BY <1>1, Zenon DEF FileInv, Agreement, Agrees
  <1>5. size[c.obj] \in Nat /\ n \in Nat /\ size[c.obj] <= n
    BY <1>1, <1>4, PageIdBound
  <1> HIDE DEF n
  <1>6. ASSUME NEW j \in Offset
        PROVE  (IF j < n THEN bytes[c.obj][j] ELSE Zero) = bytes[c.obj][j]
    BY <1>2, <1>5 DEF FileInv, PastEnd, Offset
  <1>7. bytes[c.obj] = [j \in Offset |-> bytes[c.obj][j]]
    BY <1>2 DEF FileInv, TypeInv, KernelType
  <1>8. [j \in Offset |-> IF j < n THEN bytes[c.obj][j] ELSE Zero] = bytes[c.obj]
    BY <1>6, <1>7, Zenon
  <1>9. bytes' = [bytes EXCEPT ![c.obj] = bytes[c.obj]]
    BY <1>3, <1>8, Zenon DEF Truncate
  <1>10. bytes' = bytes
    BY <1>9 DEF FileInv, TypeInv, KernelType
  <1> QED
    BY <1>3, <1>4, <1>10, Zenon DEF Truncate, n

LEMMA AllocateFile ==
  ASSUME FileInv, OwnFile, NEW t \in Thread, Allocate(t)
  PROVE  Agreement' /\ Exclusive' /\ PastEnd'
  <1> DEFINE c == call[t]
             n == (c.page + 1) * PageSize
  <1>1. /\ t \in Running /\ c \in CallState /\ c.step = "truncate" /\ c.op = "allocate"
        /\ c.page \in PageId /\ io[t] = Idle /\ UNCHANGED io
        /\ call' = [call EXCEPT ![t] = Ok(c.page)]
    BY AllocateStep DEF FileInv
  <1>2. /\ size[c.obj] = c.page * PageSize
        /\ size' = [size EXCEPT ![c.obj] = n]
        /\ UNCHANGED bytes
    BY AllocateEffect
  <1>3. io' = [io EXCEPT ![t] = Idle]
    BY <1>1 DEF FileInv, TypeInv, ThreadType
  <1>4. size[c.obj] \in Nat /\ n \in Nat /\ size[c.obj] <= n
    BY <1>1, <1>2, PageIdBound
  <1> HIDE DEF n
  <1>5. /\ c.obj \in Object /\ size'[c.obj] = n
        /\ \A o \in Object : o # c.obj => size'[o] = size[o]
    BY <1>1, <1>2 DEF CallState, FileInv, TypeInv, KernelType
  <1>6. PastEnd'
    <2>1. ASSUME NEW o \in Object, NEW j \in Offset, j >= size'[o]
          PROVE  bytes[o][j] = Zero
      <3>1. j >= size[o]
        BY <1>4, <1>5, <2>1 DEF Offset
      <3> QED
        BY <3>1 DEF FileInv, PastEnd
    <2> QED
      BY <1>2, <2>1 DEF PastEnd
  <1>7. ASSUME NEW u \in Running, u # t
        PROVE  Agrees(call[u], io[u], size'[call[u].obj], bytes'[call[u].obj])
    <2> DEFINE d == call[u]
    <2>1. u \in Thread /\ d \in CallState /\ d.obj \in Object
      BY RunningCalls DEF FileInv, TypeInv, CallState
    <2>2. Agrees(d, io[u], size[d.obj], bytes[d.obj])
      BY Zenon DEF FileInv, Agreement
    <2>3. CASE d.obj # c.obj
      BY <1>2, <1>5, <2>1, <2>2, <2>3, Zenon
    <2>4. CASE d.obj = c.obj /\ d.step = "io"
      <3>1. LoopOf(d, io[u])
        BY <2>1, <2>4, Zenon DEF FileInv, TypeInv, ThreadType, Fits
      <3>2. (d.page + 1) * PageSize <= size[d.obj] /\ (d.page + 1) * PageSize \in Nat
        <4>1. d.page \in PageId
          BY <3>1, Zenon DEF LoopOf
        <4>2. (d.page + 1) * PageSize <= size[d.obj]
          BY <2>2, <2>4, Zenon DEF Agrees
        <4>3. (d.page + 1) * PageSize \in Nat
          BY <4>1, PageEndIsNat, Zenon
        <4> QED
          BY <4>2, <4>3, Zenon
      <3>3. (d.page + 1) * PageSize <= size'[d.obj]
        BY <1>4, <1>5, <2>4, <3>2
      <3>4. io[u].done \in 0 .. PageSize
        BY <3>1, Zenon DEF LoopOf
      <3> HIDE DEF d
      <3> QED
        BY <1>2, <2>2, <2>4, <3>3, <3>4, AgreesStill, Zenon DEF d
    <2>5. CASE d.obj = c.obj /\ d.step = "truncate"
      <3>1. d.op = "allocate"
        BY <2>1, <2>5 DEF FileInv, TypeInv, ThreadType, Fits
      <3>2. Apart(d, c)
        BY <1>1, <1>7, Zenon DEF FileInv, Exclusive
      <3> QED
        BY <1>1, <2>5, <3>1, <3>2 DEF Apart
    <2>6. CASE d.step = "size"
      BY <2>6 DEF Agrees
    <2> QED
      BY <2>1, <2>3, <2>4, <2>5, <2>6, Zenon DEF CallState
  <1>8. Ok(c.page).status # "running"
    BY DEF Ok
  <1>9. Agreement' /\ Exclusive'
    BY <1>1, <1>3, <1>7, <1>8, CallsStep, Zenon
  <1> QED
    BY <1>6, <1>9

(***************************************************************************)
(* The file invariant is inductive while backends reach their own files.   *)
(***************************************************************************)

LEMMA FileInitially == Init => FileInv
  <1> SUFFICES ASSUME Init PROVE FileInv
    OBVIOUS
  <1>1. TypeInv
    BY TypesInitially
  <1>2. Running = {}
    BY DEF Init, Running, Ok
  <1>3. PastEnd
    BY DEF Init, IOInit, PastEnd
  <1> QED
    BY <1>1, <1>2, <1>3 DEF FileInv, Agreement, Exclusive

LEMMA FileStep == FileInv /\ OwnFile /\ [Next]_vars => FileInv'
  <1> SUFFICES ASSUME FileInv, OwnFile, [Next]_vars
               PROVE  FileInv'
    BY Zenon
  <1> DEFINE Goal == Agreement' /\ Exclusive' /\ PastEnd'
  <1>1. ASSUME UNCHANGED <<call, io, size, bytes>>
        PROVE  Goal
    BY <1>1 DEF FileInv, Agreement, Exclusive, PastEnd, Running
  <1>2. ASSUME NEW o \in Object, OpenBackend(o) \/ CloseBackend(o) \/ DestroyBackend(o)
        PROVE  Goal
    BY <1>1, <1>2 DEF OpenBackend, CloseBackend, DestroyBackend, Open, Close, Destroy
  <1>3. ASSUME NEW t \in Thread, CheckSize(t)
        PROVE  Goal
    BY <1>3, CheckSizeFile
  <1>4. ASSUME NEW t \in Thread, Refuse(t)
        PROVE  Goal
    BY <1>4, RefuseFile DEF Refuse
  <1>5. ASSUME NEW t \in Thread, Allocate(t)
        PROVE  Goal
    BY <1>5, AllocateFile
  <1>6. ASSUME NEW t \in Thread, Transfer(t)
        PROVE  Goal
    BY <1>6, ReadTurnFile, WriteTurnFile DEF Transfer
  <1>7. ASSUME NEW t \in Thread, Finish(t)
        PROVE  Goal
    BY <1>7, FinishFile
  <1>8. ASSUME NEW t \in Thread, KernelFails(t)
        PROVE  Goal
    BY <1>8, RefuseFile, FailIOFile DEF KernelFails
  <1>9. ASSUME NEW t \in Thread, NEW o \in Object,
               \/ BeginAllocate(t, o)
               \/ \E p \in PageId : BeginRead(t, o, p)
               \/ \E p \in PageId, byte \in Byte : BeginWrite(t, o, p, byte)
        PROVE  Goal
    BY <1>9, BeginFile
  <1>10. ASSUME UNCHANGED vars
         PROVE  Goal
    BY <1>1, <1>10 DEF vars, ioVars
  <1> HIDE DEF Goal
  <1>11. Goal
    BY <1>2, <1>3, <1>4, <1>5, <1>6, <1>7, <1>8, <1>9, <1>10 DEF Next, Proceed
  <1>12. TypeInv'
    BY TypesStep DEF FileInv
  <1> QED
    BY <1>11, <1>12 DEF FileInv, Goal

(***************************************************************************)
(* PageStore implements PageFile.  The state that PageFile sees:           *)
(***************************************************************************)
Counts == [o \in Object |-> PageCount(o)]
Answers == [t \in Thread |-> IF t \in Running THEN Pending ELSE call[t]]
Disk == [o \in Object |-> [p \in PageId |-> Promised(o, p)]]

Writing(c, o, p) ==
  /\ c.status = "running" /\ c.obj = o /\ c.page = p
  /\ c.op = "write" /\ c.step = "io"

\* A page nobody is writing is seen as it is on file, and one that is being
\* written as it was.
Views ==
  \A o \in Object, p \in PageId :
    /\ (\A t \in Thread : ~Writing(call[t], o, p)) => Disk[o][p] = OnFile(o, p)
    /\ \A t \in Thread : Writing(call[t], o, p) => Disk[o][p] = call[t].was

LEMMA ViewsOfPages == Exclusive => Views
  <1> SUFFICES ASSUME Exclusive, NEW o \in Object, NEW p \in PageId
               PROVE  /\ (\A t \in Thread : ~Writing(call[t], o, p)) =>
                            Disk[o][p] = OnFile(o, p)
                      /\ \A t \in Thread : Writing(call[t], o, p) =>
                            Disk[o][p] = call[t].was
    BY DEF Views
  <1> DEFINE W == {t \in Running : /\ call[t].obj = o /\ call[t].page = p
                                   /\ call[t].op = "write" /\ call[t].step = "io"}
  <1>1. Disk[o][p] = IF W = {} THEN OnFile(o, p)
                     ELSE CHOOSE was \in {call[t].was : t \in W} : TRUE
    BY Zenon DEF Disk, Promised
  <1>2. W = {t \in Thread : Writing(call[t], o, p)}
    BY DEF Running, Writing
  <1>3. ASSUME NEW t \in W, NEW u \in W
        PROVE  t = u
    BY DEF Exclusive, Apart
  <1> HIDE DEF W
  <1>4. ASSUME \A t \in Thread : ~Writing(call[t], o, p)
        PROVE  Disk[o][p] = OnFile(o, p)
    BY <1>1, <1>2, <1>4
  <1>5. ASSUME NEW t \in Thread, Writing(call[t], o, p)
        PROVE  Disk[o][p] = call[t].was
    <2>1. W = {t}
      BY <1>2, <1>3, <1>5
    <2>2. {call[u].was : u \in W} = {call[t].was}
      BY <2>1, Zenon
    <2>3. (CHOOSE was \in {call[t].was} : TRUE) = call[t].was
      OBVIOUS
    <2> QED
      BY <1>1, <2>1, <2>2, <2>3, Zenon
  <1> QED
    BY <1>4, <1>5

LEMMA ViewsOfPagesAfter == Exclusive' => Views'
  BY ViewsOfPages, PTL

\* The callers' view of a page is kept by a step that changes neither who is
\* writing it nor, if nobody is, its bytes.
LEMMA ViewKept ==
  ASSUME Exclusive, Exclusive', NEW o \in Object, NEW p \in PageId,
         \A u \in Thread : Writing(call[u], o, p) =>
           Writing(call'[u], o, p) /\ call'[u].was = call[u].was,
         (\A u \in Thread : ~Writing(call[u], o, p)) =>
           (\A u \in Thread : ~Writing(call'[u], o, p)) /\ SamePage(o, p)
  PROVE  Disk'[o][p] = Disk[o][p]
  <1>1. CASE \A u \in Thread : ~Writing(call[u], o, p)
    <2>1. Disk[o][p] = OnFile(o, p)
      BY <1>1, ViewsOfPages, Zenon DEF Views
    <2>2. \A u \in Thread : ~Writing(call'[u], o, p)
      BY <1>1
    <2>3. Disk'[o][p] = OnFile(o, p)'
      BY <2>2, ViewsOfPagesAfter, Zenon DEF Views, Writing
    <2>4. PageOf(bytes'[o], p) = PageOf(bytes[o], p)
      BY <1>1, Zenon DEF PageOf, SamePage
    <2>5. OnFile(o, p)' = OnFile(o, p)
      BY <2>4, Zenon DEF OnFile, PageOf, At
    <2> QED
      BY <2>1, <2>3, <2>5, Zenon
  <1>2. ASSUME NEW u \in Thread, Writing(call[u], o, p)
        PROVE  Disk'[o][p] = Disk[o][p]
    <2>1. Disk[o][p] = call[u].was
      BY <1>2, ViewsOfPages, Zenon DEF Views
    <2>2. Writing(call'[u], o, p) /\ call'[u].was = call[u].was
      BY <1>2
    <2>3. Disk'[o][p] = call'[u].was
      BY <2>2, ViewsOfPagesAfter, Zenon DEF Views, Writing
    <2> QED
      BY <2>1, <2>2, <2>3, Zenon
  <1> QED
    BY <1>1, <1>2, Zenon

LEMMA AnswersBegin ==
  ASSUME ThreadType, NEW t \in Thread, t \notin Running, NEW c, c.status = "running",
         call' = [call EXCEPT ![t] = c]
  PROVE  Answers[t] # Pending /\ Answers' = [Answers EXCEPT ![t] = Pending]
  <1>1. call[t] \in Answer
    BY RunningCalls
  <1>2. Answers[t] # Pending
    BY <1>1, PendingAssumption DEF Answers
  <1>3. Running' = Running \cup {t}
    BY DEF Running, ThreadType
  <1>4. Answers' = [u \in Thread |-> IF u \in Running \cup {t} THEN Pending ELSE call'[u]]
    BY <1>3 DEF Answers
  <1>5. Answers' = [Answers EXCEPT ![t] = Pending]
    BY <1>4, Zenon DEF Answers, ThreadType
  <1> QED
    BY <1>2, <1>5

LEMMA AnswersReturn ==
  ASSUME ThreadType, NEW t \in Running, NEW x \in Answer, call' = [call EXCEPT ![t] = x]
  PROVE  /\ Answers[t] = Pending /\ Answers' = [Answers EXCEPT ![t] = x]
         /\ Running' = Running \ {t}
  <1>1. t \in Thread
    BY DEF Running
  <1>2. Answers[t] = Pending
    BY <1>1 DEF Answers
  <1>3. Running' = Running \ {t}
    BY <1>1 DEF Running, ThreadType, Answer
  <1>4. Answers' = [u \in Thread |-> IF u \in Running \ {t} THEN Pending ELSE call'[u]]
    BY <1>3 DEF Answers
  <1>5. Answers' = [Answers EXCEPT ![t] = x]
    BY <1>1, <1>4, Zenon DEF Answers, ThreadType
  <1> QED
    BY <1>2, <1>3, <1>5

LEMMA AnswersStay ==
  ASSUME ThreadType, NEW t \in Running, NEW c, c.status = "running",
         call' = [call EXCEPT ![t] = c]
  PROVE  Answers' = Answers /\ Running' = Running
  <1>1. t \in Thread
    BY DEF Running
  <1>2. Running' = Running
    BY <1>1 DEF Running, ThreadType
  <1>3. \A u \in Thread : u \notin Running => call'[u] = call[u]
    BY <1>1 DEF ThreadType
  <1>4. Answers' = [u \in Thread |-> IF u \in Running THEN Pending ELSE call'[u]]
    BY <1>2 DEF Answers
  <1>5. Answers' = Answers
    BY <1>3, <1>4, Zenon DEF Answers
  <1> QED
    BY <1>2, <1>5

\* So it is by a step of a thread that is not writing the page before or after.
LEMMA ViewStays ==
  ASSUME FileInv, Exclusive', NEW t \in Thread, NEW c, call' = [call EXCEPT ![t] = c],
         NEW o \in Object, NEW p \in PageId, SamePage(o, p),
         ~Writing(call[t], o, p), ~Writing(c, o, p)
  PROVE  Disk'[o][p] = Disk[o][p]
  <1>1. /\ call'[t] = c
        /\ \A u \in Thread : u # t => call'[u] = call[u]
    BY DEF FileInv, TypeInv, ThreadType
  <1>2. \A u \in Thread : Writing(call[u], o, p) =>
           Writing(call'[u], o, p) /\ call'[u].was = call[u].was
    BY <1>1, Zenon
  <1>3. (\A u \in Thread : ~Writing(call[u], o, p)) =>
           (\A u \in Thread : ~Writing(call'[u], o, p)) /\ SamePage(o, p)
    BY <1>1, Zenon
  <1> QED
    BY <1>2, <1>3, ViewKept DEF FileInv

\* The disk of PageFile, when every page of it but one is as it was.
LEMMA DiskIs ==
  ASSUME NEW D, \A o \in Object, p \in PageId : Disk'[o][p] = D[o][p],
         D = [o \in Object |-> [p \in PageId |-> D[o][p]]]
  PROVE  Disk' = D
  <1>1. Disk' = [o \in Object |-> [p \in PageId |-> Disk'[o][p]]]
    BY Zenon DEF Disk
  <1>2. \A o \in Object : [p \in PageId |-> Disk'[o][p]] = [p \in PageId |-> D[o][p]]
    OBVIOUS
  <1>3. [o \in Object |-> [p \in PageId |-> Disk'[o][p]]]
        = [o \in Object |-> [p \in PageId |-> D[o][p]]]
    BY <1>2, Zenon
  <1> QED
    BY <1>1, <1>3, Zenon

LEMMA DiskShape == Disk = [o \in Object |-> [p \in PageId |-> Disk[o][p]]]
  BY Zenon DEF Disk

\* A step that the callers do not see.
LEMMA NothingSeen ==
  ASSUME UNCHANGED size, Answers' = Answers,
         \A o \in Object, p \in PageId : Disk'[o][p] = Disk[o][p]
  PROVE  UNCHANGED File!vars
  <1>1. Counts' = Counts
    BY DEF Counts, PageCount
  <1>2. Disk' = Disk
    BY DiskIs, DiskShape
  <1> QED
    BY <1>1, <1>2 DEF File!vars, Counts, Disk, Answers

(***************************************************************************)
(* The refinement, action by action.                                       *)
(***************************************************************************)

\* Bytes that are not changed are the same in every page.
LEMMA SameBytes ==
  ASSUME UNCHANGED bytes, NEW o, NEW p
  PROVE  SamePage(o, p)
  BY DEF SamePage

LEMMA QuietSeen ==
  ASSUME UNCHANGED <<call, size, bytes>>
  PROVE  UNCHANGED File!vars
  <1>1. Counts' = Counts
    BY DEF Counts, PageCount
  <1>2. Answers' = Answers
    BY DEF Answers, Running
  <1>3. Disk' = Disk
    <2>1. Running' = Running
      BY Zenon DEF Running
    <2> QED
      BY <2>1 DEF Disk, Promised, OnFile
  <1> QED
    BY <1>1, <1>2, <1>3 DEF File!vars, Counts, Disk, Answers

LEMMA BeginSeen ==
  ASSUME FileInv, Exclusive', NEW t \in Thread, NEW op, NEW o, NEW p, NEW byte,
         Begin(t, op, o, p, byte)
  PROVE  File!Call(t)
  <1> DEFINE c == NewCall(op, o, p, byte)
  <1>1. /\ t \notin Running /\ call' = [call EXCEPT ![t] = c]
        /\ UNCHANGED <<size, bytes>>
    BY DEF Begin, NewCall, ioVars
  <1>2. c.status = "running" /\ c.step = "size"
    BY DEF NewCall
  <1>3. call[t].status # "running"
    BY <1>1 DEF Running
  <1> HIDE DEF c
  <1>4. Answers[t] # Pending /\ Answers' = [Answers EXCEPT ![t] = Pending]
    BY <1>1, <1>2, AnswersBegin, Zenon DEF FileInv, TypeInv
  <1>5. ASSUME NEW r \in Object, NEW q \in PageId
        PROVE  Disk'[r][q] = Disk[r][q]
    <2>1. ~Writing(call[t], r, q) /\ ~Writing(c, r, q)
      BY <1>2, <1>3 DEF Writing
    <2> QED
      BY <1>1, <2>1, SameBytes, ViewStays, Zenon
  <1>6. Disk' = Disk
    BY <1>5, DiskIs, DiskShape
  <1>7. Counts' = Counts
    BY <1>1 DEF Counts, PageCount
  <1> QED
    BY <1>4, <1>6, <1>7, Zenon DEF File!Call, Counts, Disk, Answers

\* A call that returns and was not writing changes no page.
LEMMA ReturnSeen ==
  ASSUME FileInv, Exclusive', NEW t \in Running, NEW x \in Answer,
         call' = [call EXCEPT ![t] = x], UNCHANGED bytes,
         \A o \in Object, p \in PageId : ~Writing(call[t], o, p)
  PROVE  /\ Answers[t] = Pending
         /\ Answers' = [Answers EXCEPT ![t] = x]
         /\ Disk' = Disk
  <1>1. t \in Thread
    BY DEF Running
  <1>2. Answers[t] = Pending /\ Answers' = [Answers EXCEPT ![t] = x]
    BY AnswersReturn, Zenon DEF FileInv, TypeInv
  <1>3. ASSUME NEW r \in Object, NEW q \in PageId
        PROVE  Disk'[r][q] = Disk[r][q]
    <2>1. ~Writing(x, r, q)
      BY DEF Writing, Answer
    <2> QED
      BY <1>1, <2>1, SameBytes, ViewStays, Zenon
  <1>4. Disk' = Disk
    BY <1>3, DiskIs, DiskShape
  <1> QED
    BY <1>2, <1>4

LEMMA FailSeen ==
  ASSUME FileInv, Exclusive', NEW t \in Running, NEW x \in {Untouched, Mixed},
         call' = [call EXCEPT ![t] = Error(x)], UNCHANGED <<size, bytes>>,
         \A o \in Object, p \in PageId : ~Writing(call[t], o, p)
  PROVE  File!Fails(t)
  <1>1. Error(x) \in Answer
    BY AnswerType
  <1>2. /\ Answers[t] = Pending /\ Answers' = [Answers EXCEPT ![t] = Error(x)]
        /\ Disk' = Disk
    BY <1>1, ReturnSeen, Zenon
  <1>3. Counts' = Counts
    BY DEF Counts, PageCount
  <1> QED
    BY <1>2, <1>3, Zenon DEF File!Fails, File!Returns, File!Error, Error, Counts, Disk, Answers

LEMMA RefuseSeen ==
  ASSUME FileInv, Exclusive', NEW t \in Running, call[t].step \in {"size", "truncate"},
         Returns(t, Error(Untouched)), UNCHANGED ioVars
  PROVE  File!Fails(t)
  <1>1. \A o \in Object, p \in PageId : ~Writing(call[t], o, p)
    BY DEF Writing
  <1> QED
    BY <1>1, FailSeen, Zenon DEF Returns, ioVars

\* A write that begins keeps the page its callers see as it is.
LEMMA CheckSizeSeen ==
  ASSUME FileInv, Exclusive', OwnFile, NEW t \in Thread, CheckSize(t)
  PROVE  UNCHANGED File!vars
  <1> DEFINE c == call[t]
             d == CallAfterSize(c, c.obj)
  <1>1. /\ t \in Running /\ c \in CallState /\ c.step = "size"
        /\ c.op # "allocate" => c.page \in PageId
        /\ UNCHANGED <<size, bytes>>
    BY CheckSizeStep DEF FileInv
  <1>2. c.obj \in Object
    BY <1>1, Zenon DEF CallState
  <1>3. call' = [call EXCEPT ![t] = d]
    <2>1. PICK f \in Reached(c.obj) : call' = [call EXCEPT ![t] = CallAfterSize(c, f)]
      BY CheckSizeStep, Zenon DEF FileInv
    <2>2. f = c.obj
      BY <1>2, Zenon DEF OwnFile
    <2> QED
      BY <2>1, <2>2, Zenon
  <1>4. /\ d.status = "running" /\ d.op = c.op /\ d.obj = c.obj
        /\ c.op # "allocate" => d.step = "io" /\ d.page = c.page
        /\ c.op = "write" => d.was = OnFile(c.obj, c.page)
    BY <1>1, AfterSizeFields
  <1> HIDE DEF d
  <1>5. Answers' = Answers
    BY <1>1, <1>3, <1>4, AnswersStay, Zenon DEF FileInv, TypeInv
  <1>6. ASSUME NEW o \in Object, NEW p \in PageId
        PROVE  Disk'[o][p] = Disk[o][p]
    <2>1. ~Writing(c, o, p)
      BY <1>1 DEF Writing
    <2>2. SamePage(o, p)
      BY <1>1, SameBytes
    <2>3. CASE ~Writing(d, o, p)
      BY <1>3, <2>1, <2>2, <2>3, ViewStays, Zenon
    <2>4. CASE Writing(d, o, p)
      <3>1. c.op = "write" /\ c.obj = o /\ c.page = p
        BY <1>4, <2>4 DEF Writing
      <3>2. ASSUME NEW u \in Thread
            PROVE  ~Writing(call[u], o, p)
        <4>1. CASE u = t
          BY <2>1, <4>1
        <4>2. CASE u # t
          <5> SUFFICES ASSUME Writing(call[u], o, p)
                       PROVE  FALSE
            OBVIOUS
          <5>1. u \in Running
            BY Zenon DEF Writing, Running
          <5>2. Apart(c, call[u])
            BY <1>1, <4>2, <5>1, Zenon DEF FileInv, Exclusive
          <5> QED
            BY <3>1, <5>2 DEF Apart, Writing
        <4> QED
          BY <4>1, <4>2
      <3>3. Disk[o][p] = OnFile(o, p)
        BY <3>2, ViewsOfPages DEF FileInv, Views
      <3>4. call'[t] = d
        BY <1>3 DEF FileInv, TypeInv, ThreadType
      <3>5. Writing(call'[t], o, p)
        BY <2>4, <3>4
      <3>6. Disk'[o][p] = call'[t].was
        BY <3>5, ViewsOfPagesAfter, Zenon DEF Views, Writing
      <3> QED
        BY <1>4, <3>1, <3>3, <3>4, <3>6, Zenon
    <2> QED
      BY <2>3, <2>4
  <1> QED
    BY <1>1, <1>5, <1>6, NothingSeen

\* Whatever a write has transferred so far, its callers see the page as it was.
LEMMA WriteTurnSeen ==
  ASSUME FileInv, Exclusive', OwnFile, NEW t \in Thread, WriteTurn(t), UNCHANGED call
  PROVE  UNCHANGED File!vars
  <1> DEFINE c == call[t]
  <1>1. t \in Running /\ c \in CallState /\ c.step = "io" /\ c.op = "write"
    BY WriteTurnStep, Zenon DEF FileInv
  <1>2. /\ UNCHANGED size
        /\ \A o \in Object, q \in PageId : ~(o = c.obj /\ q = c.page) => SamePage(o, q)
    BY WriteTurnEffect
  <1>3. Answers' = Answers
    BY Zenon DEF Answers, Running
  <1>4. ASSUME NEW o \in Object, NEW p \in PageId
        PROVE  Disk'[o][p] = Disk[o][p]
    <2>1. \A u \in Thread : Writing(call[u], o, p) =>
            Writing(call'[u], o, p) /\ call'[u].was = call[u].was
      OBVIOUS
    <2>2. ASSUME \A u \in Thread : ~Writing(call[u], o, p)
          PROVE  SamePage(o, p)
      <3>1. ~Writing(c, o, p)
        BY <2>2
      <3>2. ~(o = c.obj /\ p = c.page)
        BY <1>1, <3>1 DEF Writing, CallState
      <3> QED
        BY <1>2, <3>2
    <2>3. (\A u \in Thread : ~Writing(call[u], o, p)) =>
            (\A u \in Thread : ~Writing(call'[u], o, p)) /\ SamePage(o, p)
      BY <2>2
    <2> QED
      BY <2>1, <2>3, ViewKept DEF FileInv
  <1> QED
    BY <1>2, <1>3, <1>4, NothingSeen, Zenon

\* A page of zeros reads as zero.
LEMMA ZeroPage ==
  ASSUME NEW o \in Object, NEW p \in PageId,
         \A i \in 1 .. PageSize : bytes[o][At(p, i)] = Zero
  PROVE  OnFile(o, p) = Zero
  <1>1. \A i \in 1 .. PageSize : PageOf(bytes[o], p)[i] = Zero
    BY Zenon DEF PageOf
  <1>2. DOMAIN PageOf(bytes[o], p) = 1 .. PageSize /\ 1 \in 1 .. PageSize
    BY DEF PageOf
  <1>3. Summary(PageOf(bytes[o], p)) = Zero
    BY <1>1, <1>2, Zenon DEF Summary
  <1> QED
    BY <1>3, OnFileIs

\* An allocation is the atomic one: the next page, of zeros.
LEMMA AllocateSeen ==
  ASSUME FileInv, Exclusive', OwnFile, NEW t \in Thread, Allocate(t)
  PROVE  \E o \in Object : File!AllocatePage(t, o)
  <1> DEFINE c == call[t]
             o == c.obj
             p == c.page
  <1>1. /\ t \in Running /\ c \in CallState /\ c.op = "allocate" /\ p \in PageId
        /\ call' = [call EXCEPT ![t] = Ok(p)]
    BY AllocateStep DEF FileInv
  <1>2. o \in Object
    BY <1>1 DEF CallState
  <1>3. /\ size[o] = p * PageSize /\ UNCHANGED bytes
        /\ size' = [size EXCEPT ![o] = (p + 1) * PageSize]
    BY AllocateEffect
  <1>4. p \in Nat /\ p * PageSize \in Nat
    BY <1>1, PageIdBound, Zenon
  <1>5. Counts[o] = p /\ Counts' = [Counts EXCEPT ![o] = p + 1]
    <2>1. PageCount(o) = p
      BY <1>3, <1>4, WholeDivision DEF PageCount
    <2>2. ((p + 1) * PageSize) \div PageSize = p + 1
      <3>1. p + 1 \in Nat
        BY <1>4
      <3> QED
        BY <3>1, WholeDivision
    <2> DEFINE n == (p + 1) * PageSize
    <2>3. n \div PageSize = p + 1 /\ size' = [size EXCEPT ![o] = n]
      BY <1>3, <2>2, Zenon
    <2> HIDE DEF n, o
    <2>4. \A r \in Object : size'[r] = IF r = o THEN n ELSE size[r]
      BY <2>3 DEF FileInv, TypeInv, KernelType
    <2>5. Counts' = [r \in Object |-> size'[r] \div PageSize]
      BY DEF Counts, PageCount
    <2>6. ASSUME NEW r \in Object
          PROVE  size'[r] \div PageSize = IF r = o THEN p + 1 ELSE PageCount(r)
      <3>1. CASE r = o
        <4>1. size'[r] = n
          BY <2>4, <3>1, Zenon
        <4> QED
          BY <2>3, <3>1, <4>1, Zenon
      <3>2. CASE r # o
        <4>1. size'[r] = size[r]
          BY <2>4, <3>2, Zenon
        <4> QED
          BY <3>2, <4>1, Zenon DEF PageCount
      <3> QED
        BY <3>1, <3>2
    <2>7. Counts' = [r \in Object |-> IF r = o THEN p + 1 ELSE PageCount(r)]
      BY <2>5, <2>6, Zenon
    <2>8. Counts[o] = p
      BY <1>2, <2>1, Zenon DEF Counts
    <2> QED
      BY <2>7, <2>8 DEF Counts
  <1>6. Disk[o][p] = Zero
    <2>1. ASSUME NEW u \in Thread
          PROVE  ~Writing(call[u], o, p)
      <3> SUFFICES ASSUME Writing(call[u], o, p)
                   PROVE  FALSE
        OBVIOUS
      <3>1. u \in Running /\ call[u].obj = o /\ call[u].page = p /\ call[u].step = "io"
        BY Zenon DEF Writing, Running
      <3>2. (p + 1) * PageSize <= size[o]
        BY <3>1 DEF FileInv, Agreement, Agrees
      <3>3. (p + 1) * PageSize = p * PageSize + PageSize
        BY <1>1, PageIdBound, Zenon
      <3> QED
        BY <1>3, <1>4, <3>2, <3>3
    <2>2. Disk[o][p] = OnFile(o, p)
      BY <1>1, <1>2, <2>1, ViewsOfPages, Zenon DEF FileInv, Views
    <2>3. ASSUME NEW i \in 1 .. PageSize
          PROVE  bytes[o][At(p, i)] = Zero
      <3>1. At(p, i) \in Offset
        BY <1>1, OffsetOfByte
      <3>2. At(p, i) >= size[o]
        BY <1>3, <1>4 DEF At
      <3> QED
        BY <1>2, <3>1, <3>2 DEF FileInv, PastEnd
    <2> QED
      BY <1>1, <1>2, <2>2, <2>3, ZeroPage, Zenon
  <1>7. /\ Answers[t] = Pending /\ Answers' = [Answers EXCEPT ![t] = Ok(p)]
        /\ Disk' = Disk
    <2>1. \A r \in Object, q \in PageId : ~Writing(call[t], r, q)
      BY <1>1 DEF Writing
    <2>2. Ok(p) \in Answer
      BY <1>1, AnswerType
    <2> QED
      BY <1>1, <1>3, <2>1, <2>2, ReturnSeen, Zenon
  <1>8. Disk' = [Disk EXCEPT ![o][Counts[o]] = Zero]
    <2>1. [Disk EXCEPT ![o][p] = Disk[o][p]] = Disk
      BY <1>1, <1>2, Zenon DEF Disk
    <2> QED
      BY <1>5, <1>6, <1>7, <2>1
  <1>9. File!AllocatePage(t, o)
    <2>1. Counts' = [Counts EXCEPT ![o] = Counts[o] + 1]
      BY <1>5, Zenon
    <2>2. Answers' = [Answers EXCEPT ![t] = File!Ok(Counts[o])]
      BY <1>5, <1>7 DEF File!Ok, Ok
    <2> HIDE DEF o, p
    <2> QED
      BY <1>7, <1>8, <2>1, <2>2, Zenon DEF File!AllocatePage, File!Returns, Counts, Disk, Answers
  <1> QED
    BY <1>2, <1>9

\* What the callers see of a write that returns x: the page as it is on file.
WriteReturns(t, x, o, p) ==
  /\ Answers[t] = Pending
  /\ Answers' = [Answers EXCEPT ![t] = x]
  /\ Disk' = [Disk EXCEPT ![o][p] = OnFile(o, p)]
  /\ Disk[o][p] = call[t].was

LEMMA WriteReturnSeen ==
  ASSUME FileInv, Exclusive', NEW t \in Running, NEW x \in Answer,
         call' = [call EXCEPT ![t] = x], UNCHANGED bytes,
         NEW o \in Object, NEW p \in PageId, Writing(call[t], o, p)
  PROVE  WriteReturns(t, x, o, p)
  <1>1. t \in Thread /\ x.status # "running"
    BY DEF Running, Answer
  <1>2. Answers[t] = Pending /\ Answers' = [Answers EXCEPT ![t] = x]
    BY AnswersReturn, Zenon DEF FileInv, TypeInv
  <1>3. Disk[o][p] = call[t].was
    BY <1>1, ViewsOfPages DEF FileInv, Views
  <1>4. /\ call'[t] = x
        /\ \A u \in Thread : u # t => call'[u] = call[u]
    BY <1>1 DEF FileInv, TypeInv, ThreadType
  <1>5. ASSUME NEW u \in Thread
        PROVE  ~Writing(call'[u], o, p)
    <2>1. CASE u = t
      BY <1>1, <1>4, <2>1 DEF Writing
    <2>2. CASE u # t
      <3> SUFFICES ASSUME Writing(call[u], o, p)
                   PROVE  FALSE
        BY <1>4, <2>2
      <3>1. u \in Running
        BY DEF Writing, Running
      <3>2. Apart(call[t], call[u])
        BY <2>2, <3>1 DEF FileInv, Exclusive
      <3> QED
        BY <3>2 DEF Apart, Writing
    <2> QED
      BY <2>1, <2>2
  <1>6. Disk'[o][p] = OnFile(o, p)
    <2>1. Disk'[o][p] = OnFile(o, p)'
      BY <1>5, ViewsOfPagesAfter, Zenon DEF Views, Writing
    <2>2. OnFile(o, p)' = OnFile(o, p)
      BY DEF OnFile
    <2> QED
      BY <2>1, <2>2
  <1>7. ASSUME NEW r \in Object, NEW q \in PageId, ~(r = o /\ q = p)
        PROVE  Disk'[r][q] = Disk[r][q]
    <2>1. ~Writing(call[t], r, q) /\ ~Writing(x, r, q)
      BY <1>1, <1>7 DEF Writing
    <2> QED
      BY <1>1, <2>1, SameBytes, ViewStays, Zenon
  <1> DEFINE D == [Disk EXCEPT ![o][p] = OnFile(o, p)]
  <1>8. \A r \in Object, q \in PageId :
          D[r][q] = IF r = o /\ q = p THEN OnFile(o, p) ELSE Disk[r][q]
    BY DEF Disk
  <1>9. D = [r \in Object |-> [q \in PageId |-> D[r][q]]]
    BY Zenon DEF Disk
  <1> HIDE DEF D
  <1>10. \A r \in Object, q \in PageId : Disk'[r][q] = D[r][q]
    BY <1>6, <1>7, <1>8, Zenon
  <1>11. Disk' = D
    BY <1>9, <1>10, DiskIs
  <1> QED
    BY <1>2, <1>3, <1>11, Zenon DEF D, WriteReturns

\* A page all of whose bytes are those of one write, and one whose first byte is.
LEMMA PageWritten ==
  ASSUME NEW b, NEW p, NEW byte, NEW n \in 1 .. PageSize,
         \A i \in 1 .. n : b[At(p, i)] = byte
  PROVE  /\ Summary(PageOf(b, p)) \in {byte, Mixed}
         /\ n = PageSize => Summary(PageOf(b, p)) = byte
  <1> DEFINE g == PageOf(b, p)
  <1>1. DOMAIN g = 1 .. PageSize /\ 1 \in 1 .. n
    BY DEF PageOf
  <1>2. \A i \in 1 .. n : g[i] = byte
    BY DEF PageOf
  <1> HIDE DEF g
  <1>3. Summary(g) \in {byte, Mixed}
    BY <1>1, <1>2 DEF Summary
  <1>4. n = PageSize => Summary(g) = byte
    BY <1>1, <1>2, Zenon DEF Summary
  <1> QED
    BY <1>3, <1>4 DEF g

\* A write that ends is the atomic one, or a torn one if a kernel call failed.
LEMMA FinishWriteSeen ==
  ASSUME FileInv, Exclusive', NEW t \in Thread, Finish(t), call[t].op = "write"
  PROVE  \E o \in Object, p \in PageId, d \in Byte :
           File!WritePage(t, o, p, d) \/ File!WriteTears(t, o, p, d)
  <1> DEFINE c == call[t]
             l == io[t]
             o == c.obj
             p == c.page
             d == c.byte
             x == Outcome(c, l)
  <1>1. /\ t \in Running /\ c \in CallState /\ c.step = "io" /\ LoopOf(c, l)
        /\ l \in LoopState /\ l.state \in {"done", "failed"}
        /\ UNCHANGED <<size, bytes>> /\ call' = [call EXCEPT ![t] = x]
    BY FinishStep, Zenon DEF FileInv
  <1>2. o \in Object /\ p \in PageId /\ d \in Byte /\ l.done \in 0 .. PageSize
    BY <1>1, Zenon DEF CallState, LoopOf
  <1>3. x \in Answer
    BY <1>1, OutcomeType, Zenon
  <1>4. Writing(c, o, p)
    BY <1>1 DEF Writing, CallState
  <1>5. /\ Answers[t] = Pending /\ Answers' = [Answers EXCEPT ![t] = x]
        /\ Disk' = [Disk EXCEPT ![o][p] = OnFile(o, p)]
        /\ Disk[o][p] = c.was
    <2>1. t \in Running /\ UNCHANGED bytes /\ call' = [call EXCEPT ![t] = x]
      BY <1>1
    <2> HIDE DEF o, p, x
    <2>2. WriteReturns(t, x, o, p)
      BY <1>2, <1>3, <1>4, <2>1, WriteReturnSeen, Zenon
    <2> QED
      BY <2>2, Zenon DEF WriteReturns
  <1>6. Agrees(c, l, size[o], bytes[o])
    BY <1>1, Zenon DEF FileInv, Agreement
  <1>7. p < Counts[o] /\ Counts' = Counts
    <2>1. size[o] \in Nat /\ p \in Nat
      BY <1>2, SizeIsNat, PageIdBound, Zenon
    <2>2. (p + 1) * PageSize <= size[o]
      BY <1>1, <1>6 DEF Agrees
    <2>3. p < PageCount(o)
      BY <1>2, <2>1, <2>2, PageWithin, Zenon
    <2> QED
      BY <1>1, <1>2, <2>3 DEF Counts, PageCount
  <1>8. CASE l.state = "done"
    <2>1. l.done = PageSize
      BY <1>1, <1>8, Zenon DEF LoopOf
    <2>2. \A i \in 1 .. PageSize : bytes[o][At(p, i)] = d
      BY <1>1, <1>6, <2>1 DEF Agrees
    <2>3. PageSize \in 1 .. PageSize
      OBVIOUS
    <2>4. Summary(PageOf(bytes[o], p)) = d
      <3> HIDE DEF o, p, d
      <3> QED
        BY <2>2, <2>3, PageWritten, Zenon
    <2>5. OnFile(o, p) = d
      BY <2>4, OnFileIs
    <2>6. x = File!Ok(d)
      BY <1>8, Zenon DEF Outcome, Ok, File!Ok
    <2> HIDE DEF o, p, d, x
    <2>7. File!WritePage(t, o, p, d)
      BY <1>5, <1>7, <2>5, <2>6, Zenon
      DEF File!WritePage, File!Returns, Counts, Disk, Answers
    <2> QED
      BY <1>2, <2>7
  <1>9. CASE l.state = "failed"
    <2>1. OnFile(o, p) \in {Disk[o][p], Mixed, d}
      <3>1. CASE l.done = 0
        BY <1>1, <1>5, <1>6, <3>1, OnFileIs, Zenon DEF Agrees
      <3>2. CASE l.done # 0
        <4>1. l.done \in 1 .. PageSize
          BY <1>2, <3>2, SomeBytes, ZenonT(30)
        <4>2. \A i \in 1 .. l.done : bytes[o][At(p, i)] = d
          BY <1>1, <1>6 DEF Agrees
        <4>3. Summary(PageOf(bytes[o], p)) \in {d, Mixed}
          BY <4>1, <4>2, PageWritten, Zenon
        <4> QED
          BY <4>3, OnFileIs, Zenon
      <3> QED
        BY <3>1, <3>2
    <2>2. x = File!Error(Untouched)
      BY <1>9 DEF Outcome, Error, File!Error
    <2> HIDE DEF o, p, d, x
    <2>3. File!WriteTears(t, o, p, d)
      BY <1>5, <1>7, <2>1, <2>2, Zenon
      DEF File!WriteTears, File!Returns, Counts, Disk, Answers
    <2> QED
      BY <1>2, <2>3, Zenon
  <1> QED
    BY <1>1, <1>8, <1>9, Zenon

\* A read that ends returns the page as its callers see it, or an error.
LEMMA FinishReadSeen ==
  ASSUME FileInv, Exclusive', NEW t \in Thread, Finish(t), call[t].op = "read"
  PROVE  \/ File!Fails(t)
         \/ \E o \in Object, p \in PageId : File!ReadPage(t, o, p)
  <1> DEFINE c == call[t]
             l == io[t]
             o == c.obj
             p == c.page
             x == Outcome(c, l)
  <1>1. /\ t \in Running /\ c \in CallState /\ c.step = "io" /\ LoopOf(c, l)
        /\ l \in LoopState /\ l.state \in {"done", "failed"}
        /\ UNCHANGED <<size, bytes>> /\ call' = [call EXCEPT ![t] = x]
    BY FinishStep, Zenon DEF FileInv
  <1>2. o \in Object /\ p \in PageId
    BY <1>1, Zenon DEF CallState, LoopOf
  <1>3. x \in Answer
    BY <1>1, OutcomeType, Zenon
  <1>4. \A r \in Object, q \in PageId : ~Writing(c, r, q)
    BY DEF Writing
  <1>5. CASE l.state = "done" /\ l.done = PageSize
    <2>1. Agrees(c, l, size[o], bytes[o])
      BY <1>1 DEF FileInv, Agreement
    <2>2. l.data = PageOf(bytes[o], p)
      <3>1. l.data \in Seq(Byte) /\ Len(l.data) = PageSize
        BY <1>1, <1>5, Zenon DEF LoopState, LoopOf
      <3>2. \A i \in 1 .. PageSize : l.data[i] = bytes[o][At(p, i)]
        BY <1>1, <1>5, <2>1, Zenon DEF Agrees
      <3>3. l.data = [i \in 1 .. PageSize |-> l.data[i]]
        BY <3>1
      <3> QED
        BY <3>2, <3>3, Zenon DEF PageOf
    <2>3. ASSUME NEW u \in Thread
          PROVE  ~Writing(call[u], o, p)
      <3> SUFFICES ASSUME Writing(call[u], o, p)
                   PROVE  FALSE
        OBVIOUS
      <3>1. u \in Running /\ u # t
        BY Zenon DEF Writing, Running
      <3>2. Apart(call[u], c)
        BY <1>1, <3>1, Zenon DEF FileInv, Exclusive
      <3> QED
        BY <3>2, Zenon DEF Apart, Writing
    <2>4. Disk[o][p] = OnFile(o, p)
      BY <1>2, <2>3, ViewsOfPages DEF FileInv, Views
    <2>5. x = File!Ok(Disk[o][p])
      BY <1>5, <2>2, <2>4, OnFileIs DEF Outcome, Ok, File!Ok
    <2>6. /\ Answers[t] = Pending /\ Answers' = [Answers EXCEPT ![t] = x]
          /\ Disk' = Disk
      BY <1>1, <1>3, <1>4, ReturnSeen, Zenon
    <2>7. p < Counts[o] /\ Counts' = Counts
      <3>1. size[o] \in Nat /\ p \in Nat
        BY <1>2, SizeIsNat, PageIdBound, Zenon
      <3>2. (p + 1) * PageSize <= size[o]
        BY <1>1, <2>1 DEF Agrees
      <3>3. p < PageCount(o)
        BY <1>2, <3>1, <3>2, PageWithin, ZenonT(30)
      <3> QED
        BY <1>1, <1>2, <3>3 DEF Counts, PageCount
    <2> HIDE DEF o, p, x
    <2>8. File!ReadPage(t, o, p)
      BY <2>5, <2>6, <2>7 DEF File!ReadPage, File!Returns, Counts, Disk, Answers
    <2> QED
      BY <1>2, <2>8, ZenonT(30)
  <1>6. CASE ~(l.state = "done" /\ l.done = PageSize)
    <2>1. x = Error(IF l.done = 0 THEN Untouched ELSE Mixed)
      BY <1>6, Zenon DEF Outcome
    <2> DEFINE buffer == IF l.done = 0 THEN Untouched ELSE Mixed
    <2>2. buffer \in {Untouched, Mixed} /\ call' = [call EXCEPT ![t] = Error(buffer)]
      BY <1>1, <2>1
    <2> HIDE DEF buffer
    <2> QED
      BY <1>1, <1>4, <2>2, FailSeen, Zenon
  <1> QED
    BY <1>5, <1>6, Zenon

LEMMA StartsAsFile == Init => File!Init
  <1> SUFFICES ASSUME Init PROVE File!Init
    OBVIOUS
  <1>1. FileInv
    BY FileInitially
  <1>2. Counts \in [Object -> Nat]
    <2>1. ASSUME NEW o \in Object
          PROVE  PageCount(o) \in Nat
      <3>1. size[o] \in Nat /\ 0 \in Nat
        BY <1>1 DEF FileInv, TypeInv, KernelType
      <3> QED
        BY <3>1, PageWithin
    <2> QED
      BY <2>1 DEF Counts
  <1>3. Running = {}
    BY DEF Init, Running, Ok
  <1>4. Answers = [t \in Thread |-> File!Ok(Zero)]
    BY <1>3 DEF Answers, Init, Ok, File!Ok
  <1>5. ASSUME NEW o \in Object, NEW p \in PageId
        PROVE  Disk[o][p] = Zero
    <2>1. \A t \in Thread : ~Writing(call[t], o, p)
      BY <1>3, Zenon DEF Writing, Running
    <2>2. Disk[o][p] = OnFile(o, p)
      BY <1>1, <2>1, ViewsOfPages DEF FileInv, Views
    <2>3. \A i \in 1 .. PageSize : bytes[o][At(p, i)] = Zero
      BY OffsetOfByte DEF Init, IOInit
    <2> QED
      BY <2>2, <2>3, ZeroPage, Zenon
  <1>6. Disk = [o \in Object |-> [p \in PageId |-> Zero]]
    <2>1. \A o \in Object : [p \in PageId |-> Disk[o][p]] = [p \in PageId |-> Zero]
      BY <1>5
    <2> QED
      BY <2>1, DiskShape, Zenon
  <1> QED
    BY <1>2, <1>4, <1>6 DEF File!Init, Counts, Answers, Disk

LEMMA StepsAsFile ==
  FileInv /\ FileInv' /\ OwnFile /\ [Next]_vars => [File!Next]_(File!vars)
  <1> SUFFICES ASSUME FileInv, FileInv', OwnFile, [Next]_vars
               PROVE  File!Next \/ UNCHANGED File!vars
    OBVIOUS
  <1> DEFINE Goal == File!Next \/ UNCHANGED File!vars
  <1>1. Exclusive'
    BY Zenon DEF FileInv
  <1>2. ASSUME NEW o \in Object, OpenBackend(o) \/ CloseBackend(o) \/ DestroyBackend(o)
        PROVE  Goal
    BY <1>2, QuietSeen DEF OpenBackend, CloseBackend, DestroyBackend, Open, Close, Destroy
  <1>3. ASSUME NEW t \in Thread, CheckSize(t)
        PROVE  Goal
    BY <1>1, <1>3, CheckSizeSeen
  <1>4. ASSUME NEW t \in Thread, Refuse(t)
        PROVE  Goal
    <2>1. File!Fails(t)
      BY <1>1, <1>4, RefuseSeen DEF Refuse
    <2> QED
      BY <2>1, Zenon DEF File!Next
  <1>5. ASSUME NEW t \in Thread, Allocate(t)
        PROVE  Goal
    <2>1. \E o \in Object : File!AllocatePage(t, o)
      BY <1>1, <1>5, AllocateSeen
    <2> QED
      BY <2>1, Zenon DEF File!Next
  <1>6. ASSUME NEW t \in Thread, Transfer(t)
        PROVE  Goal
    <2>1. CASE ReadTurn(t)
      BY <1>6, <2>1, QuietSeen DEF Transfer, ReadTurn, kernelVars
    <2>2. CASE WriteTurn(t)
      BY <1>1, <1>6, <2>2, WriteTurnSeen DEF Transfer
    <2> QED
      BY <1>6, <2>1, <2>2, Zenon DEF Transfer
  <1>7. ASSUME NEW t \in Thread, Finish(t)
        PROVE  Goal
    <2>1. call[t].op \in {"read", "write"}
      BY <1>7, FinishStep DEF FileInv, LoopOf
    <2>2. CASE call[t].op = "read"
      <3>1. \/ File!Fails(t)
            \/ \E o \in Object, p \in PageId : File!ReadPage(t, o, p)
        BY <1>1, <1>7, <2>2, FinishReadSeen
      <3> QED
        BY <3>1, Zenon DEF File!Next
    <2>3. CASE call[t].op = "write"
      <3>1. \E o \in Object, p \in PageId, d \in Byte :
              File!WritePage(t, o, p, d) \/ File!WriteTears(t, o, p, d)
        BY <1>1, <1>7, <2>3, FinishWriteSeen, Zenon
      <3> QED
        BY <3>1, Zenon DEF File!Next
    <2> QED
      BY <2>1, <2>2, <2>3, Zenon
  <1>8. ASSUME NEW t \in Thread, KernelFails(t)
        PROVE  Goal
    <2>1. CASE FailIO(t) /\ UNCHANGED call
      BY <2>1, QuietSeen, Zenon DEF FailIO, kernelVars
    <2>2. CASE /\ t \in Running
               /\ call[t].step \in {"size", "truncate"}
               /\ Returns(t, Error(Untouched))
               /\ UNCHANGED ioVars
      <3>1. File!Fails(t)
        BY <1>1, <2>2, RefuseSeen
      <3> QED
        BY <3>1 DEF File!Next
    <2> QED
      BY <1>8, <2>1, <2>2 DEF KernelFails
  <1>9. ASSUME NEW t \in Thread, NEW o \in Object,
               \/ BeginAllocate(t, o)
               \/ \E p \in PageId : BeginRead(t, o, p)
               \/ \E p \in PageId, byte \in Byte : BeginWrite(t, o, p, byte)
        PROVE  Goal
    <2>1. \E op, p, byte : Begin(t, op, o, p, byte)
      BY <1>9 DEF BeginAllocate, BeginRead, BeginWrite
    <2>2. File!Call(t)
      BY <1>1, <2>1, BeginSeen
    <2> QED
      BY <2>2, Zenon DEF File!Next
  <1>10. ASSUME UNCHANGED vars
         PROVE  Goal
    BY <1>10, QuietSeen, Zenon DEF vars, ioVars
  <1> HIDE DEF Goal
  <1>11. Goal
    BY <1>2, <1>3, <1>4, <1>5, <1>6, <1>7, <1>8, <1>9, <1>10, Zenon DEF Next, Proceed
  <1> QED
    BY <1>11 DEF Goal

\* While every backend reaches its own file, the calls of any number of threads
\* on pages of any size are atomic to their callers: each kernel call of a loop
\* is invisible, and the call takes effect when it returns (io_ops.hpp:14-16,
\* posix_io.cpp:92-150, page_store.cpp:25-90).
THEOREM PageCallsAtomic == Spec /\ []OwnFile => PageCallsAreAtomic
  <1>1. Spec /\ []OwnFile => []FileInv
    BY FileInitially, FileStep, PTL DEF Spec
  <1> QED
    BY <1>1, StartsAsFile, StepsAsFile, PTL DEF Spec, PageCallsAreAtomic, File!Spec

\* A backend that is alone always reaches its own file, so that its calls are
\* atomic however its opens and closes fail (posix_io.cpp:23-90).
THEOREM SoleBackendAtomic ==
  ASSUME \A o, r \in Object : o = r
  PROVE  Spec => PageCallsAreAtomic
  <1>1. OwnFile
    BY DEF OwnFile, Reached
  <1> QED
    BY <1>1, PageCallsAtomic, PTL
=============================================================================
