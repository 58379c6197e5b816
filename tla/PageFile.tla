------------------------------ MODULE PageFile ------------------------------
(***************************************************************************)
(* What PageStore promises its callers, and what BufferPool assumes of it: *)
(* files of whole pages whose calls take effect at one moment each.  A     *)
(* call that fails may have stored a part of a page, in the file if it was *)
(* a write and in the caller's buffer if it was a read.                    *)
(***************************************************************************)
EXTENDS Integers

CONSTANTS
  Thread,
  Object,      \* backends, one file each
  PageId,
  Content,     \* contents of a page that is of one write
  Zero,        \* the content of a page nobody wrote
  Mixed,       \* a page of which only a part was transferred
  Untouched,   \* a buffer as it was before the call
  Pending      \* no answer yet

VARIABLES
  page_count,
  disk,
  answer       \* what the last call of each thread returned

vars == <<page_count, disk, answer>>

Ok(x) == [status |-> "ok", data |-> x]
Error(buffer) == [status |-> "error", data |-> buffer]

Init ==
  /\ page_count \in [Object -> Nat]
  /\ disk = [o \in Object |-> [p \in PageId |-> Zero]]
  /\ answer = [t \in Thread |-> Ok(Zero)]

Call(t) ==
  /\ answer[t] # Pending
  /\ answer' = [answer EXCEPT ![t] = Pending]
  /\ UNCHANGED <<page_count, disk>>

Returns(t, x) ==
  /\ answer[t] = Pending
  /\ answer' = [answer EXCEPT ![t] = x]

ReadPage(t, o, p) ==
  /\ p < page_count[o]
  /\ Returns(t, Ok(disk[o][p]))
  /\ UNCHANGED <<page_count, disk>>

WritePage(t, o, p, d) ==
  /\ p < page_count[o]
  /\ disk' = [disk EXCEPT ![o][p] = d]
  /\ Returns(t, Ok(d))
  /\ UNCHANGED page_count

\* A write of d that fails.  It may have stored nothing, or a part, and then
\* all of d where the bytes that were left happened to agree.
WriteTears(t, o, p, d) ==
  /\ p < page_count[o]
  /\ \E left \in {disk[o][p], Mixed, d} : disk' = [disk EXCEPT ![o][p] = left]
  /\ Returns(t, Error(Untouched))
  /\ UNCHANGED page_count

AllocatePage(t, o) ==
  /\ page_count' = [page_count EXCEPT ![o] = @ + 1]
  /\ disk' = [disk EXCEPT ![o][page_count[o]] = Zero]
  /\ Returns(t, Ok(page_count[o]))

Fails(t) ==
  /\ \E buffer \in {Untouched, Mixed} : Returns(t, Error(buffer))
  /\ UNCHANGED <<page_count, disk>>

Next ==
  \E t \in Thread :
    \/ Call(t) \/ Fails(t)
    \/ \E o \in Object :
         \/ AllocatePage(t, o)
         \/ \E p \in PageId :
              \/ ReadPage(t, o, p)
              \/ \E d \in Content : WritePage(t, o, p, d) \/ WriteTears(t, o, p, d)

Spec == Init /\ [][Next]_vars
=============================================================================
