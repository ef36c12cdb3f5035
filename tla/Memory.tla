------------------------------- MODULE Memory -------------------------------
(***************************************************************************)
(* The copies of one shared memory region: the page faults and twins of    *)
(* src/memory/memory.c, and the diffs that src/memory/memory_dobj.c sends  *)
(* at the end of a transaction and applies when they arrive.               *)
(*                                                                         *)
(* A page is read-only until a store faults on it; the fault handler makes *)
(* a twin, a copy of the page as it was, and lets the stores through.  The *)
(* end of a transaction compares each twinned page with its twin, protects *)
(* the page again and sends the bytes that differ to the other users of    *)
(* the region.  So several nodes may write to different bytes of a page at *)
(* the same time; a diff that arrives is applied to the twin as well, or   *)
(* the bytes of others would be sent back as changes of one's own.         *)
(*                                                                         *)
(* region_lock makes the fault handler and the application of each page    *)
(* one step each.  diff_region holds it too, but stores do not ask for it: *)
(* they are held back by the protection of a page only, so each page is    *)
(* protected and compared in two steps.  The diff is sent after the lock   *)
(* has been given up.                                                      *)
(***************************************************************************)
EXTENDS Integers, Sequences

CONSTANTS
  Node,
  Thread,      \* the threads of each node that store to the region
  TxThread,    \* those that end transactions, as unlock and notify do
  Page,        \* the pages of the region
  PageSize,    \* edsm_memory_pagesize
  Width,       \* the bits of a section's length: 16, of uint16_t
  Owner,       \* Owner[pg][b]: the one node that stores to the byte
  MaxValue,    \* bound: the stores to a byte are counted up to this value
  MaxTime      \* bound: transactions end while the timestamp is below this

\* The offsets in a page.
Byte == 0 .. PageSize - 1

ASSUME PageSizeAssumption ==
  /\ PageSize \in Nat \ {0}
  /\ 2 ^ Width \in Nat /\ PageSize <= 2 ^ Width
ASSUME OwnerAssumption == Owner \in [Page -> [Byte -> Node]]
ASSUME ThreadAssumption == TxThread \subseteq Thread
ASSUME BoundAssumption == MaxValue \in Nat /\ MaxTime \in Nat

VARIABLES
  chan,       \* chan[p][n]: the diffs on the connection from p to n
  memory,     \* the region of each node
  twins,      \* the twinned pages of each node, with their twin_data
  writable,   \* the pages of each node with PROT_WRITE
  timestamp,  \* lamport_timestamp of each node's region
  faulting,   \* the pages each thread has faulted on, until tx_begin
  unsent,     \* the diff a thread makes, or has made and not sent yet, if any
  diffing,    \* the thread of each node in diff_region, with region_lock, if any
  halfway,    \* the page it is at, between the two steps, if any
  applying    \* the pages of a diff that the listener has still to apply

vars == <<chan, memory, twins, writable, timestamp, faulting, unsent, diffing,
          halfway, applying>>

----------------------------------------------------------------------------
Value == 0 .. MaxValue
Content == [Byte -> Value]

\* A section: some consecutive bytes, and how many the header says they are.
Section == [offset : Byte, length : 0 .. 2 ^ Width - 1, bytes : Seq(Value)]

\* A diff: of each page the sections, if any.  They do not overlap, so that their
\* order does not matter.
Diff == [type : {"DIFF"}, lamport_timestamp : Nat, pages : [Page -> SUBSET Section]]

Twinned(n) == DOMAIN twins[n]

\* The handler puts byte b of the page from the section x.
Covers(x, b) == b \in x.offset .. x.offset + x.length - 1

\* The bytes that it puts from the sections s, and what it puts there.
Put(s) == {b \in Byte : \E x \in s : Covers(x, b)}

NewByte(s, b) ==
  LET x == CHOOSE x \in s : Covers(x, b) IN x.bytes[b - x.offset + 1]

\* The content c with the sections s written into it.
Written(c, s) == [b \in Byte |-> IF b \in Put(s) THEN NewByte(s, b) ELSE c[b]]

Differ(page, twin) == {b \in Byte : page[b] # twin[b]}

\* The bytes from first on differ up to end.
IsRun(page, twin, first, end) ==
  /\ end \in first + 1 .. PageSize
  /\ first .. end - 1 \subseteq Differ(page, twin)
  /\ first - 1 \notin Differ(page, twin) /\ end \notin Differ(page, twin)

\* contiguous_bytes, a uint16_t.
RunLength(first, end) == (end - first) % 2 ^ Width

\* The maximal runs of bytes that differ from the twin.
DifferentRuns(page, twin) ==
  {r \in Byte \X (1 .. PageSize) : IsRun(page, twin, r[1], r[2])}

\* The section for the bytes from first on up to end.
SectionOf(page, first, end) ==
  [offset |-> first, length |-> RunLength(first, end),
   bytes |-> [k \in 1 .. end - first |-> page[first + k - 1]]]

\* The changes of a page.
Changes(page, twin) ==
  {SectionOf(page, r[1], r[2]) : r \in DifferentRuns(page, twin)}

\* f with the new page pg.
With(f, pg, c) == [x \in DOMAIN f \cup {pg} |-> IF x = pg THEN c ELSE f[x]]

NoTwins == [pg \in {} |-> {}]

NoChanges == [pg \in Page |-> {}]

Init ==
  /\ chan      = [p \in Node |-> [n \in Node |-> << >>]]
  /\ memory    = [n \in Node |-> [pg \in Page |-> [b \in Byte |-> 0]]]
  /\ twins     = [n \in Node |-> NoTwins]
  /\ writable  = [n \in Node |-> {}]
  /\ timestamp = [n \in Node |-> 0]
  /\ faulting  = [n \in Node |-> [t \in Thread |-> {}]]
  /\ unsent    = [n \in Node |-> [t \in Thread |-> {}]]
  /\ diffing   = [n \in Node |-> {}]
  /\ halfway   = [n \in Node |-> {}]
  /\ applying  = [n \in Node |-> NoChanges]

\* A thread that is neither in the fault handler nor in tx_end.
Runs(n, t) == faulting[n][t] = {} /\ unsent[n][t] = {}

\* Nobody on the node is in diff_region.
RegionFree(n) == diffing[n] = {}

----------------------------------------------------------------------------
(***************************************************************************)
(* Stores and faults                                                       *)
(***************************************************************************)
Store(n, t, pg, b) ==
  /\ Runs(n, t)
  /\ pg \in writable[n]
  /\ memory[n][pg][b] < MaxValue
  /\ memory' = [memory EXCEPT ![n][pg][b] = @ + 1]
  /\ UNCHANGED <<chan, twins, writable, timestamp, faulting, unsent, diffing,
                 halfway, applying>>

\* SIGSEGV: page_trap_handler calls tx_begin, which waits for region_lock.
Fault(n, t, pg) ==
  /\ Runs(n, t)
  /\ pg \notin writable[n]
  /\ \E b \in Byte : memory[n][pg][b] < MaxValue
  /\ faulting' = [faulting EXCEPT ![n][t] = {pg}]
  /\ UNCHANGED <<chan, memory, twins, writable, timestamp, unsent, diffing,
                 halfway, applying>>

\* A slip of tx_begin: the page is twinned again whatever twin there is.
TwinAnew(n, pg) == With(twins[n], pg, memory[n][pg])

\* The twins after tx_begin: another thread may have been faster.
TwinOnce(n, pg) ==
  IF pg \in Twinned(n) THEN twins[n] ELSE With(twins[n], pg, memory[n][pg])

TxBegin(n, t) ==
  /\ RegionFree(n)
  /\ \E pg \in faulting[n][t] :
       /\ twins' = [twins EXCEPT ![n] = TwinOnce(n, pg)]
       /\ writable' = [writable EXCEPT ![n] = @ \cup {pg}]
  /\ faulting' = [faulting EXCEPT ![n][t] = {}]
  /\ UNCHANGED <<chan, memory, timestamp, unsent, diffing, halfway, applying>>

----------------------------------------------------------------------------
(***************************************************************************)
(* edsm_memory_tx_end(NULL): diff_region, then edsm_dobj_send if there was *)
(* a twin.                                                                 *)
(***************************************************************************)

\* diff_region begins: the lock, the timestamp and, if there is a twin, a diff that
\* tx_end will send.
DiffBegin(n, t) ==
  /\ Runs(n, t) /\ RegionFree(n)
  /\ timestamp[n] < MaxTime
  /\ timestamp' = [timestamp EXCEPT ![n] = @ + 1]
  /\ IF Twinned(n) = {}
     THEN UNCHANGED <<unsent, diffing>>
     ELSE /\ unsent' = [unsent EXCEPT ![n][t] =
               {[type |-> "DIFF", lamport_timestamp |-> timestamp[n] + 1,
                 pages |-> NoChanges]}]
          /\ diffing' = [diffing EXCEPT ![n] = {t}]
  /\ UNCHANGED <<chan, memory, twins, writable, faulting, halfway, applying>>

\* A slip of diff_region: the page stays writable.
KeptWritable(n, pg) == writable[n]

\* The writable pages after the mprotect.
StillWritable(n, pg) == writable[n] \ {pg}

Protect(n, t, pg) ==
  /\ writable' = [writable EXCEPT ![n] = StillWritable(n, pg)]
  /\ UNCHANGED <<twins, unsent>>

Without(f, pg) == [x \in DOMAIN f \ {pg} |-> f[x]]

\* The diff d with the changes of page pg.
WithChanges(d, n, pg) ==
  [d EXCEPT !.pages[pg] = Changes(memory[n][pg], twins[n][pg])]

\* The comparison, after which the twin is gone.  Twins change under the lock only.
Compare(n, t, pg) ==
  /\ unsent' = [unsent EXCEPT ![n][t] = {WithChanges(d, n, pg) : d \in @}]
  /\ twins' = [twins EXCEPT ![n] = Without(@, pg)]
  /\ UNCHANGED writable

\* A slip of diff_region: it protects the page when it has compared it.
ComparesFirst(n, t, pg) ==
  IF halfway[n] = {} THEN Compare(n, t, pg) ELSE Protect(n, t, pg)

\* The two steps at a page.
PageStep(n, t, pg) ==
  IF halfway[n] = {} THEN Protect(n, t, pg) ELSE Compare(n, t, pg)

\* The next twinned page, or the second step at the one it is at.
DiffPage(n, t) ==
  /\ t \in diffing[n]
  /\ \E pg \in Page :
       /\ IF halfway[n] = {} THEN pg \in Twinned(n) ELSE pg \in halfway[n]
       /\ PageStep(n, t, pg)
       /\ halfway' = [halfway EXCEPT ![n] = IF @ = {} THEN {pg} ELSE {}]
  /\ UNCHANGED <<chan, memory, timestamp, faulting, diffing, applying>>

\* No twin is left, and region_lock is given up.
DiffEnd(n, t) ==
  /\ t \in diffing[n]
  /\ halfway[n] = {} /\ Twinned(n) = {}
  /\ diffing' = [diffing EXCEPT ![n] = {}]
  /\ UNCHANGED <<chan, memory, twins, writable, timestamp, faulting, unsent,
                 halfway, applying>>

DiffRegion(n, t) == DiffBegin(n, t) \/ DiffPage(n, t) \/ DiffEnd(n, t)

SendDiff(n, t) ==
  /\ t \notin diffing[n]
  /\ \E d \in unsent[n][t] :
       chan' = [chan EXCEPT ![n] = [p \in Node |-> IF p = n THEN @[p]
                                                   ELSE Append(@[p], d)]]
  /\ unsent' = [unsent EXCEPT ![n][t] = {}]
  /\ UNCHANGED <<memory, twins, writable, timestamp, faulting, diffing, halfway,
                 applying>>

----------------------------------------------------------------------------
(***************************************************************************)
(* edsm_memory_handle_message, in the listener thread of n                 *)
(***************************************************************************)

\* setLamportTimestamp
CaughtUp(n, ts) == IF ts > timestamp[n] THEN ts ELSE timestamp[n]

ReadDiff(n, p) ==
  /\ applying[n] = NoChanges
  /\ chan[p][n] # << >>
  /\ LET d == Head(chan[p][n])
     IN  /\ timestamp' = [timestamp EXCEPT ![n] =
                            CaughtUp(n, d.lamport_timestamp)]
         /\ applying' = [applying EXCEPT ![n] = d.pages]
  /\ chan' = [chan EXCEPT ![p][n] = Tail(@)]
  /\ UNCHANGED <<memory, twins, writable, faulting, unsent, diffing, halfway>>

\* A slip of the handler: the changes do not reach the twin.
TwinsKept(n, pg, s) == twins[n]

\* The changes to a twinned page reach the twin too.
TwinsWith(n, pg, s) ==
  IF pg \in Twinned(n) THEN With(twins[n], pg, Written(twins[n][pg], s))
                       ELSE twins[n]

\* One page: into the page and its twin, or a copy of the page that replaces it
\* and is read-only.  A page without sections is skipped.
ApplyPage(n) ==
  /\ RegionFree(n)
  /\ \E pg \in Page :
       LET s == applying[n][pg]
       IN  /\ s # {}
           /\ applying' = [applying EXCEPT ![n][pg] = {}]
           /\ memory' = [memory EXCEPT ![n][pg] = Written(@, s)]
           /\ twins' = [twins EXCEPT ![n] = TwinsWith(n, pg, s)]
           /\ writable' = IF pg \notin Twinned(n)
                          THEN [writable EXCEPT ![n] = @ \ {pg}]
                          ELSE writable
  /\ UNCHANGED <<chan, timestamp, faulting, unsent, diffing, halfway>>

----------------------------------------------------------------------------
TxEnd(n, t) == DiffRegion(n, t) \/ SendDiff(n, t)

Listen(n) == ApplyPage(n) \/ \E p \in Node : ReadDiff(n, p)

Next ==
  \E n \in Node :
    \/ \E t \in Thread :
         \/ \E pg \in Page, b \in Byte :
              Owner[pg][b] = n /\ (Fault(n, t, pg) \/ Store(n, t, pg, b))
         \/ TxBegin(n, t)
         \/ t \in TxThread /\ TxEnd(n, t)
    \/ Listen(n)

Spec == Init /\ [][Next]_vars

----------------------------------------------------------------------------
(***************************************************************************)
(* Properties                                                              *)
(***************************************************************************)

\* Every variable has its type, and a thread has at most one diff to send.
TypeOK ==
  /\ chan \in [Node -> [Node -> Seq(Diff)]]
  /\ memory \in [Node -> [Page -> Content]]
  /\ DOMAIN twins = Node
  /\ \A n \in Node : Twinned(n) \subseteq Page /\ twins[n] \in [Twinned(n) -> Content]
  /\ writable \in [Node -> SUBSET Page]
  /\ timestamp \in [Node -> Nat]
  /\ faulting \in [Node -> [Thread -> SUBSET Page]]
  /\ unsent \in [Node -> [Thread -> SUBSET Diff]]
  /\ \A n \in Node, t \in Thread : \A d, e \in unsent[n][t] : d = e
  /\ diffing \in [Node -> SUBSET Thread]
  /\ halfway \in [Node -> SUBSET Page]
  /\ applying \in [Node -> [Page -> SUBSET Section]]

\* A page is writable exactly while it has a twin, but for the one that diff_region
\* is at: a store to a page without a twin, or to one that is compared, would be in
\* no diff.
WritableTwinned == \A n \in Node : writable[n] = Twinned(n) \ halfway[n]

\* The diffs from node o, wherever they are.
DiffsOf(o) ==
  UNION ({unsent[o][t] : t \in Thread}
         \cup {{chan[o][n][k] : k \in DOMAIN chan[o][n]} : n \in Node})

\* Whatever is stored and applied concurrently, a node only ever sends bytes that
\* it has written itself: bytes of other nodes in the same page are neither
\* echoed nor overwritten with old values.
OnlyOwnChanges ==
  \A o \in Node : \A d \in DiffsOf(o) : \A pg \in Page :
    \A b \in Put(d.pages[pg]) : Owner[pg][b] = o

\* The handler finds the sections where diff_region has put them: behind each
\* header come as many bytes as it says, and they are inside the page.
DiffsReadable ==
  \A o \in Node : \A d \in DiffsOf(o) : \A pg \in Page :
    \A x \in d.pages[pg] :
      x.length = Len(x.bytes) /\ x.offset + x.length <= PageSize

\* The value of a byte that its owner has published: of the last transaction end.
Published(pg, b) ==
  LET o == Owner[pg][b]
  IN  IF pg \in Twinned(o) THEN twins[o][pg][b] ELSE memory[o][pg][b]

\* The page of n when the diff that is being applied has been.
Applied(n, pg) == Written(memory[n][pg], applying[n][pg])

Brings(d, pg, b) == b \in Put(d.pages[pg])

Brought(d, pg, b) == NewByte(d.pages[pg], b)

\* Byte b of page pg, which is x now, is v after the diffs ds in their order: the
\* last one that brings it brings v.
Settles(ds, pg, b, x, v) ==
  \/ \E k \in DOMAIN ds :
       /\ Brings(ds[k], pg, b) /\ Brought(ds[k], pg, b) = v
       /\ \A j \in DOMAIN ds : j > k => ~ Brings(ds[j], pg, b)
  \/ (\A k \in DOMAIN ds : ~ Brings(ds[k], pg, b)) /\ x = v

\* No published change is lost, and none is overwritten by an older one: when
\* the owner of a byte has no diff left to send, every other node has the value
\* published last, or will have it from the diffs on the way.
NoChangeLost ==
  \A n \in Node, pg \in Page, b \in Byte :
    LET o == Owner[pg][b]
    IN  n # o /\ (\A t \in Thread : unsent[o][t] = {})
        => Settles(chan[o][n], pg, b, Applied(n, pg)[b], Published(pg, b))
============================================================================
