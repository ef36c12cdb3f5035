-------------------------- MODULE MemoryInvariants --------------------------
(***************************************************************************)
(* The inductive invariant behind the theorems of MemoryProofs.            *)
(***************************************************************************)
EXTENDS Memory

\* Behind the header of each section come as many bytes as it says, inside the
\* page.
Readable(s) ==
  \A x \in s : x.length = Len(x.bytes) /\ x.offset + x.length <= PageSize

\* What node o may send: readable, and with bytes of its own only.
OwnDiff(o) ==
  {d \in Diff : \A pg \in Page :
     Readable(d.pages[pg]) /\ \A b \in Put(d.pages[pg]) : Owner[pg][b] = o}

DiffsOwn ==
  /\ \A o, n \in Node : chan[o][n] \in Seq(OwnDiff(o))
  /\ \A o \in Node, t \in Thread : unsent[o][t] \subseteq OwnDiff(o)
  /\ \A n \in Node : chan[n][n] = << >>

\* A byte of another node is the same in a twin and in its page: no difference
\* will ever be found there.
TwinsAgree ==
  \A n \in Node : \A pg \in Twinned(n), b \in Byte :
    Owner[pg][b] # n => twins[n][pg][b] = memory[n][pg][b]

\* What is being applied is readable, and of others.
ApplyingForeign ==
  \A n \in Node, pg \in Page :
    /\ Readable(applying[n][pg])
    /\ \A b \in Put(applying[n][pg]) : Owner[pg][b] # n

\* With the diffs ds to come, byte b of n becomes what its owner has published.
Arrives(ds, n, pg, b) == Settles(ds, pg, b, Applied(n, pg)[b], Published(pg, b))

\* NoChangeLost also while a diff is still to be sent: it will be the last one.
ChangesUnderway ==
  \A n \in Node, pg \in Page, b \in Byte :
    LET o == Owner[pg][b]
    IN  n # o =>
          /\ (\A t \in Thread : unsent[o][t] = {}) => Arrives(chan[o][n], n, pg, b)
          /\ \A t \in Thread : \A d \in unsent[o][t] :
               Arrives(Append(chan[o][n], d), n, pg, b)

\* Only threads that end transactions have diffs to send.
Senders == \A n \in Node, t \in Thread : t \notin TxThread => unsent[n][t] = {}

\* The diff of a thread in diff_region has nothing yet of a page that still has a
\* twin, and the page it is at has one.
DiffsInMaking ==
  \A n \in Node :
    /\ halfway[n] \subseteq Twinned(n)
    /\ \A p, q \in halfway[n] : p = q
    /\ diffing[n] = {} => halfway[n] = {}
    /\ \A t \in diffing[n] :
         /\ unsent[n][t] # {}
         /\ \A d \in unsent[n][t] : \A pg \in Twinned(n) : d.pages[pg] = {}

\* The part that does not depend on who sends when ...
PagesInv ==
  TypeOK /\ WritableTwinned /\ DiffsOwn /\ TwinsAgree /\ ApplyingForeign /\ DiffsInMaking

\* ... and all of it.
MemoryInv == PagesInv /\ Senders /\ ChangesUnderway

\* Nobody else on the node makes a diff between the making and the sending of one.
OneTxThread == \A t, u \in TxThread : t = u

\* A whole page that differs would be too long for the length of a section.
SmallPages == PageSize < 2 ^ Width
============================================================================
