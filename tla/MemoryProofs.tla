---------------------------- MODULE MemoryProofs ----------------------------
(***************************************************************************)
(* Theorems about Memory, for every number of nodes, threads and pages and *)
(* every distribution of the bytes over the nodes.  All of them need       *)
(* SmallPages, because a section that covers a page of 2 ^ Width bytes has *)
(* length 0; that no change is lost needs OneTxThread as well.             *)
(***************************************************************************)
EXTENDS MemoryInvariants, WellFoundedInduction, TLAPS

----------------------------------------------------------------------------
(***************************************************************************)
(* Runs of bytes that differ                                               *)
(***************************************************************************)

\* A set of numbers that is not empty has a least element.
LEMMA LeastNumber ==
  ASSUME NEW T, T \subseteq Nat, T # {}
  PROVE  \E x \in T : \A y \in T : x <= y
<1>1. ASSUME NEW R, IsWellFoundedOn(R, Nat),
             \A x, y \in Nat : <<y, x>> \in R <=> y < x
      PROVE  \E x \in T : \A y \in T : x <= y
  <2>1. PICK x \in T : \A y \in T : ~ (<<y, x>> \in R)
    BY <1>1, WFMin
  <2>2. \A y \in T : ~ (y < x)
    BY <1>1, <2>1
  <2> QED BY <2>2
<1>2. IsWellFoundedOn(OpToRel(<, Nat), Nat)
  BY NatLessThanWellFounded
<1>3. \A x, y \in Nat : <<y, x>> \in OpToRel(<, Nat) <=> y < x
  BY DEF OpToRel
<1> QED BY <1>1, <1>2, <1>3, Zenon

\* And a greatest one if there is a bound.
LEMMA GreatestNumber ==
  ASSUME NEW k \in Nat, NEW T, T \subseteq 0 .. k, T # {}
  PROVE  \E x \in T : \A y \in T : y <= x
<1> DEFINE U == {k - x : x \in T}
<1>1. U \subseteq Nat /\ U # {}
  <2>1. \A x \in T : k - x \in Nat
    OBVIOUS
  <2> QED BY <2>1
<1> HIDE DEF U
<1>2. PICK u \in U : \A y \in U : u <= y
  BY <1>1, LeastNumber
<1>3. PICK x \in T : u = k - x
  BY <1>2 DEF U
<1>4. ASSUME NEW y \in T PROVE y <= x
  <2>1. k - y \in U
    BY DEF U
  <2>2. k - x <= k - y
    BY <1>2, <1>3, <2>1
  <2> QED BY <2>2
<1> QED BY <1>4

\* Every byte that differs is in a maximal run of such bytes.
LEMMA RunAround ==
  ASSUME NEW page, NEW twin, NEW b \in Differ(page, twin)
  PROVE  \E first \in Byte, end \in 1 .. PageSize :
           IsRun(page, twin, first, end) /\ b \in first .. end - 1
<1> DEFINE D == Differ(page, twin)
           Before == {x \in 0 .. b : x .. b \subseteq D}
           After == {y \in 0 .. PageSize : b < y /\ b .. y - 1 \subseteq D}
<1>1. D \subseteq 0 .. PageSize - 1 /\ b \in D /\ PageSize \in Nat \ {0}
  BY PageSizeAssumption DEF Differ, Byte
<1> HIDE DEF D
<1>2. PICK first \in Before : \A x \in Before : first <= x
  <2>1. b \in Before /\ Before \subseteq Nat
    BY <1>1
  <2> QED BY <2>1, LeastNumber
<1>3. PICK end \in After : \A y \in After : y <= end
  <2>1. b + 1 \in After /\ After \subseteq 0 .. PageSize
    BY <1>1
  <2> QED BY <1>1, <2>1, GreatestNumber
<1>4. first - 1 \notin D
  <2> SUFFICES ASSUME first - 1 \in D PROVE FALSE
    OBVIOUS
  <2>1. first - 1 \in Before
    BY <1>1, <1>2
  <2> QED BY <1>1, <1>2, <2>1
<1>5. end \notin D
  <2> SUFFICES ASSUME end \in D PROVE FALSE
    OBVIOUS
  <2>1. end + 1 \in After
    BY <1>1, <1>3
  <2> QED BY <1>1, <1>3, <2>1
<1>6. first .. end - 1 \subseteq D /\ b \in first .. end - 1
  BY <1>1, <1>2, <1>3
<1>7. first \in Byte /\ end \in 1 .. PageSize /\ end \in first + 1 .. PageSize
  BY <1>1, <1>2, <1>3 DEF Byte
<1> QED BY <1>4, <1>5, <1>6, <1>7 DEF IsRun, D

\* With small pages the counter of diff_region holds the length of a run.
LEMMA RunLengthFits ==
  ASSUME SmallPages, NEW first \in Byte, NEW end \in 1 .. PageSize, first < end
  PROVE  RunLength(first, end) = end - first
<1>1. \A W \in Nat : \A m \in Nat : m < W => m % W = m
  OBVIOUS
<1>2. end - first \in Nat /\ end - first < 2 ^ Width /\ 2 ^ Width \in Nat
  BY PageSizeAssumption DEF SmallPages, Byte
<1> QED BY <1>1, <1>2 DEF RunLength

\* diff_region finds exactly the bytes that differ, and writes them as the handler
\* will read them.
LEMMA ChangesProperties ==
  ASSUME SmallPages, NEW page \in Content, NEW twin \in Content
  PROVE  /\ Changes(page, twin) \subseteq Section
         /\ Readable(Changes(page, twin))
         /\ Put(Changes(page, twin)) = Differ(page, twin)
         /\ \A b \in Differ(page, twin) : NewByte(Changes(page, twin), b) = page[b]
<1> DEFINE S == Changes(page, twin)
           Sec(first, end) == SectionOf(page, first, end)
<1>1. PageSize \in Nat \ {0} /\ 2 ^ Width \in Nat /\ PageSize < 2 ^ Width
  BY PageSizeAssumption DEF SmallPages
<1>2. /\ \A x \in S : \E first \in Byte, end \in 1 .. PageSize :
             IsRun(page, twin, first, end) /\ x = Sec(first, end)
      /\ \A first \in Byte, end \in 1 .. PageSize :
             IsRun(page, twin, first, end) => Sec(first, end) \in S
  <2> DEFINE R == DifferentRuns(page, twin)
  <2>1. /\ \A r \in R : /\ r[1] \in Byte /\ r[2] \in 1 .. PageSize
                       /\ IsRun(page, twin, r[1], r[2])
        /\ \A first \in Byte, end \in 1 .. PageSize :
             IsRun(page, twin, first, end) =>
               <<first, end>> \in R /\ <<first, end>>[1] = first
                                    /\ <<first, end>>[2] = end
    BY DEF DifferentRuns
  <2>2. S = {SectionOf(page, r[1], r[2]) : r \in R}
    BY DEF Changes
  <2> HIDE DEF R, S
  <2>3. \A r \in R : SectionOf(page, r[1], r[2]) \in S
    BY <2>2, Zenon
  <2>4. \A x \in S : \E r \in R : x = SectionOf(page, r[1], r[2])
    BY <2>2, Zenon
  <2>5. \A x \in S : \E first \in Byte, end \in 1 .. PageSize :
          IsRun(page, twin, first, end) /\ x = Sec(first, end)
    <3> SUFFICES ASSUME NEW x \in S
                 PROVE  \E first \in Byte, end \in 1 .. PageSize :
                          IsRun(page, twin, first, end) /\ x = Sec(first, end)
      OBVIOUS
    <3>1. PICK r \in R : x = SectionOf(page, r[1], r[2])
      BY <2>4
    <3>2. /\ r[1] \in Byte /\ r[2] \in 1 .. PageSize
          /\ IsRun(page, twin, r[1], r[2])
      BY <2>1
    <3> QED BY <3>1, <3>2
  <2>6. \A first \in Byte, end \in 1 .. PageSize :
          IsRun(page, twin, first, end) => Sec(first, end) \in S
    <3> SUFFICES ASSUME NEW first \in Byte, NEW end \in 1 .. PageSize,
                        IsRun(page, twin, first, end)
                 PROVE  Sec(first, end) \in S
      OBVIOUS
    <3> DEFINE r == <<first, end>>
    <3>1. r \in R /\ r[1] = first /\ r[2] = end
      BY <2>1, Zenon
    <3> HIDE DEF r
    <3> QED BY <2>3, <3>1, Zenon
  <2> QED BY <2>5, <2>6
<1>3. ASSUME NEW first \in Byte, NEW end \in 1 .. PageSize,
             IsRun(page, twin, first, end)
      PROVE  /\ Sec(first, end) \in Section
             /\ Sec(first, end).offset = first
             /\ Sec(first, end).length = end - first
             /\ Sec(first, end).length = Len(Sec(first, end).bytes)
             /\ Sec(first, end).offset + Sec(first, end).length <= PageSize
             /\ first .. end - 1 \subseteq Differ(page, twin)
             /\ \A b \in first .. end - 1 :
                  Sec(first, end).bytes[b - Sec(first, end).offset + 1] = page[b]
  <2>1. /\ first < end /\ first .. end - 1 \subseteq Differ(page, twin)
        /\ first .. end - 1 \subseteq Byte
    BY <1>1, <1>3 DEF IsRun, Byte
  <2>2. RunLength(first, end) = end - first
    BY <2>1, RunLengthFits
  <2>3. /\ end - first \in Nat
        /\ \A k \in 1 .. end - first : first + k - 1 \in Byte
    BY <1>1, <2>1 DEF Byte
  <2>4. [k \in 1 .. end - first |-> page[first + k - 1]] \in Seq(Value)
    BY <2>3 DEF Content
  <2>5. Len([k \in 1 .. end - first |-> page[first + k - 1]]) = end - first
    BY <2>3
  <2>6. end - first \in 0 .. 2 ^ Width - 1
    BY <1>1, <2>3 DEF Byte
  <2> QED BY <1>1, <2>1, <2>2, <2>4, <2>5, <2>6 DEF Section, Byte, SectionOf
<1> HIDE DEF S, Sec
<1>4. S \subseteq Section /\ Readable(S)
  BY <1>2, <1>3 DEF Readable
<1>5. \A x \in S, b \in Byte :
        Covers(x, b) => b \in Differ(page, twin) /\ x.bytes[b - x.offset + 1] = page[b]
  <2> SUFFICES ASSUME NEW x \in S, NEW b \in Byte, Covers(x, b)
               PROVE  b \in Differ(page, twin) /\ x.bytes[b - x.offset + 1] = page[b]
    OBVIOUS
  <2>1. PICK first \in Byte, end \in 1 .. PageSize :
          IsRun(page, twin, first, end) /\ x = Sec(first, end)
    BY <1>2
  <2>2. x.offset = first /\ x.length = end - first
    BY <1>3, <2>1
  <2>3. b \in first .. end - 1
    BY <2>2 DEF Covers
  <2> QED BY <1>3, <2>1, <2>3
<1>6. ASSUME NEW b \in Differ(page, twin)
      PROVE  \E x \in S : Covers(x, b)
  <2>1. PICK first \in Byte, end \in 1 .. PageSize :
          IsRun(page, twin, first, end) /\ b \in first .. end - 1
    BY RunAround
  <2>2. Sec(first, end) \in S
    BY <1>2, <2>1
  <2>3. Sec(first, end).offset = first /\ Sec(first, end).length = end - first
    BY <1>3, <2>1
  <2>4. first + (end - first) - 1 = end - 1
    BY <1>1 DEF Byte
  <2>5. Covers(Sec(first, end), b)
    BY <2>1, <2>3, <2>4 DEF Covers
  <2> QED BY <2>2, <2>5
<1>7. Differ(page, twin) \subseteq Byte
  BY DEF Differ
<1>8. Put(S) = Differ(page, twin)
  BY <1>5, <1>6, <1>7 DEF Put
<1>9. ASSUME NEW b \in Differ(page, twin)
      PROVE  NewByte(S, b) = page[b]
  <2>1. PICK x \in S : x = (CHOOSE y \in S : Covers(y, b)) /\ Covers(x, b)
    BY <1>6
  <2> QED BY <1>5, <1>7, <2>1 DEF NewByte
<1> QED BY <1>4, <1>8, <1>9 DEF S

\* What the handler makes of the twin is the page: the diff of a page is faithful.
THEOREM DiffFaithful ==
  ASSUME SmallPages, NEW page \in Content, NEW twin \in Content
  PROVE  Written(twin, Changes(page, twin)) = page
<1>1. \A b \in Byte : Written(twin, Changes(page, twin))[b] = page[b]
  BY ChangesProperties DEF Written, Differ
<1>2. Written(twin, Changes(page, twin)) = [b \in Byte |-> page[b]]
  BY <1>1 DEF Written
<1> QED BY <1>2 DEF Content

----------------------------------------------------------------------------
(***************************************************************************)
(* The operators of the handler                                            *)
(***************************************************************************)

\* A byte of the page after the handler has written the sections s.
LEMMA WrittenByte ==
  ASSUME NEW c, NEW s, NEW b \in Byte
  PROVE  Written(c, s)[b] = IF b \in Put(s) THEN NewByte(s, b) ELSE c[b]
BY DEF Written

\* A page without sections stays as it is.
LEMMA NothingPut == Put({}) = {}
BY DEF Put

\* What the handler reads from readable sections are values.
LEMMA WrittenType ==
  ASSUME NEW c \in Content, NEW s \in SUBSET Section, Readable(s)
  PROVE  Written(c, s) \in Content
<1>1. ASSUME NEW b \in Put(s)
      PROVE  NewByte(s, b) \in Value
  <2>1. PICK x \in s : x = (CHOOSE y \in s : Covers(y, b)) /\ Covers(x, b)
    BY DEF Put
  <2>2. /\ x.offset \in Nat /\ x.length \in Nat /\ x.bytes \in Seq(Value)
        /\ x.length = Len(x.bytes) /\ b \in Nat
    BY PageSizeAssumption DEF Section, Readable, Byte, Put
  <2>3. b - x.offset + 1 \in 1 .. Len(x.bytes)
    BY <2>1, <2>2 DEF Covers
  <2>4. x.bytes[b - x.offset + 1] \in Value
    BY <2>2, <2>3
  <2> QED BY <2>1, <2>4 DEF NewByte
<1>2. \A b \in Byte : c[b] \in Value
  BY DEF Content
<1> QED BY <1>1, <1>2 DEF Written, Content

\* A diff that is added at the end has the last word.
LEMMA SettlesAppend ==
  ASSUME NEW ds \in Seq(Diff), NEW d \in Diff, NEW pg, NEW b, NEW x, NEW v
  PROVE  Settles(Append(ds, d), pg, b, x, v) <=>
           IF Brings(d, pg, b) THEN Brought(d, pg, b) = v
                               ELSE Settles(ds, pg, b, x, v)
<1> DEFINE es == Append(ds, d)
           m == Len(ds)
<1>1. /\ m \in Nat /\ DOMAIN ds = 1 .. m /\ DOMAIN es = 1 .. m + 1
      /\ es[m + 1] = d /\ \A k \in 1 .. m : es[k] = ds[k]
  OBVIOUS
<1> HIDE DEF es, m
<1>2. CASE Brings(d, pg, b)
  <2>1. \A k \in DOMAIN es : (\A j \in DOMAIN es : j > k => ~ Brings(es[j], pg, b))
                             => k = m + 1
    BY <1>1, <1>2
  <2>2. ~ \A k \in DOMAIN es : ~ Brings(es[k], pg, b)
    BY <1>1, <1>2
  <2>3. Settles(es, pg, b, x, v) <=> Brought(d, pg, b) = v
    BY <1>1, <1>2, <2>1, <2>2 DEF Settles
  <2> QED BY <1>2, <2>3 DEF es
<1>3. CASE ~ Brings(d, pg, b)
  <2>1. \A k \in DOMAIN ds :
          (\A j \in DOMAIN es : j > k => ~ Brings(es[j], pg, b)) <=>
          (\A j \in DOMAIN ds : j > k => ~ Brings(ds[j], pg, b))
    BY <1>1, <1>3
  <2>2. (\A k \in DOMAIN es : ~ Brings(es[k], pg, b)) <=>
        (\A k \in DOMAIN ds : ~ Brings(ds[k], pg, b))
    BY <1>1, <1>3
  <2>3. \A k \in DOMAIN es : Brings(es[k], pg, b) =>
          k \in DOMAIN ds /\ es[k] = ds[k]
    BY <1>1, <1>3
  <2>4. \A k \in DOMAIN ds : k \in DOMAIN es /\ es[k] = ds[k]
    BY <1>1
  <2>5. Settles(es, pg, b, x, v) <=> Settles(ds, pg, b, x, v)
    BY <2>1, <2>2, <2>3, <2>4 DEF Settles
  <2> QED BY <1>3, <2>5 DEF es
<1> QED BY <1>2, <1>3

\* A diff that is taken from the front acts on the value there is.
LEMMA SettlesHead ==
  ASSUME NEW ds \in Seq(Diff), ds # << >>, NEW pg, NEW b, NEW x, NEW v
  PROVE  Settles(ds, pg, b, x, v) <=>
           Settles(Tail(ds), pg, b,
                   IF Brings(Head(ds), pg, b) THEN Brought(Head(ds), pg, b) ELSE x, v)
<1> DEFINE es == Tail(ds)
           m == Len(es)
           y == IF Brings(Head(ds), pg, b) THEN Brought(Head(ds), pg, b) ELSE x
<1>1. /\ m \in Nat /\ DOMAIN es = 1 .. m /\ DOMAIN ds = 1 .. m + 1
      /\ ds[1] = Head(ds) /\ \A k \in 1 .. m : es[k] = ds[k + 1]
  OBVIOUS
<1> HIDE DEF es, m
<1>2. CASE \A k \in DOMAIN es : ~ Brings(es[k], pg, b)
  <2>1. \A k \in 2 .. m + 1 : ~ Brings(ds[k], pg, b)
    <3>1. \A k \in 2 .. m + 1 : k - 1 \in 1 .. m /\ es[k - 1] = ds[k]
      BY <1>1
    <3> QED BY <1>1, <1>2, <3>1
  <2>2. Settles(es, pg, b, y, v) <=> y = v
    BY <1>2 DEF Settles
  <2>3. Settles(ds, pg, b, x, v) <=> y = v
    BY <1>1, <2>1 DEF Settles
  <2> QED BY <2>2, <2>3 DEF es
<1>3. CASE \E k \in DOMAIN es : Brings(es[k], pg, b)
  <2>1. PICK k \in 1 .. m : Brings(ds[k + 1], pg, b)
    BY <1>1, <1>3
  <2>2. \A i \in DOMAIN ds : (\A j \in DOMAIN ds : j > i => ~ Brings(ds[j], pg, b))
                             => i # 1
    <3>1. k + 1 \in DOMAIN ds /\ k + 1 > 1
      BY <1>1
    <3> QED BY <2>1, <3>1
  <2>3. \A i \in 1 .. m :
          (\A j \in DOMAIN ds : j > i + 1 => ~ Brings(ds[j], pg, b)) <=>
          (\A j \in DOMAIN es : j > i => ~ Brings(es[j], pg, b))
    <3> SUFFICES ASSUME NEW i \in 1 .. m
                 PROVE  (\A j \in DOMAIN ds : j > i + 1 => ~ Brings(ds[j], pg, b)) <=>
                        (\A j \in DOMAIN es : j > i => ~ Brings(es[j], pg, b))
      OBVIOUS
    <3>1. ASSUME NEW j \in DOMAIN es, j > i
          PROVE  j + 1 \in DOMAIN ds /\ j + 1 > i + 1 /\ es[j] = ds[j + 1]
      BY <1>1, <3>1
    <3>2. ASSUME NEW j \in DOMAIN ds, j > i + 1
          PROVE  j - 1 \in DOMAIN es /\ j - 1 > i /\ es[j - 1] = ds[j]
      BY <1>1, <3>2
    <3> QED BY <3>1, <3>2
  <2>4. \A i \in 2 .. m + 1 : i - 1 \in 1 .. m /\ (i - 1) + 1 = i /\ es[i - 1] = ds[i]
    BY <1>1
  <2>5. Settles(ds, pg, b, x, v) <=>
          \E i \in 2 .. m + 1 :
            /\ Brings(ds[i], pg, b) /\ Brought(ds[i], pg, b) = v
            /\ \A j \in DOMAIN ds : j > i => ~ Brings(ds[j], pg, b)
    <3>1. \A i \in DOMAIN ds : i # 1 <=> i \in 2 .. m + 1
      BY <1>1
    <3>2. 2 .. m + 1 \subseteq DOMAIN ds
      BY <1>1
    <3>3. ~ \A i \in DOMAIN ds : ~ Brings(ds[i], pg, b)
      BY <1>1, <2>1
    <3> QED BY <2>2, <3>1, <3>2, <3>3 DEF Settles
  <2>6. Settles(es, pg, b, y, v) <=>
          \E i \in 1 .. m :
            /\ Brings(es[i], pg, b) /\ Brought(es[i], pg, b) = v
            /\ \A j \in DOMAIN es : j > i => ~ Brings(es[j], pg, b)
    BY <1>1, <1>3 DEF Settles
  <2>7. \A i \in 1 .. m : i + 1 \in 2 .. m + 1 /\ es[i] = ds[i + 1]
    BY <1>1
  <2> HIDE DEF y
  <2>8. Settles(ds, pg, b, x, v) => Settles(es, pg, b, y, v)
    <3> SUFFICES ASSUME NEW i \in 2 .. m + 1,
                        Brings(ds[i], pg, b), Brought(ds[i], pg, b) = v,
                        \A j \in DOMAIN ds : j > i => ~ Brings(ds[j], pg, b)
                 PROVE  Settles(es, pg, b, y, v)
      BY <2>5
    <3>1. \A j \in DOMAIN es : j > i - 1 => ~ Brings(es[j], pg, b)
      BY <2>3, <2>4
    <3> QED BY <2>4, <2>6, <3>1
  <2>9. Settles(es, pg, b, y, v) => Settles(ds, pg, b, x, v)
    BY <2>3, <2>5, <2>6, <2>7
  <2> QED BY <2>8, <2>9 DEF es, y
<1> QED BY <1>2, <1>3

----------------------------------------------------------------------------
(***************************************************************************)
(* What holds of pages and diffs whoever sends                             *)
(***************************************************************************)

\* A new region has no twins and no changes.
LEMMA PagesInit == Init => PagesInv
<1> SUFFICES ASSUME Init PROVE PagesInv
  OBVIOUS
<1> USE DEF Init
<1>1. \A b \in Byte : 0 \in Value
  BY BoundAssumption DEF Value
<1>2. TypeOK
  BY <1>1 DEF TypeOK, NoTwins, NoChanges, Content, Twinned
<1>3. WritableTwinned /\ TwinsAgree
  BY DEF WritableTwinned, TwinsAgree, Twinned, NoTwins
<1>4. DiffsOwn
  BY DEF DiffsOwn
<1>5. ApplyingForeign
  BY DEF ApplyingForeign, NoChanges, Readable, Put
<1>6. DiffsInMaking
  BY DEF DiffsInMaking, Twinned
<1> QED BY <1>2, <1>3, <1>4, <1>5, <1>6 DEF PagesInv

\* A store only changes a byte of the node in a page with a twin.
LEMMA PagesStore ==
  ASSUME PagesInv, NEW n \in Node, NEW t \in Thread, NEW pg \in Page, NEW b \in Byte,
         Owner[pg][b] = n, Store(n, t, pg, b)
  PROVE  PagesInv'
<1> USE DEF PagesInv, Store
<1>1. TypeOK'
  <2>1. memory[n][pg][b] + 1 \in Value
    BY BoundAssumption DEF TypeOK, Content, Value
  <2>2. memory' \in [Node -> [Page -> Content]]
    BY <2>1 DEF TypeOK, Content
  <2> QED BY <2>2 DEF TypeOK, Twinned
<1>2. TwinsAgree'
  BY DEF TwinsAgree, TypeOK, Twinned, Content
<1>3. WritableTwinned' /\ DiffsOwn' /\ ApplyingForeign' /\ DiffsInMaking'
  BY DEF WritableTwinned, Twinned, DiffsOwn, ApplyingForeign, DiffsInMaking
<1> QED BY <1>1, <1>2, <1>3

\* A fault changes nothing but the thread.
LEMMA PagesFault ==
  ASSUME PagesInv, NEW n \in Node, NEW t \in Thread, NEW pg \in Page, Fault(n, t, pg)
  PROVE  PagesInv'
<1> USE DEF PagesInv, Fault
<1>1. TypeOK'
  BY DEF TypeOK, Twinned
<1>2. /\ TwinsAgree' /\ WritableTwinned' /\ DiffsOwn' /\ ApplyingForeign'
      /\ DiffsInMaking'
  BY DEF TwinsAgree, WritableTwinned, Twinned, DiffsOwn, ApplyingForeign, DiffsInMaking
<1> QED BY <1>1, <1>2

\* The twins of a node after tx_begin.
LEMMA TwinOnceProperties ==
  ASSUME NEW n, NEW pg, twins[n] \in [Twinned(n) -> Content], memory[n][pg] \in Content
  PROVE  /\ DOMAIN TwinOnce(n, pg) = Twinned(n) \cup {pg}
         /\ \A q \in Twinned(n) : TwinOnce(n, pg)[q] = twins[n][q]
         /\ pg \notin Twinned(n) => TwinOnce(n, pg)[pg] = memory[n][pg]
         /\ TwinOnce(n, pg) \in [Twinned(n) \cup {pg} -> Content]
<1>1. twins[n] \in [Twinned(n) -> Content] /\ memory[n][pg] \in Content
  OBVIOUS
<1> DEFINE T == Twinned(n)
           f == twins[n]
<1>2. DOMAIN f = T
  BY DEF Twinned
<1>3. CASE pg \in T
  <2>1. TwinOnce(n, pg) = f /\ T \cup {pg} = T
    BY <1>3 DEF TwinOnce
  <2> HIDE DEF T, f
  <2> QED BY <1>1, <1>2, <1>3, <2>1 DEF T, f
<1>4. CASE pg \notin T
  <2>1. TwinOnce(n, pg) = [x \in T \cup {pg} |-> IF x = pg THEN memory[n][pg] ELSE f[x]]
    BY <1>2, <1>4 DEF TwinOnce, With
  <2> HIDE DEF T, f
  <2> QED BY <1>1, <1>2, <1>4, <2>1 DEF T, f
<1> QED BY <1>3, <1>4

\* tx_begin makes the page writable and sees to its twin.
LEMMA PagesTxBegin ==
  ASSUME PagesInv, NEW n \in Node, NEW t \in Thread, TxBegin(n, t)
  PROVE  PagesInv'
<1> USE DEF PagesInv
<1>1. PICK pg \in faulting[n][t] :
        /\ twins' = [twins EXCEPT ![n] = TwinOnce(n, pg)]
        /\ writable' = [writable EXCEPT ![n] = @ \cup {pg}]
        /\ faulting' = [faulting EXCEPT ![n][t] = {}]
        /\ UNCHANGED <<chan, memory, timestamp, unsent, diffing, halfway, applying>>
  BY DEF TxBegin
<1>2. pg \in Page
  BY DEF TypeOK
<1>3. /\ DOMAIN twins' = Node /\ twins'[n] = TwinOnce(n, pg)
      /\ \A m \in Node : m # n => twins'[m] = twins[m]
  BY <1>1 DEF TypeOK
<1>4. /\ DOMAIN twins'[n] = Twinned(n) \cup {pg}
      /\ \A q \in Twinned(n) : twins'[n][q] = twins[n][q]
      /\ pg \notin Twinned(n) => twins'[n][pg] = memory[n][pg]
      /\ twins'[n] \in [Twinned(n) \cup {pg} -> Content]
  <2>1. twins[n] \in [Twinned(n) -> Content] /\ memory[n][pg] \in Content
    BY <1>2 DEF TypeOK
  <2> QED BY <2>1, <1>3, TwinOnceProperties
<1>5. TypeOK'
  BY <1>1, <1>2, <1>3, <1>4 DEF TypeOK, Twinned
<1>6. diffing[n] = {} /\ halfway[n] = {}
  BY DEF TxBegin, RegionFree, DiffsInMaking
<1>7. WritableTwinned'
  BY <1>1, <1>3, <1>4, <1>6 DEF TypeOK, WritableTwinned, Twinned
<1>8. TwinsAgree'
  BY <1>1, <1>3, <1>4 DEF TwinsAgree, Twinned
<1>9. DiffsOwn' /\ ApplyingForeign'
  BY <1>1 DEF DiffsOwn, ApplyingForeign
<1>10. DiffsInMaking'
  <2> SUFFICES ASSUME NEW m \in Node
               PROVE  /\ halfway[m] \subseteq DOMAIN twins'[m]
                      /\ \A p, q \in halfway[m] : p = q
                      /\ diffing[m] = {} => halfway[m] = {}
                      /\ \A u \in diffing[m] :
                           /\ unsent[m][u] # {}
                           /\ \A d \in unsent[m][u] :
                                \A q \in DOMAIN twins'[m] : d.pages[q] = {}
    BY <1>1 DEF DiffsInMaking, Twinned
  <2>1. CASE m = n
    BY <1>6, <2>1
  <2>2. CASE m # n
    BY <1>3, <2>2 DEF DiffsInMaking, Twinned
  <2> QED BY <2>1, <2>2
<1> QED BY <1>5, <1>7, <1>8, <1>9, <1>10

\* The diff with the changes of one more page may be sent as well.
LEMMA WithChangesOwn ==
  ASSUME SmallPages, PagesInv, NEW n \in Node, NEW pg \in Twinned(n),
         NEW d \in OwnDiff(n)
  PROVE  /\ WithChanges(d, n, pg) \in OwnDiff(n)
         /\ \A q \in Page : WithChanges(d, n, pg).pages[q] =
              IF q = pg THEN Changes(memory[n][pg], twins[n][pg]) ELSE d.pages[q]
<1> USE DEF PagesInv
<1> DEFINE c == Changes(memory[n][pg], twins[n][pg])
<1>1. pg \in Page /\ memory[n][pg] \in Content /\ twins[n][pg] \in Content
  BY DEF TypeOK
<1>2. \A b \in Differ(memory[n][pg], twins[n][pg]) : Owner[pg][b] = n
  BY DEF Differ, TwinsAgree
<1>3. c \subseteq Section /\ Readable(c) /\ \A b \in Put(c) : Owner[pg][b] = n
  BY <1>1, <1>2, ChangesProperties
<1>4. WithChanges(d, n, pg) = [d EXCEPT !.pages[pg] = c]
  BY DEF WithChanges
<1> HIDE DEF c
<1>5. d \in Diff /\ d.pages \in [Page -> SUBSET Section]
  BY DEF OwnDiff, Diff
<1>6. \A q \in Page : WithChanges(d, n, pg).pages[q] = IF q = pg THEN c ELSE d.pages[q]
  BY <1>1, <1>4, <1>5 DEF Diff
<1>7. WithChanges(d, n, pg) \in Diff
  BY <1>1, <1>3, <1>4, <1>5 DEF Diff
<1> QED BY <1>3, <1>6, <1>7 DEF OwnDiff, c

\* The diff that diff_region begins with has nothing.
LEMMA PagesDiffBegin ==
  ASSUME PagesInv, NEW n \in Node, NEW t \in Thread, DiffBegin(n, t)
  PROVE  PagesInv'
<1> USE DEF PagesInv
<1> DEFINE d == [type |-> "DIFF", lamport_timestamp |-> timestamp[n] + 1,
                 pages |-> NoChanges]
<1>1. /\ timestamp' = [timestamp EXCEPT ![n] = @ + 1]
      /\ UNCHANGED <<chan, memory, twins, writable, faulting, halfway, applying>>
      /\ diffing[n] = {} /\ unsent[n][t] = {}
  BY DEF DiffBegin, Runs, RegionFree
<1>2. timestamp' \in [Node -> Nat]
  BY <1>1 DEF TypeOK
<1>3. TwinsAgree' /\ WritableTwinned' /\ ApplyingForeign'
  BY <1>1 DEF TwinsAgree, WritableTwinned, Twinned, ApplyingForeign
<1>4. d \in Diff /\ d.pages = NoChanges /\ \A pg \in Page : d.pages[pg] = {}
  BY DEF Diff, TypeOK, NoChanges
<1>5. d \in OwnDiff(n)
  BY <1>4, NothingPut DEF OwnDiff, Readable
<1>6. CASE Twinned(n) = {}
  <2>1. UNCHANGED <<unsent, diffing>>
    BY <1>6 DEF DiffBegin
  <2>2. TypeOK'
    BY <1>1, <1>2, <2>1 DEF TypeOK, Twinned
  <2>3. DiffsOwn' /\ DiffsInMaking'
    BY <1>1, <2>1 DEF DiffsOwn, DiffsInMaking, Twinned
  <2> QED BY <1>3, <2>2, <2>3
<1>7. CASE Twinned(n) # {}
  <2>1. /\ unsent' = [unsent EXCEPT ![n][t] = {d}]
        /\ diffing' = [diffing EXCEPT ![n] = {t}]
    BY <1>7 DEF DiffBegin
  <2> HIDE DEF d
  <2>2. /\ unsent' \in [Node -> [Thread -> SUBSET Diff]]
        /\ \A m \in Node, u \in Thread :
             unsent'[m][u] = IF m = n /\ u = t THEN {d} ELSE unsent[m][u]
    BY <1>4, <2>1 DEF TypeOK
  <2>3. /\ diffing' \in [Node -> SUBSET Thread]
        /\ \A m \in Node : diffing'[m] = IF m = n THEN {t} ELSE diffing[m]
    BY <2>1 DEF TypeOK
  <2>4. \A m \in Node, u \in Thread : \A c, e \in unsent'[m][u] : c = e
    <3>1. \A m \in Node, u \in Thread : \A c, e \in unsent[m][u] : c = e
      BY DEF TypeOK
    <3> QED BY <2>2, <3>1
  <2>5. TypeOK'
    BY <1>1, <1>2, <2>2, <2>3, <2>4 DEF TypeOK, Twinned
  <2>6. DiffsOwn'
    BY <1>1, <1>5, <2>2 DEF DiffsOwn
  <2>7. DiffsInMaking'
    <3> SUFFICES ASSUME NEW m \in Node
                 PROVE  /\ halfway[m] \subseteq Twinned(m)
                        /\ \A p, q \in halfway[m] : p = q
                        /\ diffing'[m] = {} => halfway[m] = {}
                        /\ \A u \in diffing'[m] :
                             /\ unsent'[m][u] # {}
                             /\ \A e \in unsent'[m][u] :
                                  \A q \in Twinned(m) : e.pages[q] = {}
      BY <1>1 DEF DiffsInMaking, Twinned
    <3>1. \A q \in Twinned(m) : q \in Page
      BY DEF TypeOK
    <3>2. CASE m = n
      <4>1. unsent'[n][t] = {d} /\ diffing'[n] = {t}
        BY <2>2, <2>3
      <4>2. halfway[n] \subseteq Twinned(n) /\ \A p, q \in halfway[n] : p = q
        BY DEF DiffsInMaking
      <4> QED BY <1>4, <3>1, <3>2, <4>1, <4>2
    <3>3. CASE m # n
      <4>1. diffing'[m] = diffing[m] /\ \A u \in diffing[m] : unsent'[m][u] = unsent[m][u]
        BY <2>2, <2>3, <3>3 DEF TypeOK
      <4> QED BY <4>1 DEF DiffsInMaking
    <3> QED BY <3>2, <3>3
  <2> QED BY <1>3, <2>5, <2>6, <2>7
<1> QED BY <1>6, <1>7

\* The page that is protected is halfway.
LEMMA PagesProtect ==
  ASSUME PagesInv, NEW n \in Node, NEW t \in diffing[n], NEW pg \in Twinned(n),
         halfway[n] = {}, Protect(n, t, pg), halfway' = [halfway EXCEPT ![n] = {pg}],
         UNCHANGED <<chan, memory, timestamp, faulting, diffing, applying>>
  PROVE  PagesInv'
<1> USE DEF PagesInv
<1>1. /\ writable' = [writable EXCEPT ![n] = @ \ {pg}]
      /\ UNCHANGED <<twins, unsent>>
  BY DEF Protect, StillWritable
<1>2. pg \in Page
  BY DEF TypeOK
<1>3. /\ writable' \in [Node -> SUBSET Page] /\ halfway' \in [Node -> SUBSET Page]
      /\ \A m \in Node : /\ writable'[m] = IF m = n THEN writable[n] \ {pg}
                                                    ELSE writable[m]
                         /\ halfway'[m] = IF m = n THEN {pg} ELSE halfway[m]
  BY <1>1, <1>2 DEF TypeOK
<1>4. TypeOK'
  BY <1>1, <1>3 DEF TypeOK, Twinned
<1>5. WritableTwinned'
  BY <1>1, <1>3 DEF WritableTwinned, Twinned
<1>6. TwinsAgree' /\ DiffsOwn' /\ ApplyingForeign'
  BY <1>1 DEF TwinsAgree, Twinned, DiffsOwn, ApplyingForeign
<1>7. DiffsInMaking'
  BY <1>1, <1>3 DEF DiffsInMaking, Twinned
<1> QED BY <1>4, <1>5, <1>6, <1>7

\* What the comparison of a page does to twins and diffs.
LEMMA Compared ==
  ASSUME TypeOK, NEW n \in Node, NEW t \in Thread, NEW pg \in Twinned(n),
         Compare(n, t, pg)
  PROVE  /\ DOMAIN twins' = Node
         /\ DOMAIN twins'[n] = Twinned(n) \ {pg}
         /\ \A q \in DOMAIN twins'[n] : twins'[n][q] = twins[n][q]
         /\ twins'[n] \in [DOMAIN twins'[n] -> Content]
         /\ \A m \in Node : m # n => twins'[m] = twins[m]
         /\ unsent'[n][t] = {WithChanges(d, n, pg) : d \in unsent[n][t]}
         /\ \A m \in Node, u \in Thread :
              m # n \/ u # t => unsent'[m][u] = unsent[m][u]
         /\ unsent' = [unsent EXCEPT ![n][t] =
              {WithChanges(d, n, pg) : d \in unsent[n][t]}]
<1> DEFINE ds == {WithChanges(d, n, pg) : d \in unsent[n][t]}
           f == twins[n]
           T == Twinned(n)
<1>1. unsent' = [unsent EXCEPT ![n][t] = ds]
  BY DEF Compare
<1>2. twins' = [twins EXCEPT ![n] = Without(f, pg)]
  BY DEF Compare
<1>3. unsent \in [Node -> [Thread -> SUBSET Diff]] /\ DOMAIN twins = Node
      /\ f \in [T -> Content] /\ DOMAIN f = T
  BY DEF TypeOK, Twinned
<1> HIDE DEF ds, f, T
<1>4. unsent'[n][t] = ds /\ \A m \in Node, u \in Thread :
                              m # n \/ u # t => unsent'[m][u] = unsent[m][u]
  BY <1>1, <1>3
<1>5. Without(f, pg) = [x \in T \ {pg} |-> f[x]]
  BY <1>3 DEF Without
<1>6. /\ DOMAIN twins' = Node /\ twins'[n] = [x \in T \ {pg} |-> f[x]]
      /\ \A m \in Node : m # n => twins'[m] = twins[m]
  BY <1>2, <1>3, <1>5
<1>7. /\ DOMAIN twins'[n] = T \ {pg} /\ \A q \in T \ {pg} : twins'[n][q] = f[q]
      /\ twins'[n] \in [T \ {pg} -> Content]
  BY <1>3, <1>6
<1> QED BY <1>1, <1>4, <1>6, <1>7 DEF ds, f, T

\* The comparison finds bytes of the node only.
LEMMA PagesCompare ==
  ASSUME SmallPages, PagesInv, NEW n \in Node, NEW t \in diffing[n],
         NEW pg \in halfway[n], Compare(n, t, pg),
         halfway' = [halfway EXCEPT ![n] = {}],
         UNCHANGED <<chan, memory, timestamp, faulting, diffing, applying>>
  PROVE  PagesInv'
<1> USE DEF PagesInv
<1>1. t \in Thread /\ pg \in Twinned(n) /\ \A q \in halfway[n] : q = pg
  BY DEF TypeOK, DiffsInMaking
<1>2. writable' = writable
  BY DEF Compare
<1>3. TypeOK
  OBVIOUS
<1>4. /\ DOMAIN twins' = Node
      /\ DOMAIN twins'[n] = Twinned(n) \ {pg}
      /\ \A q \in DOMAIN twins'[n] : twins'[n][q] = twins[n][q]
      /\ twins'[n] \in [DOMAIN twins'[n] -> Content]
      /\ \A m \in Node : m # n => twins'[m] = twins[m]
      /\ unsent'[n][t] = {WithChanges(d, n, pg) : d \in unsent[n][t]}
      /\ \A m \in Node, u \in Thread :
           m # n \/ u # t => unsent'[m][u] = unsent[m][u]
      /\ unsent' = [unsent EXCEPT ![n][t] =
           {WithChanges(d, n, pg) : d \in unsent[n][t]}]
  BY <1>1, <1>3, Compared
<1>5. /\ halfway' \in [Node -> SUBSET Page]
      /\ \A m \in Node : halfway'[m] = IF m = n THEN {} ELSE halfway[m]
  BY DEF TypeOK
<1>6. ASSUME NEW d \in unsent[n][t]
      PROVE  /\ WithChanges(d, n, pg) \in OwnDiff(n)
             /\ WithChanges(d, n, pg) \in Diff
             /\ \A q \in Page : q # pg => WithChanges(d, n, pg).pages[q] = d.pages[q]
  <2>1. d \in OwnDiff(n)
    BY <1>1 DEF DiffsOwn
  <2> QED BY <1>1, <2>1, WithChangesOwn DEF OwnDiff
<1>7. /\ unsent'[n][t] \subseteq OwnDiff(n)
      /\ unsent' \in [Node -> [Thread -> SUBSET Diff]]
  <2> DEFINE ds == {WithChanges(d, n, pg) : d \in unsent[n][t]}
  <2>1. ds \subseteq OwnDiff(n) /\ ds \subseteq Diff
    BY <1>6
  <2>2. unsent' = [unsent EXCEPT ![n][t] = ds] /\ unsent'[n][t] = ds
    BY <1>4
  <2> HIDE DEF ds
  <2> QED BY <1>1, <2>1, <2>2 DEF TypeOK
<1>8. \A m \in Node, u \in Thread : \A c, e \in unsent'[m][u] : c = e
  <2> SUFFICES ASSUME NEW m \in Node, NEW u \in Thread, NEW c \in unsent'[m][u],
                      NEW e \in unsent'[m][u]
               PROVE  c = e
    OBVIOUS
  <2>1. CASE m = n /\ u = t
    <3>1. PICK d \in unsent[n][t] : c = WithChanges(d, n, pg)
      BY <1>4, <2>1
    <3>2. PICK b \in unsent[n][t] : e = WithChanges(b, n, pg)
      BY <1>4, <2>1
    <3>3. d = b
      BY <1>1 DEF TypeOK
    <3> QED BY <3>1, <3>2, <3>3
  <2>2. CASE m # n \/ u # t
    BY <1>4, <2>2 DEF TypeOK
  <2> QED BY <2>1, <2>2
<1>9. TypeOK'
  <2>1. \A m \in Node : /\ DOMAIN twins'[m] \subseteq Page
                        /\ twins'[m] \in [DOMAIN twins'[m] -> Content]
    BY <1>4 DEF TypeOK, Twinned
  <2> QED BY <1>2, <1>4, <1>5, <1>7, <1>8, <2>1 DEF TypeOK, Twinned
<1>10. WritableTwinned'
  BY <1>1, <1>2, <1>4, <1>5 DEF WritableTwinned, Twinned
<1>11. TwinsAgree'
  BY <1>4 DEF TwinsAgree, Twinned
<1>12. DiffsOwn' /\ ApplyingForeign'
  <2>1. \A o \in Node, u \in Thread : unsent'[o][u] \subseteq OwnDiff(o)
    BY <1>4, <1>7 DEF DiffsOwn
  <2> QED BY <2>1 DEF DiffsOwn, ApplyingForeign
<1>13. DiffsInMaking'
  <2> SUFFICES ASSUME NEW m \in Node
               PROVE  /\ halfway'[m] \subseteq DOMAIN twins'[m]
                      /\ \A p, q \in halfway'[m] : p = q
                      /\ diffing[m] = {} => halfway'[m] = {}
                      /\ \A u \in diffing[m] :
                           /\ unsent'[m][u] # {}
                           /\ \A e \in unsent'[m][u] :
                                \A q \in DOMAIN twins'[m] : e.pages[q] = {}
    BY DEF DiffsInMaking, Twinned
  <2>1. CASE m # n
    <3>1. /\ DOMAIN twins'[m] = Twinned(m) /\ halfway'[m] = halfway[m]
          /\ \A u \in diffing[m] : unsent'[m][u] = unsent[m][u]
      BY <1>4, <1>5, <2>1 DEF Twinned, TypeOK
    <3> QED BY <3>1 DEF DiffsInMaking
  <2>2. CASE m = n
    <3>1. halfway'[n] = {}
      BY <1>5
    <3>2. ASSUME NEW u \in diffing[n]
          PROVE  /\ unsent'[n][u] # {}
                 /\ \A e \in unsent'[n][u] :
                      \A q \in DOMAIN twins'[n] : e.pages[q] = {}
      <4>1. CASE u = t
        <5>1. unsent'[n][t] # {}
          <6>1. unsent[n][t] # {}
            BY DEF DiffsInMaking
          <6> QED BY <1>4, <6>1
        <5>2. ASSUME NEW e \in unsent'[n][t], NEW q \in DOMAIN twins'[n]
              PROVE  e.pages[q] = {}
          <6>1. PICK d \in unsent[n][t] : e = WithChanges(d, n, pg)
            BY <1>4
          <6>2. q \in Twinned(n) /\ q # pg /\ q \in Page
            BY <1>4 DEF TypeOK
          <6>3. d.pages[q] = {}
            BY <6>2 DEF DiffsInMaking
          <6> QED BY <1>6, <6>1, <6>2, <6>3
        <5> QED BY <4>1, <5>1, <5>2
      <4>2. CASE u # t
        BY <1>4, <4>2 DEF DiffsInMaking, TypeOK
      <4> QED BY <4>1, <4>2
    <3> QED BY <2>2, <3>1, <3>2
  <2> QED BY <2>1, <2>2
<1> QED BY <1>9, <1>10, <1>11, <1>12, <1>13

\* A page is protected before it is compared.
LEMMA PagesDiffPage ==
  ASSUME SmallPages, PagesInv, NEW n \in Node, NEW t \in Thread, DiffPage(n, t)
  PROVE  PagesInv'
<1>1. /\ t \in diffing[n]
      /\ UNCHANGED <<chan, memory, timestamp, faulting, diffing, applying>>
  BY DEF DiffPage
<1>2. CASE halfway[n] = {}
  <2>1. PICK pg \in Twinned(n) :
          Protect(n, t, pg) /\ halfway' = [halfway EXCEPT ![n] = {pg}]
    BY <1>2 DEF DiffPage, PageStep
  <2> QED BY <1>1, <1>2, <2>1, PagesProtect
<1>3. CASE halfway[n] # {}
  <2>1. PICK pg \in halfway[n] :
          Compare(n, t, pg) /\ halfway' = [halfway EXCEPT ![n] = {}]
    BY <1>3 DEF DiffPage, PageStep
  <2> QED BY <1>1, <2>1, PagesCompare
<1> QED BY <1>2, <1>3

\* At the end of diff_region there is no page halfway.
LEMMA PagesDiffEnd ==
  ASSUME PagesInv, NEW n \in Node, NEW t \in Thread, DiffEnd(n, t)
  PROVE  PagesInv'
<1> USE DEF PagesInv, DiffEnd
<1>1. /\ diffing' \in [Node -> SUBSET Thread]
      /\ \A m \in Node : diffing'[m] = IF m = n THEN {} ELSE diffing[m]
  BY DEF TypeOK
<1>2. TypeOK'
  BY <1>1 DEF TypeOK, Twinned
<1>3. TwinsAgree' /\ WritableTwinned' /\ DiffsOwn' /\ ApplyingForeign'
  BY DEF TwinsAgree, WritableTwinned, Twinned, DiffsOwn, ApplyingForeign
<1>4. DiffsInMaking'
  BY <1>1 DEF DiffsInMaking, Twinned
<1> QED BY <1>2, <1>3, <1>4

\* What is in the connections when the diff d of n has been sent.
LEMMA SentDiff ==
  ASSUME chan \in [Node -> [Node -> Seq(Diff)]], NEW n \in Node, NEW d,
         chan' = [chan EXCEPT ![n] = [p \in Node |-> IF p = n THEN @[p]
                                                     ELSE Append(@[p], d)]]
  PROVE  \A p, q \in Node : chan'[p][q] = IF p = n /\ q # n
                                          THEN Append(chan[p][q], d)
                                          ELSE chan[p][q]
<1>1. chan'[n] = [p \in Node |-> IF p = n THEN chan[n][p] ELSE Append(chan[n][p], d)]
  OBVIOUS
<1>2. \A p \in Node : p # n => chan'[p] = chan[p]
  OBVIOUS
<1> QED BY <1>1, <1>2

\* edsm_dobj_send moves the diff to the connections.
LEMMA PagesSendDiff ==
  ASSUME PagesInv, NEW n \in Node, NEW t \in Thread, SendDiff(n, t)
  PROVE  PagesInv'
<1> USE DEF PagesInv
<1>1. PICK d \in unsent[n][t] :
        /\ chan' = [chan EXCEPT ![n] = [p \in Node |-> IF p = n THEN @[p]
                                                       ELSE Append(@[p], d)]]
        /\ unsent' = [unsent EXCEPT ![n][t] = {}]
        /\ t \notin diffing[n]
        /\ UNCHANGED <<memory, twins, writable, timestamp, faulting, diffing, halfway,
                       applying>>
  BY DEF SendDiff
<1>2. d \in Diff /\ d \in OwnDiff(n)
  BY DEF TypeOK, DiffsOwn
<1>3. \A p, q \in Node : chan'[p][q] = IF p = n /\ q # n
                                       THEN Append(chan[p][q], d)
                                       ELSE chan[p][q]
  <2>1. chan \in [Node -> [Node -> Seq(Diff)]]
    BY DEF TypeOK
  <2>2. chan' = [chan EXCEPT ![n] = [p \in Node |-> IF p = n THEN @[p]
                                                    ELSE Append(@[p], d)]]
    BY <1>1
  <2> QED BY <2>1, <2>2, SentDiff
<1>4. \A p, q \in Node : chan'[p][q] \in Seq(Diff) /\ chan'[p][q] \in Seq(OwnDiff(p))
  <2> SUFFICES ASSUME NEW p \in Node, NEW q \in Node
               PROVE  chan'[p][q] \in Seq(Diff) /\ chan'[p][q] \in Seq(OwnDiff(p))
    OBVIOUS
  <2>1. chan[p][q] \in Seq(Diff) /\ chan[p][q] \in Seq(OwnDiff(p))
    BY DEF TypeOK, DiffsOwn
  <2>2. p = n => /\ Append(chan[p][q], d) \in Seq(Diff)
                 /\ Append(chan[p][q], d) \in Seq(OwnDiff(p))
    BY <1>2, <2>1
  <2> QED BY <1>3, <2>1, <2>2
<1>5. \A m \in Node, u \in Thread : unsent'[m][u] = IF m = n /\ u = t THEN {}
                                                    ELSE unsent[m][u]
  BY <1>1 DEF TypeOK
<1>6. TypeOK'
  <2>1. chan' \in [Node -> [Node -> Seq(Diff)]]
    <3>1. DOMAIN chan' = Node /\ \A p \in Node : DOMAIN chan'[p] = Node
      BY <1>1 DEF TypeOK
    <3>2. \A p \in Node : chan'[p] \in [Node -> Seq(Diff)]
      <4> SUFFICES ASSUME NEW p \in Node PROVE chan'[p] \in [Node -> Seq(Diff)]
        OBVIOUS
      <4>1. CASE p = n
        <5>1. chan'[n] = [q \in Node |-> IF q = n THEN chan[n][q]
                                                 ELSE Append(chan[n][q], d)]
          BY <1>1 DEF TypeOK
        <5> QED BY <1>4, <4>1, <5>1, <1>2 DEF TypeOK
      <4>2. CASE p # n
        BY <1>1, <4>2 DEF TypeOK
      <4> QED BY <4>1, <4>2
    <3> QED BY <1>1, <3>1, <3>2 DEF TypeOK
  <2>2. unsent' \in [Node -> [Thread -> SUBSET Diff]]
    BY <1>1 DEF TypeOK
  <2>3. \A m \in Node, u \in Thread : unsent'[m][u] \subseteq unsent[m][u]
    BY <1>5
  <2>4. \A m \in Node, u \in Thread : \A c, e \in unsent'[m][u] : c = e
    BY <2>3 DEF TypeOK
  <2> QED BY <1>1, <2>1, <2>2, <2>4 DEF TypeOK, Twinned
<1>7. DiffsOwn'
  <2>1. \A m \in Node : chan'[m][m] = << >>
    BY <1>3 DEF DiffsOwn
  <2>2. \A o \in Node, u \in Thread : unsent'[o][u] \subseteq OwnDiff(o)
    BY <1>5 DEF DiffsOwn
  <2> QED BY <1>4, <2>1, <2>2 DEF DiffsOwn
<1>8. WritableTwinned' /\ TwinsAgree' /\ ApplyingForeign'
  BY <1>1 DEF WritableTwinned, TwinsAgree, Twinned, ApplyingForeign
<1>9. DiffsInMaking'
  <2>1. \A m \in Node : \A u \in diffing[m] : unsent'[m][u] = unsent[m][u]
    BY <1>1, <1>5 DEF TypeOK
  <2> QED BY <1>1, <2>1 DEF DiffsInMaking, Twinned
<1> QED BY <1>6, <1>7, <1>8, <1>9

\* The listener takes a diff of somebody else.
LEMMA PagesReadDiff ==
  ASSUME PagesInv, NEW n \in Node, NEW p \in Node, ReadDiff(n, p)
  PROVE  PagesInv'
<1> USE DEF PagesInv
<1> DEFINE d == Head(chan[p][n])
<1>1. /\ timestamp' = [timestamp EXCEPT ![n] = CaughtUp(n, d.lamport_timestamp)]
      /\ applying' = [applying EXCEPT ![n] = d.pages]
      /\ chan' = [chan EXCEPT ![p][n] = Tail(@)]
      /\ UNCHANGED <<memory, twins, writable, faulting, unsent, diffing, halfway>>
      /\ chan[p][n] # << >>
  BY DEF ReadDiff
<1>2. p # n
  BY <1>1 DEF DiffsOwn
<1>3. chan[p][n] \in Seq(Diff) /\ chan[p][n] \in Seq(OwnDiff(p))
  BY DEF TypeOK, DiffsOwn
<1>4. d \in Diff /\ d \in OwnDiff(p)
  BY <1>1, <1>3
<1>5. Tail(chan[p][n]) \in Seq(Diff) /\ Tail(chan[p][n]) \in Seq(OwnDiff(p))
  BY <1>1, <1>3
<1> HIDE DEF d
<1>6. /\ chan' \in [Node -> [Node -> Seq(Diff)]]
      /\ \A o, m \in Node : chan'[o][m] = IF o = p /\ m = n THEN Tail(chan[p][n])
                                                            ELSE chan[o][m]
  BY <1>1, <1>5 DEF TypeOK
<1>7. d.pages \in [Page -> SUBSET Section] /\ d.lamport_timestamp \in Nat
  BY <1>4 DEF Diff
<1>8. TypeOK'
  <2>1. applying' \in [Node -> [Page -> SUBSET Section]]
    BY <1>1, <1>7 DEF TypeOK
  <2>2. timestamp' \in [Node -> Nat]
    BY <1>1, <1>7 DEF TypeOK, CaughtUp
  <2> QED BY <1>1, <1>6, <2>1, <2>2 DEF TypeOK, Twinned
<1>9. DiffsOwn'
  <2>1. \A o, m \in Node : chan'[o][m] \in Seq(OwnDiff(o))
    BY <1>5, <1>6 DEF DiffsOwn
  <2>2. \A m \in Node : chan'[m][m] = << >>
    BY <1>2, <1>6 DEF DiffsOwn
  <2> QED BY <1>1, <2>1, <2>2 DEF DiffsOwn
<1>10. ApplyingForeign'
  <2> SUFFICES ASSUME NEW m \in Node, NEW pg \in Page
               PROVE  /\ Readable(applying'[m][pg])
                      /\ \A b \in Put(applying'[m][pg]) : Owner[pg][b] # m
    BY DEF ApplyingForeign
  <2>1. CASE m = n
    <3>1. applying'[m] = d.pages
      BY <1>1, <2>1 DEF TypeOK
    <3> QED BY <1>2, <1>4, <2>1, <3>1 DEF OwnDiff
  <2>2. CASE m # n
    <3>1. applying'[m] = applying[m]
      BY <1>1, <2>2 DEF TypeOK
    <3> QED BY <3>1 DEF ApplyingForeign
  <2> QED BY <2>1, <2>2
<1>11. WritableTwinned' /\ TwinsAgree' /\ DiffsInMaking'
  BY <1>1 DEF WritableTwinned, TwinsAgree, Twinned, DiffsInMaking
<1> QED BY <1>8, <1>9, <1>10, <1>11

\* The twins of a node when the sections s of page pg have been applied.
LEMMA TwinsWithProperties ==
  ASSUME TypeOK, NEW n \in Node, NEW pg \in Page, NEW s \in SUBSET Section, Readable(s)
  PROVE  /\ DOMAIN TwinsWith(n, pg, s) = Twinned(n)
         /\ TwinsWith(n, pg, s) \in [Twinned(n) -> Content]
         /\ \A q \in Twinned(n) :
              TwinsWith(n, pg, s)[q] = IF q = pg THEN Written(twins[n][pg], s)
                                                 ELSE twins[n][q]
<1>1. twins[n] \in [Twinned(n) -> Content]
  BY DEF TypeOK
<1> DEFINE T == Twinned(n)
           f == twins[n]
<1>2. DOMAIN f = T
  BY DEF Twinned
<1>3. CASE pg \in T
  <2>1. TwinsWith(n, pg, s) = [x \in T \cup {pg} |-> IF x = pg THEN Written(f[pg], s)
                                                              ELSE f[x]]
    BY <1>2, <1>3 DEF TwinsWith, With
  <2>2. f[pg] \in Content
    BY <1>1, <1>3
  <2>3. Written(f[pg], s) \in Content
    BY <2>2, WrittenType
  <2>4. T \cup {pg} = T
    BY <1>3
  <2> HIDE DEF T, f
  <2> QED BY <1>1, <1>2, <1>3, <2>1, <2>3, <2>4 DEF T, f
<1>4. CASE pg \notin T
  <2>1. TwinsWith(n, pg, s) = f
    BY <1>4 DEF TwinsWith
  <2> HIDE DEF T, f
  <2> QED BY <1>1, <1>2, <1>4, <2>1 DEF T, f
<1> QED BY <1>3, <1>4

\* What the application of a page does, by page.
Application(n, pg, s) ==
  /\ s = applying[n][pg]
  /\ applying' = [applying EXCEPT ![n][pg] = {}]
  /\ memory' = [memory EXCEPT ![n][pg] = Written(@, s)]
  /\ twins' = [twins EXCEPT ![n] = TwinsWith(n, pg, s)]
  /\ writable' = IF pg \notin Twinned(n) THEN [writable EXCEPT ![n] = @ \ {pg}]
                                         ELSE writable
  /\ UNCHANGED <<chan, timestamp, faulting, unsent, diffing, halfway>>

\* It touches one page of one node, and its twin in the same way.
LEMMA ApplicationProperties ==
  ASSUME PagesInv, NEW n \in Node, NEW pg \in Page, NEW s, Application(n, pg, s)
  PROVE  /\ s \in SUBSET Section /\ Readable(s) /\ Written(memory[n][pg], s) \in Content
         /\ \A b \in Put(s) : Owner[pg][b] # n
         /\ applying' \in [Node -> [Page -> SUBSET Section]]
         /\ \A m \in Node, q \in Page :
              applying'[m][q] = IF m = n /\ q = pg THEN {} ELSE applying[m][q]
         /\ memory' \in [Node -> [Page -> Content]]
         /\ \A m \in Node, q \in Page :
              memory'[m][q] = IF m = n /\ q = pg THEN Written(memory[n][pg], s)
                                                 ELSE memory[m][q]
         /\ DOMAIN twins' = Node
         /\ \A m \in Node : /\ Twinned(m)' = Twinned(m)
                            /\ twins'[m] \in [Twinned(m) -> Content]
         /\ \A m \in Node : \A q \in Twinned(m) :
              twins'[m][q] = IF m = n /\ q = pg THEN Written(twins[n][pg], s)
                                                ELSE twins[m][q]
<1> USE DEF PagesInv, Application
<1>1. s \in SUBSET Section /\ Readable(s) /\ \A b \in Put(s) : Owner[pg][b] # n
  BY DEF TypeOK, ApplyingForeign
<1>2. memory[n][pg] \in Content
  BY DEF TypeOK
<1>3. Written(memory[n][pg], s) \in Content
  BY <1>1, <1>2, WrittenType
<1>4. /\ applying' \in [Node -> [Page -> SUBSET Section]]
      /\ \A m \in Node, q \in Page :
           applying'[m][q] = IF m = n /\ q = pg THEN {} ELSE applying[m][q]
  BY DEF TypeOK
<1>5. /\ memory' \in [Node -> [Page -> Content]]
      /\ \A m \in Node, q \in Page :
           memory'[m][q] = IF m = n /\ q = pg THEN Written(memory[n][pg], s)
                                              ELSE memory[m][q]
  BY <1>3 DEF TypeOK
<1>6. TypeOK
  OBVIOUS
<1>7. /\ DOMAIN TwinsWith(n, pg, s) = Twinned(n)
      /\ TwinsWith(n, pg, s) \in [Twinned(n) -> Content]
      /\ \A q \in Twinned(n) :
           TwinsWith(n, pg, s)[q] = IF q = pg THEN Written(twins[n][pg], s)
                                              ELSE twins[n][q]
  BY <1>1, <1>6, TwinsWithProperties
<1>8. /\ DOMAIN twins' = Node /\ twins'[n] = TwinsWith(n, pg, s)
      /\ \A m \in Node : m # n => twins'[m] = twins[m]
  BY DEF TypeOK
<1>9. \A m \in Node : twins[m] \in [Twinned(m) -> Content] /\ DOMAIN twins[m] = Twinned(m)
  BY DEF TypeOK, Twinned
<1>10. \A m \in Node : /\ DOMAIN twins'[m] = Twinned(m)
                       /\ twins'[m] \in [Twinned(m) -> Content]
  BY <1>7, <1>8, <1>9
<1>11. \A m \in Node : \A q \in Twinned(m) :
         twins'[m][q] = IF m = n /\ q = pg THEN Written(twins[n][pg], s)
                                           ELSE twins[m][q]
  BY <1>7, <1>8
<1>12. \A m \in Node : Twinned(m)' = DOMAIN twins'[m]
  BY DEF Twinned
<1> HIDE DEF PagesInv, Application
<1> QED BY <1>1, <1>3, <1>4, <1>5, <1>8, <1>10, <1>11, <1>12

\* So pages and twins still differ in bytes of the node only.
LEMMA PagesApplyPage ==
  ASSUME PagesInv, NEW n \in Node, ApplyPage(n)
  PROVE  PagesInv'
<1>1. PICK pg \in Page : Application(n, pg, applying[n][pg])
  BY DEF ApplyPage, Application
<1> DEFINE s == applying[n][pg]
<1>2. /\ s \in SUBSET Section /\ Readable(s) /\ Written(memory[n][pg], s) \in Content
      /\ \A b \in Put(s) : Owner[pg][b] # n
      /\ applying' \in [Node -> [Page -> SUBSET Section]]
      /\ \A m \in Node, q \in Page :
           applying'[m][q] = IF m = n /\ q = pg THEN {} ELSE applying[m][q]
      /\ memory' \in [Node -> [Page -> Content]]
      /\ \A m \in Node, q \in Page :
           memory'[m][q] = IF m = n /\ q = pg THEN Written(memory[n][pg], s)
                                              ELSE memory[m][q]
      /\ DOMAIN twins' = Node
      /\ \A m \in Node : /\ Twinned(m)' = Twinned(m)
                         /\ twins'[m] \in [Twinned(m) -> Content]
      /\ \A m \in Node : \A q \in Twinned(m) :
           twins'[m][q] = IF m = n /\ q = pg THEN Written(twins[n][pg], s)
                                             ELSE twins[m][q]
  BY <1>1, ApplicationProperties
<1>3. /\ writable' = IF pg \notin Twinned(n) THEN [writable EXCEPT ![n] = @ \ {pg}]
                                             ELSE writable
      /\ UNCHANGED <<chan, timestamp, faulting, unsent, diffing, halfway>>
  BY <1>1 DEF Application
<1> HIDE DEF s
<1> USE DEF PagesInv
<1>4. \A m \in Node : writable'[m] = writable[m]
  BY <1>3 DEF TypeOK, WritableTwinned
<1>5. TypeOK'
  <2>1. writable' \in [Node -> SUBSET Page]
    BY <1>3 DEF TypeOK
  <2> QED BY <1>2, <1>3, <2>1 DEF TypeOK
<1>6. WritableTwinned'
  BY <1>2, <1>3, <1>4 DEF WritableTwinned
<1>7. TwinsAgree'
  <2> SUFFICES ASSUME NEW m \in Node, NEW q \in Twinned(m), NEW b \in Byte,
                      Owner[q][b] # m
               PROVE  twins'[m][q][b] = memory'[m][q][b]
    BY <1>2 DEF TwinsAgree
  <2>1. q \in Page /\ twins[m][q][b] = memory[m][q][b]
    BY DEF TypeOK, TwinsAgree
  <2>2. CASE m = n /\ q = pg
    BY <1>2, <2>1, <2>2, WrittenByte
  <2>3. CASE m # n \/ q # pg
    BY <1>2, <2>1, <2>3
  <2> QED BY <2>2, <2>3
<1>8. DiffsOwn'
  BY <1>3 DEF DiffsOwn
<1>9. ApplyingForeign'
  <2> SUFFICES ASSUME NEW m \in Node, NEW q \in Page
               PROVE  /\ Readable(applying'[m][q])
                      /\ \A b \in Put(applying'[m][q]) : Owner[q][b] # m
    BY DEF ApplyingForeign
  <2>1. CASE m = n /\ q = pg
    BY <1>2, <2>1, NothingPut DEF Readable
  <2>2. CASE m # n \/ q # pg
    BY <1>2, <2>2 DEF ApplyingForeign
  <2> QED BY <2>1, <2>2
<1>10. DiffsInMaking'
  BY <1>2, <1>3 DEF DiffsInMaking
<1> QED BY <1>5, <1>6, <1>7, <1>8, <1>9, <1>10

\* Every step keeps PagesInv.
LEMMA PagesStep ==
  ASSUME SmallPages, PagesInv, [Next]_vars
  PROVE  PagesInv'
<1>1. ASSUME NEW n \in Node, NEW t \in Thread, NEW pg \in Page, NEW b \in Byte,
             Owner[pg][b] = n, Fault(n, t, pg) \/ Store(n, t, pg, b)
      PROVE  PagesInv'
  BY <1>1, PagesFault, PagesStore
<1>2. ASSUME NEW n \in Node, NEW t \in Thread, TxBegin(n, t) \/ TxEnd(n, t)
      PROVE  PagesInv'
  BY <1>2, PagesTxBegin, PagesDiffBegin, PagesDiffPage, PagesDiffEnd, PagesSendDiff
     DEF TxEnd, DiffRegion
<1>3. ASSUME NEW n \in Node, Listen(n)
      PROVE  PagesInv'
  BY <1>3, PagesApplyPage, PagesReadDiff DEF Listen
<1>4. CASE UNCHANGED vars
  <2>1. UNCHANGED <<chan, memory, twins, writable, timestamp, faulting, unsent, diffing,
                    halfway, applying>>
    BY <1>4 DEF vars
  <2>2. TypeOK'
    BY <2>1 DEF PagesInv, TypeOK, Twinned
  <2>3. /\ WritableTwinned' /\ DiffsOwn' /\ TwinsAgree' /\ ApplyingForeign'
        /\ DiffsInMaking'
    BY <2>1 DEF PagesInv, WritableTwinned, DiffsOwn, TwinsAgree, ApplyingForeign,
                DiffsInMaking, Twinned
  <2> QED BY <2>2, <2>3 DEF PagesInv
<1> QED BY <1>1, <1>2, <1>3, <1>4 DEF Next

----------------------------------------------------------------------------
(***************************************************************************)
(* No change is lost                                                       *)
(***************************************************************************)

\* At first everything published, which is nothing, has arrived.
LEMMA UnderwayInit == Init => Senders /\ ChangesUnderway
<1> SUFFICES ASSUME Init PROVE Senders /\ ChangesUnderway
  OBVIOUS
<1>1. Senders
  BY DEF Init, Senders
<1>2. ASSUME NEW n \in Node, NEW pg \in Page, NEW b \in Byte
      PROVE  /\ Arrives(<< >>, n, pg, b)
             /\ chan[Owner[pg][b]][n] = << >>
             /\ \A t \in Thread : unsent[Owner[pg][b]][t] = {}
  <2>1. Owner[pg][b] \in Node
    BY OwnerAssumption
  <2>2. Applied(n, pg)[b] = 0
    BY NothingPut, WrittenByte DEF Init, Applied, NoChanges
  <2>3. Published(pg, b) = 0
    BY <2>1 DEF Init, Published, Twinned, NoTwins
  <2>4. Arrives(<< >>, n, pg, b)
    BY <2>2, <2>3 DEF Arrives, Settles
  <2> QED BY <2>1, <2>4 DEF Init
<1>3. ChangesUnderway
  BY <1>2 DEF ChangesUnderway
<1> QED BY <1>1, <1>3

\* Steps that neither make nor move a diff: they need to keep what a node will have
\* and what the owner has published.
LEMMA UnderwayKept ==
  ASSUME ChangesUnderway, chan' = chan, unsent' = unsent,
         \A n \in Node, pg \in Page, b \in Byte :
           n # Owner[pg][b] => /\ Applied(n, pg)'[b] = Applied(n, pg)[b]
                               /\ Published(pg, b)' = Published(pg, b)
  PROVE  ChangesUnderway'
BY DEF ChangesUnderway, Arrives

\* The owner has not published what it stores.
LEMMA UnderwayStore ==
  ASSUME PagesInv, ChangesUnderway,
         NEW n \in Node, NEW t \in Thread, NEW pg \in Page, NEW b \in Byte,
         Owner[pg][b] = n, Store(n, t, pg, b)
  PROVE  ChangesUnderway'
<1>1. /\ UNCHANGED <<chan, twins, unsent, applying>>
      /\ pg \in Twinned(n)
      /\ memory' = [memory EXCEPT ![n][pg][b] = @ + 1]
  BY DEF Store, PagesInv, WritableTwinned
<1>2. \A m \in Node, q \in Page, c \in Byte :
        m # n \/ q # pg \/ c # b => memory'[m][q][c] = memory[m][q][c]
  BY <1>1 DEF PagesInv, TypeOK, Content
<1>3. ASSUME NEW m \in Node, NEW q \in Page, NEW c \in Byte, m # Owner[q][c]
      PROVE  /\ Applied(m, q)'[c] = Applied(m, q)[c]
             /\ Published(q, c)' = Published(q, c)
  <2>1. memory'[m][q][c] = memory[m][q][c]
    BY <1>2, <1>3
  <2>2. Applied(m, q)'[c] = Applied(m, q)[c]
    <3>1. /\ Applied(m, q) = Written(memory[m][q], applying[m][q])
          /\ Applied(m, q)' = Written(memory'[m][q], applying[m][q])
      BY <1>1 DEF Applied
    <3> QED BY <2>1, <3>1, WrittenByte
  <2>3. Published(q, c)' = Published(q, c)
    <3> DEFINE o == Owner[q][c]
    <3>1. o \in Node
      BY OwnerAssumption
    <3>2. q \notin Twinned(o) => memory'[o][q][c] = memory[o][q][c]
      BY <1>1, <1>2, <3>1
    <3>3. /\ Published(q, c) = IF q \in Twinned(o) THEN twins[o][q][c]
                                                  ELSE memory[o][q][c]
          /\ Published(q, c)' = IF q \in Twinned(o) THEN twins[o][q][c]
                                                   ELSE memory'[o][q][c]
      BY <1>1 DEF Published, Twinned
    <3> QED BY <3>2, <3>3
  <2> QED BY <2>2, <2>3
<1> QED BY <1>1, <1>3, UnderwayKept

\* A new twin has what the page had.
LEMMA UnderwayTxBegin ==
  ASSUME PagesInv, ChangesUnderway, NEW n \in Node, NEW t \in Thread, TxBegin(n, t)
  PROVE  ChangesUnderway'
<1>1. PICK pg \in faulting[n][t] :
        /\ twins' = [twins EXCEPT ![n] = TwinOnce(n, pg)]
        /\ UNCHANGED <<chan, memory, unsent, applying>>
  BY DEF TxBegin
<1>2. TypeOK /\ pg \in Page
  BY DEF PagesInv, TypeOK
<1>3. /\ twins'[n] = TwinOnce(n, pg)
      /\ \A m \in Node : m # n => twins'[m] = twins[m]
  BY <1>1, <1>2 DEF TypeOK
<1>4. /\ DOMAIN TwinOnce(n, pg) = Twinned(n) \cup {pg}
      /\ \A q \in Twinned(n) : TwinOnce(n, pg)[q] = twins[n][q]
      /\ pg \notin Twinned(n) => TwinOnce(n, pg)[pg] = memory[n][pg]
  <2>1. twins[n] \in [Twinned(n) -> Content] /\ memory[n][pg] \in Content
    BY <1>2 DEF TypeOK
  <2> QED BY <2>1, TwinOnceProperties
<1>5. ASSUME NEW m \in Node, NEW q \in Page, NEW c \in Byte
      PROVE  /\ Applied(m, q)'[c] = Applied(m, q)[c]
             /\ Published(q, c)' = Published(q, c)
  <2>1. Applied(m, q)' = Applied(m, q)
    BY <1>1 DEF Applied
  <2>2. Published(q, c)' = Published(q, c)
    <3> DEFINE o == Owner[q][c]
    <3>1. o \in Node
      BY OwnerAssumption
    <3>2. /\ Published(q, c) = IF q \in DOMAIN twins[o] THEN twins[o][q][c]
                                                      ELSE memory[o][q][c]
          /\ Published(q, c)' = IF q \in DOMAIN twins'[o] THEN twins'[o][q][c]
                                                        ELSE memory[o][q][c]
      BY <1>1 DEF Published, Twinned
    <3>3. CASE o = n
      BY <1>3, <1>4, <3>2, <3>3 DEF Twinned
    <3>4. CASE o # n
      BY <1>3, <3>1, <3>2, <3>4
    <3> QED BY <3>3, <3>4
  <2> QED BY <2>1, <2>2
<1> QED BY <1>1, <1>5, UnderwayKept

\* The bytes that arrive are not those of the node that applies them.
LEMMA UnderwayApplyPage ==
  ASSUME PagesInv, ChangesUnderway, NEW n \in Node, ApplyPage(n)
  PROVE  ChangesUnderway'
<1>1. PICK pg \in Page : Application(n, pg, applying[n][pg])
  BY DEF ApplyPage, Application
<1> DEFINE s == applying[n][pg]
<1>2. /\ \A b \in Put(s) : Owner[pg][b] # n
      /\ \A m \in Node, q \in Page :
           applying'[m][q] = IF m = n /\ q = pg THEN {} ELSE applying[m][q]
      /\ \A m \in Node, q \in Page :
           memory'[m][q] = IF m = n /\ q = pg THEN Written(memory[n][pg], s)
                                              ELSE memory[m][q]
      /\ \A m \in Node : Twinned(m)' = Twinned(m)
      /\ \A m \in Node : \A q \in Twinned(m) :
           twins'[m][q] = IF m = n /\ q = pg THEN Written(twins[n][pg], s)
                                             ELSE twins[m][q]
  BY <1>1, ApplicationProperties
<1>3. chan' = chan /\ unsent' = unsent
  BY <1>1 DEF Application
<1>4. ASSUME NEW m \in Node, NEW q \in Page, NEW c \in Byte
      PROVE  Applied(m, q)'[c] = Applied(m, q)[c]
  <2>1. CASE m = n /\ q = pg
    <3>1. Applied(m, q)' = Written(Written(memory[n][pg], s), {})
      BY <1>2, <2>1 DEF Applied
    <3>2. Written(Written(memory[n][pg], s), {})[c] = Written(memory[n][pg], s)[c]
      BY NothingPut, WrittenByte
    <3> QED BY <2>1, <3>1, <3>2 DEF Applied
  <2>2. CASE m # n \/ q # pg
    BY <1>2, <2>2 DEF Applied
  <2> QED BY <2>1, <2>2
<1>5. ASSUME NEW q \in Page, NEW c \in Byte
      PROVE  Published(q, c)' = Published(q, c)
  <2>1. Owner[q][c] \in Node
    BY OwnerAssumption
  <2>2. CASE Owner[q][c] = n /\ q = pg
    <3>1. c \notin Put(s)
      BY <1>2, <2>2
    <3>2. \A content : Written(content, s)[c] = content[c]
      BY <3>1, WrittenByte
    <3>3. CASE pg \in Twinned(n)
      <4>1. Published(q, c) = twins[n][pg][c] /\ Published(q, c)' = twins'[n][pg][c]
        BY <1>2, <2>2, <3>3 DEF Published
      <4> QED BY <1>2, <3>2, <3>3, <4>1
    <3>4. CASE pg \notin Twinned(n)
      <4>1. Published(q, c) = memory[n][pg][c] /\ Published(q, c)' = memory'[n][pg][c]
        BY <1>2, <2>2, <3>4 DEF Published
      <4> QED BY <1>2, <3>2, <4>1
    <3> QED BY <3>3, <3>4
  <2>3. CASE Owner[q][c] # n \/ q # pg
    BY <1>2, <2>1, <2>3 DEF Published
  <2> QED BY <2>2, <2>3
<1> QED BY <1>3, <1>4, <1>5, UnderwayKept

\* Only one thread of a node can have a diff to send.
LEMMA OneSender ==
  ASSUME OneTxThread, Senders, NEW n \in Node, NEW t \in TxThread,
         unsent[n][t] = {}
  PROVE  \A u \in Thread : unsent[n][u] = {}
BY DEF OneTxThread, Senders

\* The diff that diff_region begins with brings nothing.
LEMMA UnderwayDiffBegin ==
  ASSUME OneTxThread, PagesInv, Senders, ChangesUnderway,
         NEW n \in Node, NEW t \in TxThread, DiffBegin(n, t)
  PROVE  ChangesUnderway'
<1> DEFINE d == [type |-> "DIFF", lamport_timestamp |-> timestamp[n] + 1,
                 pages |-> NoChanges]
<1>1. UNCHANGED <<chan, memory, twins, applying>> /\ unsent[n][t] = {}
  BY DEF DiffBegin, Runs
<1>2. TypeOK /\ t \in Thread
  BY ThreadAssumption DEF PagesInv
<1>3. \A u \in Thread : unsent[n][u] = {}
  BY <1>1, OneSender
<1>4. \A m \in Node, u \in Thread :
        \/ unsent'[m][u] = unsent[m][u]
        \/ m = n /\ u = t /\ unsent'[m][u] = {d}
  <2>1. unsent' = unsent \/ unsent' = [unsent EXCEPT ![n][t] = {d}]
    BY DEF DiffBegin
  <2> HIDE DEF d
  <2> QED BY <1>2, <2>1 DEF TypeOK
<1>5. d \in Diff /\ \A q \in Page, b \in Byte : ~ Brings(d, q, b)
  BY <1>2, NothingPut DEF Diff, NoChanges, Brings, TypeOK
<1> HIDE DEF d
<1> SUFFICES ASSUME NEW m \in Node, NEW q \in Page, NEW b \in Byte, m # Owner[q][b]
             PROVE  LET o == Owner[q][b]
                    IN  /\ (\A u \in Thread : unsent'[o][u] = {}) =>
                             Settles(chan[o][m], q, b,
                                     Applied(m, q)'[b], Published(q, b)')
                        /\ \A u \in Thread : \A e \in unsent'[o][u] :
                             Settles(Append(chan[o][m], e), q, b,
                                     Applied(m, q)'[b], Published(q, b)')
  BY <1>1 DEF ChangesUnderway, Arrives
<1> DEFINE o == Owner[q][b]
           x == Applied(m, q)[b]
           v == Published(q, b)
<1>6. o \in Node
  BY OwnerAssumption
<1>7. Applied(m, q)' = Applied(m, q) /\ Published(q, b)' = v
  BY <1>1 DEF Applied, Published, Twinned
<1>8. /\ (\A u \in Thread : unsent[o][u] = {}) => Settles(chan[o][m], q, b, x, v)
      /\ \A u \in Thread : \A e \in unsent[o][u] :
           Settles(Append(chan[o][m], e), q, b, x, v)
  BY DEF ChangesUnderway, Arrives
<1>9. chan[o][m] \in Seq(Diff)
  BY <1>2, <1>6 DEF TypeOK
<1> HIDE DEF x, v
<1>10. CASE o # n
  <2>1. \A u \in Thread : unsent'[o][u] = unsent[o][u]
    BY <1>4, <1>6, <1>10
  <2> QED BY <1>7, <1>8, <2>1 DEF x
<1>11. CASE o = n
  <2>1. Settles(chan[o][m], q, b, x, v)
    BY <1>3, <1>8, <1>11
  <2>2. Settles(Append(chan[o][m], d), q, b, x, v)
    BY <1>5, <1>9, <2>1, SettlesAppend
  <2>3. \A u \in Thread : \A e \in unsent'[o][u] : e = d
    BY <1>3, <1>4, <1>11
  <2> QED BY <1>7, <2>1, <2>2, <2>3 DEF x
<1> QED BY <1>10, <1>11

\* With the changes of a page the diff brings every byte that is published then.
LEMMA UnderwayCompare ==
  ASSUME SmallPages, OneTxThread, PagesInv, Senders, ChangesUnderway,
         NEW n \in Node, NEW t \in TxThread, t \in diffing[n],
         NEW pg \in halfway[n], Compare(n, t, pg),
         UNCHANGED <<chan, memory, applying>>
  PROVE  ChangesUnderway'
<1>1. TypeOK /\ t \in Thread /\ pg \in Twinned(n) /\ pg \in Page
  BY ThreadAssumption DEF PagesInv, DiffsInMaking, TypeOK
<1>2. /\ DOMAIN twins'[n] = Twinned(n) \ {pg}
      /\ \A q \in DOMAIN twins'[n] : twins'[n][q] = twins[n][q]
      /\ \A m \in Node : m # n => twins'[m] = twins[m]
      /\ unsent'[n][t] = {WithChanges(d, n, pg) : d \in unsent[n][t]}
      /\ \A m \in Node, u \in Thread :
           m # n \/ u # t => unsent'[m][u] = unsent[m][u]
  BY <1>1, Compared
<1>3. PICK d \in unsent[n][t] : unsent[n][t] = {d}
  <2>1. unsent[n][t] # {}
    BY DEF PagesInv, DiffsInMaking
  <2>2. \A c, e \in unsent[n][t] : c = e
    BY <1>1 DEF TypeOK
  <2> QED BY <2>1, <2>2
<1> DEFINE e == WithChanges(d, n, pg)
<1>4. /\ unsent'[n][t] = {e}
      /\ \A u \in Thread : u # t => unsent'[n][u] = {}
  BY <1>1, <1>2, <1>3 DEF OneTxThread, Senders
<1>5. d \in OwnDiff(n) /\ d \in Diff /\ d.pages[pg] = {}
  BY <1>1 DEF PagesInv, DiffsOwn, DiffsInMaking, OwnDiff
<1>6. /\ e \in Diff
      /\ \A q \in Page : e.pages[q] = IF q = pg
                                      THEN Changes(memory[n][pg], twins[n][pg])
                                      ELSE d.pages[q]
  BY <1>1, <1>5, WithChangesOwn DEF OwnDiff
<1> HIDE DEF e
<1> SUFFICES ASSUME NEW m \in Node, NEW q \in Page, NEW b \in Byte, m # Owner[q][b]
             PROVE  LET o == Owner[q][b]
                    IN  /\ (\A u \in Thread : unsent'[o][u] = {}) =>
                             Settles(chan[o][m], q, b,
                                     Applied(m, q)'[b], Published(q, b)')
                        /\ \A u \in Thread : \A c \in unsent'[o][u] :
                             Settles(Append(chan[o][m], c), q, b,
                                     Applied(m, q)'[b], Published(q, b)')
  BY DEF ChangesUnderway, Arrives
<1> DEFINE o == Owner[q][b]
           x == Applied(m, q)[b]
<1>7. o \in Node
  BY OwnerAssumption
<1>8. Applied(m, q)' = Applied(m, q)
  BY DEF Applied
<1>9. CASE o # n
  <2>1. Published(q, b)' = Published(q, b)
    BY <1>2, <1>7, <1>9 DEF Published, Twinned
  <2>2. \A u \in Thread : unsent'[o][u] = unsent[o][u]
    BY <1>2, <1>7, <1>9
  <2> QED BY <1>8, <2>1, <2>2 DEF ChangesUnderway, Arrives
<1>10. CASE o = n
  <2>1. Settles(Append(chan[n][m], d), q, b, x, Published(q, b))
    BY <1>1, <1>10 DEF ChangesUnderway, Arrives
  <2>2. chan[n][m] \in Seq(Diff)
    BY <1>1 DEF TypeOK
  <2>3. CASE q # pg
    <3>1. Published(q, b)' = Published(q, b)
      BY <1>2, <1>10, <2>3 DEF Published, Twinned
    <3>2. Brings(e, q, b) <=> Brings(d, q, b)
      BY <1>6, <2>3 DEF Brings
    <3>3. Brought(e, q, b) = Brought(d, q, b)
      BY <1>6, <2>3 DEF Brought
    <3> HIDE DEF x
    <3>4. Settles(Append(chan[n][m], e), q, b, x, Published(q, b))
      BY <1>5, <1>6, <2>1, <2>2, <3>2, <3>3, SettlesAppend
    <3> QED BY <1>1, <1>4, <1>8, <1>10, <3>1, <3>4 DEF x
  <2>4. CASE q = pg
    <3>1. Published(q, b)' = memory[n][q][b] /\ Published(q, b) = twins[n][q][b]
      BY <1>1, <1>2, <1>10, <2>4 DEF Published, Twinned
    <3>2. memory[n][q] \in Content /\ twins[n][q] \in Content
      BY <1>1, <2>4 DEF TypeOK
    <3>3. e.pages[q] = Changes(memory[n][q], twins[n][q])
      BY <1>6, <2>4
    <3>4. IF Brings(e, q, b) THEN Brought(e, q, b) = memory[n][q][b]
                             ELSE twins[n][q][b] = memory[n][q][b]
      BY <3>2, <3>3, ChangesProperties DEF Brings, Brought, Differ
    <3>5. ~ Brings(d, q, b)
      BY <1>5, <2>4, NothingPut DEF Brings
    <3> HIDE DEF x
    <3>6. Settles(chan[n][m], q, b, x, twins[n][q][b])
      BY <1>5, <2>1, <2>2, <3>1, <3>5, SettlesAppend
    <3>7. Settles(Append(chan[n][m], e), q, b, x, memory[n][q][b])
      BY <1>6, <2>2, <3>4, <3>6, SettlesAppend
    <3> QED BY <1>1, <1>4, <1>8, <1>10, <3>1, <3>7 DEF x
  <2> QED BY <2>3, <2>4
<1> QED BY <1>9, <1>10

\* The protection of a page changes nothing that is published.
LEMMA UnderwayDiffPage ==
  ASSUME SmallPages, OneTxThread, PagesInv, Senders, ChangesUnderway,
         NEW n \in Node, NEW t \in TxThread, DiffPage(n, t)
  PROVE  ChangesUnderway'
<1>1. t \in diffing[n] /\ UNCHANGED <<chan, memory, applying>>
  BY DEF DiffPage
<1>2. CASE halfway[n] = {}
  <2>1. UNCHANGED <<twins, unsent>>
    BY <1>2 DEF DiffPage, PageStep, Protect
  <2> QED BY <1>1, <2>1, UnderwayKept DEF Applied, Published, Twinned
<1>3. CASE halfway[n] # {}
  <2>1. PICK pg \in halfway[n] : Compare(n, t, pg)
    BY <1>3 DEF DiffPage, PageStep
  <2> QED BY <1>1, <2>1, UnderwayCompare
<1> QED BY <1>2, <1>3

\* Nor does the end of diff_region.
LEMMA UnderwayDiffEnd ==
  ASSUME ChangesUnderway, NEW n \in Node, NEW t \in Thread, DiffEnd(n, t)
  PROVE  ChangesUnderway'
BY UnderwayKept DEF DiffEnd, Applied, Published, Twinned

\* Nothing can overtake the diff on its way to the connections.
LEMMA UnderwaySendDiff ==
  ASSUME OneTxThread, PagesInv, Senders, ChangesUnderway,
         NEW n \in Node, NEW t \in TxThread, SendDiff(n, t)
  PROVE  ChangesUnderway'
<1>1. PICK d \in unsent[n][t] :
        /\ chan' = [chan EXCEPT ![n] = [p \in Node |-> IF p = n THEN @[p]
                                                       ELSE Append(@[p], d)]]
        /\ unsent' = [unsent EXCEPT ![n][t] = {}]
        /\ UNCHANGED <<memory, twins, applying>>
  BY DEF SendDiff
<1>2. TypeOK /\ t \in Thread
  BY ThreadAssumption DEF PagesInv
<1>3. \A p, q \in Node : chan'[p][q] = IF p = n /\ q # n
                                       THEN Append(chan[p][q], d)
                                       ELSE chan[p][q]
  <2>1. chan' = [chan EXCEPT ![n] = [p \in Node |-> IF p = n THEN @[p]
                                                    ELSE Append(@[p], d)]]
    BY <1>1
  <2>2. chan \in [Node -> [Node -> Seq(Diff)]]
    BY <1>2 DEF TypeOK
  <2> QED BY <2>1, <2>2, SentDiff
<1>4. \A m \in Node, u \in Thread : unsent'[m][u] = IF m = n /\ u = t THEN {}
                                                    ELSE unsent[m][u]
  BY <1>1, <1>2 DEF TypeOK
<1>5. \A u \in Thread : unsent'[n][u] = {}
  BY <1>2, <1>4 DEF OneTxThread, Senders
<1> SUFFICES ASSUME NEW m \in Node, NEW q \in Page, NEW b \in Byte, m # Owner[q][b]
             PROVE  LET o == Owner[q][b]
                    IN  /\ (\A u \in Thread : unsent'[o][u] = {}) =>
                             Settles(chan'[o][m], q, b,
                                     Applied(m, q)'[b], Published(q, b)')
                        /\ \A u \in Thread : \A e \in unsent'[o][u] :
                             Settles(Append(chan'[o][m], e), q, b,
                                     Applied(m, q)'[b], Published(q, b)')
  BY DEF ChangesUnderway, Arrives
<1> DEFINE o == Owner[q][b]
<1>6. o \in Node
  BY OwnerAssumption
<1>7. Applied(m, q)' = Applied(m, q) /\ Published(q, b)' = Published(q, b)
  BY <1>1 DEF Applied, Published, Twinned
<1>8. CASE o # n
  <2>1. chan'[o][m] = chan[o][m] /\ \A u \in Thread : unsent'[o][u] = unsent[o][u]
    BY <1>3, <1>4, <1>6, <1>8
  <2> QED BY <1>7, <2>1 DEF ChangesUnderway, Arrives
<1>9. CASE o = n
  <2>1. chan'[n][m] = Append(chan[n][m], d)
    BY <1>3, <1>9
  <2>2. Settles(Append(chan[n][m], d), q, b, Applied(m, q)[b], Published(q, b))
    BY <1>1, <1>2, <1>9 DEF ChangesUnderway, Arrives
  <2> QED BY <1>5, <1>7, <1>9, <2>1, <2>2
<1> QED BY <1>8, <1>9

\* A diff acts when it is applied as it would have at the head of the connection.
LEMMA UnderwayReadDiff ==
  ASSUME PagesInv, ChangesUnderway, NEW n \in Node, NEW p \in Node, ReadDiff(n, p)
  PROVE  ChangesUnderway'
<1> DEFINE d == Head(chan[p][n])
<1>1. /\ applying[n] = NoChanges /\ chan[p][n] # << >>
      /\ applying' = [applying EXCEPT ![n] = d.pages]
      /\ chan' = [chan EXCEPT ![p][n] = Tail(@)]
      /\ UNCHANGED <<memory, twins, unsent>>
  BY DEF ReadDiff
<1>2. TypeOK
  BY DEF PagesInv
<1>3. chan[p][n] \in Seq(Diff) /\ d \in Diff /\ d \in OwnDiff(p)
  BY <1>1, <1>2 DEF PagesInv, TypeOK, DiffsOwn
<1>4. \A o, m \in Node : chan'[o][m] = IF o = p /\ m = n THEN Tail(chan[p][n])
                                                         ELSE chan[o][m]
  BY <1>1, <1>2 DEF TypeOK
<1>5. applying'[n] = d.pages /\ \A m \in Node : m # n => applying'[m] = applying[m]
  BY <1>1, <1>2 DEF TypeOK
<1> SUFFICES ASSUME NEW m \in Node, NEW q \in Page, NEW b \in Byte, m # Owner[q][b]
             PROVE  LET o == Owner[q][b]
                    IN  /\ (\A u \in Thread : unsent[o][u] = {}) =>
                             Settles(chan'[o][m], q, b,
                                     Applied(m, q)'[b], Published(q, b)')
                        /\ \A u \in Thread : \A e \in unsent[o][u] :
                             Settles(Append(chan'[o][m], e), q, b,
                                     Applied(m, q)'[b], Published(q, b)')
  BY <1>1 DEF ChangesUnderway, Arrives
<1> DEFINE o == Owner[q][b]
           x == Applied(m, q)[b]
           v == Published(q, b)
<1>6. o \in Node
  BY OwnerAssumption
<1>7. Published(q, b)' = v
  BY <1>1 DEF Published, Twinned
<1>8. /\ (\A u \in Thread : unsent[o][u] = {}) => Settles(chan[o][m], q, b, x, v)
      /\ \A u \in Thread : \A e \in unsent[o][u] :
           Settles(Append(chan[o][m], e), q, b, x, v)
  BY DEF ChangesUnderway, Arrives
<1>9. m = n => Applied(m, q)'[b] = IF Brings(d, q, b) THEN Brought(d, q, b) ELSE x
  <2> SUFFICES ASSUME m = n
               PROVE  Applied(m, q)'[b] = IF Brings(d, q, b) THEN Brought(d, q, b) ELSE x
    OBVIOUS
  <2>1. Applied(m, q) = Written(memory[n][q], {})
    BY <1>1 DEF Applied, NoChanges
  <2>2. Applied(m, q)' = Written(memory[n][q], d.pages[q])
    BY <1>1, <1>5 DEF Applied
  <2>3. x = memory[n][q][b]
    BY <2>1, NothingPut, WrittenByte
  <2> QED BY <2>2, <2>3, WrittenByte DEF Brings, Brought
<1>10. CASE m = n /\ o = p
  <2>1. chan'[o][m] = Tail(chan[p][n])
    BY <1>4, <1>10
  <2> DEFINE y == Applied(m, q)'[b]
             w == chan[p][n]
  <2>2. y = IF Brings(Head(w), q, b) THEN Brought(Head(w), q, b) ELSE x
    BY <1>9, <1>10
  <2>3. w \in Seq(Diff) /\ w # << >> /\ Tail(w) \in Seq(Diff)
    BY <1>1, <1>3
  <2> HIDE DEF y, w, x, v
  <2>4. Settles(w, q, b, x, v) <=> Settles(Tail(w), q, b, y, v)
    BY <2>2, <2>3, SettlesHead
  <2>5. ASSUME NEW e \in Diff
        PROVE  Settles(Append(w, e), q, b, x, v) <=>
                 Settles(Append(Tail(w), e), q, b, y, v)
    <3>1. Settles(Append(w, e), q, b, x, v) <=>
            IF Brings(e, q, b) THEN Brought(e, q, b) = v ELSE Settles(w, q, b, x, v)
      BY <2>3, SettlesAppend
    <3>2. Settles(Append(Tail(w), e), q, b, y, v) <=>
            IF Brings(e, q, b) THEN Brought(e, q, b) = v
                               ELSE Settles(Tail(w), q, b, y, v)
      BY <2>3, SettlesAppend
    <3> QED BY <2>4, <3>1, <3>2
  <2>6. \A u \in Thread : \A e \in unsent[o][u] : e \in Diff
    BY <1>2, <1>6 DEF TypeOK
  <2> QED BY <1>7, <1>8, <1>10, <2>1, <2>4, <2>5, <2>6 DEF y, w
<1>11. CASE m = n /\ o # p
  <2>1. ~ Brings(d, q, b)
    BY <1>3, <1>11 DEF OwnDiff, Brings
  <2>2. Applied(m, q)'[b] = x /\ chan'[o][m] = chan[o][m]
    BY <1>4, <1>6, <1>9, <1>11, <2>1
  <2> QED BY <1>7, <1>8, <2>2
<1>12. CASE m # n
  <2>1. Applied(m, q)' = Applied(m, q) /\ chan'[o][m] = chan[o][m]
    BY <1>1, <1>4, <1>5, <1>6, <1>12 DEF Applied
  <2> QED BY <1>7, <1>8, <2>1
<1> QED BY <1>10, <1>11, <1>12

\* Only threads in TxThread make diffs.
LEMMA SendersStep ==
  ASSUME PagesInv, Senders, [Next]_vars
  PROVE  Senders'
<1>1. ASSUME NEW n \in Node, NEW t \in TxThread, DiffRegion(n, t) \/ SendDiff(n, t)
      PROVE  \A m \in Node, u \in Thread : u # t => unsent'[m][u] = unsent[m][u]
  <2>1. unsent' = unsent \/ \E s : unsent' = [unsent EXCEPT ![n][t] = s]
    <3>1. CASE DiffPage(n, t)
      BY <3>1 DEF DiffPage, PageStep, Protect, Compare
    <3>2. CASE ~ DiffPage(n, t)
      BY <1>1, <3>2 DEF DiffRegion, DiffBegin, DiffEnd, SendDiff
    <3> QED BY <3>1, <3>2
  <2>2. unsent \in [Node -> [Thread -> SUBSET Diff]]
    BY DEF PagesInv, TypeOK
  <2> QED BY <2>1, <2>2
<1>2. CASE unsent' = unsent
  BY <1>2 DEF Senders
<1>3. CASE unsent' # unsent
  <2>1. PICK n \in Node, t \in TxThread : DiffRegion(n, t) \/ SendDiff(n, t)
    BY <1>3 DEF Next, vars, Fault, Store, TxBegin, TxEnd, Listen, ApplyPage, ReadDiff
  <2> QED BY <1>1, <2>1 DEF Senders
<1> QED BY <1>2, <1>3

\* Every step keeps ChangesUnderway.
LEMMA UnderwayStep ==
  ASSUME SmallPages, OneTxThread, PagesInv, Senders, ChangesUnderway, [Next]_vars
  PROVE  ChangesUnderway'
<1>1. ASSUME NEW n \in Node, NEW t \in Thread, NEW pg \in Page, NEW b \in Byte,
             Owner[pg][b] = n, Fault(n, t, pg) \/ Store(n, t, pg, b)
      PROVE  ChangesUnderway'
  <2>1. CASE Fault(n, t, pg)
    BY <2>1, UnderwayKept DEF Fault, Applied, Published, Twinned
  <2>2. CASE Store(n, t, pg, b)
    BY <1>1, <2>2, UnderwayStore
  <2> QED BY <1>1, <2>1, <2>2
<1>2. ASSUME NEW n \in Node, NEW t \in Thread, TxBegin(n, t)
      PROVE  ChangesUnderway'
  BY <1>2, UnderwayTxBegin
<1>3. ASSUME NEW n \in Node, NEW t \in Thread, t \in TxThread /\ TxEnd(n, t)
      PROVE  ChangesUnderway'
  BY <1>3, UnderwayDiffBegin, UnderwayDiffPage, UnderwayDiffEnd, UnderwaySendDiff
     DEF TxEnd, DiffRegion
<1>4. ASSUME NEW n \in Node, Listen(n)
      PROVE  ChangesUnderway'
  BY <1>4, UnderwayApplyPage, UnderwayReadDiff DEF Listen
<1>5. CASE UNCHANGED vars
  BY <1>5, UnderwayKept DEF vars, Applied, Published, Twinned
<1> QED BY <1>1, <1>2, <1>3, <1>4, <1>5 DEF Next

----------------------------------------------------------------------------
(***************************************************************************)
(* The theorems                                                            *)
(***************************************************************************)

\* PagesInv holds however many threads end transactions.
THEOREM PagesInvariant ==
  ASSUME SmallPages
  PROVE  Spec => []PagesInv
<1>1. Init => PagesInv
  BY PagesInit
<1>2. PagesInv /\ [Next]_vars => PagesInv'
  BY PagesStep
<1> QED BY <1>1, <1>2, PTL DEF Spec

\* With one such thread on each node, all of the invariant does.
THEOREM MemoryInvariant ==
  ASSUME SmallPages, OneTxThread
  PROVE  Spec => []MemoryInv
<1>1. Init => MemoryInv
  BY PagesInit, UnderwayInit DEF MemoryInv
<1>2. MemoryInv /\ [Next]_vars => MemoryInv'
  BY PagesStep, SendersStep, UnderwayStep DEF MemoryInv
<1> QED BY <1>1, <1>2, PTL DEF Spec

\* Every variable keeps its type: sections that arrive have values where the
\* handler looks for them.
THEOREM MemoryTypeCorrect ==
  ASSUME SmallPages
  PROVE  Spec => []TypeOK
<1>1. PagesInv => TypeOK
  BY DEF PagesInv
<1> QED BY <1>1, PagesInvariant, PTL

\* tx_begin and diff_region change protection and twins together.
THEOREM StoresAreTwinned ==
  ASSUME SmallPages
  PROVE  Spec => []WritableTwinned
<1>1. PagesInv => WritableTwinned
  BY DEF PagesInv
<1> QED BY <1>1, PagesInvariant, PTL

\* The diffs of a node have the form that the invariant says.
LEMMA DiffsOfOwn ==
  ASSUME PagesInv, NEW o \in Node, NEW d \in DiffsOf(o)
  PROVE  d \in OwnDiff(o)
<1>1. CASE \E t \in Thread : d \in unsent[o][t]
  BY <1>1 DEF PagesInv, DiffsOwn
<1>2. CASE \E n \in Node : \E k \in DOMAIN chan[o][n] : d = chan[o][n][k]
  <2>1. PICK n \in Node : \E k \in DOMAIN chan[o][n] : d = chan[o][n][k]
    BY <1>2
  <2>2. chan[o][n] \in Seq(OwnDiff(o))
    BY DEF PagesInv, DiffsOwn
  <2> QED BY <2>1, <2>2
<1>3. \/ \E t \in Thread : d \in unsent[o][t]
      \/ \E n \in Node : \E k \in DOMAIN chan[o][n] : d = chan[o][n][k]
  <2>1. PICK s \in {unsent[o][t] : t \in Thread}
              \cup {{chan[o][n][k] : k \in DOMAIN chan[o][n]} : n \in Node} : d \in s
    BY DEF DiffsOf
  <2>2. CASE s \in {unsent[o][t] : t \in Thread}
    BY <2>1, <2>2
  <2>3. CASE s \in {{chan[o][n][k] : k \in DOMAIN chan[o][n]} : n \in Node}
    <3>1. PICK n \in Node : s = {chan[o][n][k] : k \in DOMAIN chan[o][n]}
      BY <2>3, Zenon
    <3> QED BY <2>1, <3>1
  <2> QED BY <2>1, <2>2, <2>3
<1> QED BY <1>1, <1>2, <1>3

\* No node sends a byte that it has not written itself.
THEOREM NothingEchoed ==
  ASSUME SmallPages
  PROVE  Spec => []OnlyOwnChanges
<1>1. PagesInv => OnlyOwnChanges
  <2> SUFFICES ASSUME PagesInv, NEW o \in Node, NEW d \in DiffsOf(o), NEW pg \in Page,
                      NEW b \in Put(d.pages[pg])
               PROVE  Owner[pg][b] = o
    BY DEF OnlyOwnChanges
  <2>1. d \in OwnDiff(o)
    BY DiffsOfOwn
  <2> QED BY <2>1 DEF OwnDiff
<1> QED BY <1>1, PagesInvariant, PTL

\* Every other node has what the owner of a byte has published last, or will have
\* it from the diffs on the way.
THEOREM ChangesArrive ==
  ASSUME SmallPages, OneTxThread
  PROVE  Spec => []NoChangeLost
<1>1. MemoryInv => NoChangeLost
  BY DEF MemoryInv, ChangesUnderway, NoChangeLost, Arrives
<1> QED BY <1>1, MemoryInvariant, PTL
=============================================================================
