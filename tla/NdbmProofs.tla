------------------------------ MODULE NdbmProofs ------------------------------
(***************************************************************************)
(* Proofs about ndbm, for every set of keys, hash, page and directory      *)
(* block size, wherever writes fail and wherever the program is stopped:   *)
(* the page buffer and the directory (BufferNeverStale, DirectoryTrue),    *)
(* types (TypesHold), every pair at its place and room for both halves of  *)
(* a split (PairsStay), the refinement of NdbmMap (MapKept), what a        *)
(* stopped store leaves (DamageStaysLocal) and traversals (TraversalExact).*)
(***************************************************************************)
EXTENDS Ndbm, TLAPS, SequenceTheorems, FiniteSetTheorems, WellFoundedInduction

InStore == {"access", "split", "high", "bit"}

\* The fields of a store under way.
StoreShape ==
  st = [key |-> st.key, val |-> st.val, replace |-> st.replace, mask |-> st.mask,
        blk |-> st.blk, i |-> st.i, ovf |-> st.ovf, leaf |-> st.leaf]

\* What the buffer is at every point of the library's code.  Between dbm_access
\* and the first write of a split it holds a page half taken apart; after that
\* write it is again the page of the file, and stays so because the high half
\* goes to another block.
BufferInv ==
  /\ DOMAIN pag = Blocks
  /\ npag \in Nat
  /\ pc \in {"closed", "idle", "next"} \cup InStore
  /\ StoreShape
  /\ pc \in InStore => st.key \in Keys
  /\ pc \in InStore \ {"access"} => pagbno = st.blk /\ st.mask \in Nat /\ st.blk \in Nat
  /\ pc = "high" => npag > st.blk
  /\ pc # "split" /\ ~ioerr /\ pagbno \in Blocks /\ pagbno < npag => pagbuf = pag[pagbno]

\* A mask is a number.
LEMMA MaskIsNat == Masks \subseteq Nat
<1> SUFFICES ASSUME NEW d \in 0 .. MaxDepth PROVE 2 ^ d - 1 \in Nat
  BY DEF Masks
<1>1. 2 ^ d \in Nat \ {0}
  BY PowerAssumption DEF PowerAssumption
<1> QED BY <1>1

\* The mask at which dbm_access stops is a number.
LEMMA LeafIsMask ==
  ASSUME NEW k, WithinBound(k)
  PROVE  LeafMask(k) \in Nat
BY MaskIsNat DEF WithinBound, LeafMask

\* So is the block it leads to.
LEMMA BlkIsNat ==
  ASSUME NEW k \in Keys, NEW m \in Nat
  PROVE  Blk(k, m) \in Nat
BY NdbmAssumption DEF Blk, NdbmAssumption

\* dbm_access leaves in the buffer the page of the file, if the file has it.
LEMMA LoadedIsPage ==
  ASSUME BufferInv, pc # "split", ~ioerr, NEW b \in Blocks, b < npag
  PROVE  Loaded(b) = pag[b]
BY DEF BufferInv, Loaded, OnDisk

\* A written page is the page of the file, and the file does not shrink.
LEMMA Written ==
  ASSUME BufferInv, NEW b \in Nat, NEW p, WritePage(b, p)
  PROVE  /\ DOMAIN pag' = Blocks
         /\ npag' \in Nat
         /\ b \in Blocks => pag'[b] = p
         /\ \A c \in Blocks : c # b => pag'[c] = pag[c]
         /\ npag' > b
BY DEF BufferInv, WritePage

\* No block has the number -1.
LEMMA NoBlock == None \notin Blocks
BY DEF None, Blocks

\* A finished store leaves the empty record.
LEMMA NoStoreShape == st' = NoStore => StoreShape'
BY DEF NoStore, StoreShape

\* A program that has not opened the data base has no page.
LEMMA InitBuffer == Init => BufferInv
<1> SUFFICES ASSUME Init PROVE BufferInv
  OBVIOUS
<1>1. StoreShape /\ pagbno \notin Blocks /\ pc = "closed"
  BY NoBlock DEF Init, NoStore, StoreShape
<1>2. DOMAIN pag = Blocks /\ npag \in Nat
  BY NdbmAssumption DEF Init, NdbmAssumption
<1> QED BY <1>1, <1>2 DEF BufferInv, InStore

\* Nor has one that closed it or was stopped.
LEMMA ForgetBuffer == BufferInv /\ Forget => BufferInv'
<1> SUFFICES ASSUME BufferInv, Forget PROVE BufferInv'
  OBVIOUS
<1>1. StoreShape' /\ pagbno' \notin Blocks /\ pc' = "closed" /\ UNCHANGED <<pag, npag>>
  BY NoBlock, NoStoreShape DEF Forget, file
<1> QED BY <1>1 DEF BufferInv, InStore

\* dbm_open starts with an empty page buffer.
LEMMA OpenBuffer == ASSUME BufferInv, NEW ro, Open(ro) PROVE BufferInv'
<1>1. pagbno' \notin Blocks /\ pc' = "idle" /\ UNCHANGED <<pag, npag, st>>
  BY NoBlock DEF Open, file
<1> QED BY <1>1 DEF BufferInv, InStore, StoreShape

\* dbm_fetch loads a page and writes none.
LEMMA FetchBuffer == ASSUME BufferInv, NEW k \in Keys, Fetch(k) PROVE BufferInv'
<1> DEFINE b == Blk(k, LeafMask(k))
<1>1. pagbno' = b /\ pagbuf' = Loaded(b) /\ pc' = "idle" /\ pc # "split"
      /\ UNCHANGED <<pag, npag, ioerr, st>>
  BY DEF Fetch, Ready, Return, file
<1>2. ~ioerr' /\ b \in Blocks /\ b < npag => Loaded(b) = pag[b]
  BY <1>1, LoadedIsPage
<1> QED BY <1>1, <1>2 DEF BufferInv, InStore, StoreShape

\* dbm_delete rewrites the page it has loaded, or fails and sets the error flag.
LEMMA DeleteBuffer == ASSUME BufferInv, NEW k \in Keys, Delete(k) PROVE BufferInv'
<1> DEFINE b == Blk(k, LeafMask(k))
           p == Loaded(b)
           rest == Without(p, Place(p, k))
<1>1. pagbno' = b /\ pc' = "idle" /\ pc # "split" /\ ~ioerr /\ UNCHANGED st
  BY DEF Delete, Ready, Return
<1>2. b \in Nat
  BY LeafIsMask, BlkIsNat DEF Delete
<1>3. CASE pagbuf' = p /\ UNCHANGED <<file, ioerr>>
  <2>1. b \in Blocks /\ b < npag => p = pag[b]
    BY <1>1, LoadedIsPage
  <2> QED BY <1>1, <1>3, <2>1 DEF BufferInv, InStore, StoreShape, file
<1>4. CASE pagbuf' = rest /\ WritePage(b, rest)
  <2>1. DOMAIN pag' = Blocks /\ npag' \in Nat /\ (b \in Blocks => pag'[b] = rest)
    BY <1>2, <1>4, Written
  <2> QED BY <1>1, <1>4, <2>1 DEF BufferInv, InStore, StoreShape
<1>5. CASE WriteFails
  BY <1>1, <1>5 DEF BufferInv, InStore, StoreShape, WriteFails, file
<1> QED BY <1>3, <1>4, <1>5 DEF Delete

\* The call of dbm_store touches no page.
LEMMA StoreBuffer ==
  ASSUME BufferInv, NEW k \in Keys, NEW v, NEW r, Store(k, v, r) PROVE BufferInv'
<1>1. st'.key = k /\ StoreShape'
  BY DEF Store, NoStore, StoreShape
<1>2. pc' = "access" /\ pc # "split" /\ UNCHANGED <<pag, npag, pagbno, pagbuf, ioerr>>
  BY DEF Store, Ready, file, pagebuffer
<1> QED BY <1>1, <1>2 DEF BufferInv, InStore

\* The pass through "loop" rewrites the loaded page, or leaves it, or starts a split.
LEMMA AccessBuffer == ASSUME BufferInv, StoreAccess PROVE BufferInv'
<1> DEFINE m == LeafMask(st.key)
           b == Blk(st.key, m)
           p == Loaded(b)
           rest == IF Has(p, st.key) THEN Without(p, Place(p, st.key)) ELSE p
           more == Append(rest, <<st.key, st.val>>)
<1>1. pagbno' = b /\ pc = "access" /\ st.key \in Keys /\ StoreShape
  BY DEF StoreAccess, BufferInv, InStore
<1>2. m \in Nat /\ b \in Nat
  BY <1>1, LeafIsMask, BlkIsNat DEF StoreAccess
<1>3. CASE pagbuf' = p /\ StoreDone("exists") /\ UNCHANGED <<file, ioerr>>
  <2>1. ~ioerr /\ b \in Blocks /\ b < npag => p = pag[b]
    BY <1>1, LoadedIsPage
  <2>2. pc' = "idle" /\ StoreShape'
    BY <1>3 DEF StoreDone, Return, NoStore, StoreShape
  <2> QED BY <1>1, <1>3, <2>1, <2>2 DEF BufferInv, InStore, file
<1>4. CASE pagbuf' = more /\ WritePage(b, more) /\ StoreDone("ok")
  <2>1. DOMAIN pag' = Blocks /\ npag' \in Nat /\ (b \in Blocks => pag'[b] = more)
    BY <1>2, <1>4, Written
  <2>2. pc' = "idle" /\ StoreShape'
    BY <1>4 DEF StoreDone, Return, NoStore, StoreShape
  <2> QED BY <1>1, <1>4, <2>1, <2>2 DEF BufferInv, InStore
<1>5. CASE ioerr' /\ StoreDone("fail") /\ UNCHANGED file
  <2>1. pc' = "idle" /\ StoreShape'
    BY <1>5 DEF StoreDone, Return, NoStore, StoreShape
  <2> QED BY <1>5, <2>1 DEF BufferInv, InStore, file
<1>6. CASE /\ pc' = "split"
           /\ st' = [st EXCEPT !.mask = m, !.blk = b, !.i = 1, !.ovf = << >>]
           /\ UNCHANGED file
  <2>1. st' = [key |-> st.key, val |-> st.val, replace |-> st.replace, mask |-> m,
               blk |-> b, i |-> 1, ovf |-> << >>, leaf |-> st.leaf]
    BY <1>1, <1>6 DEF StoreShape
  <2>2. StoreShape' /\ st'.key = st.key /\ st'.mask = m /\ st'.blk = b
    BY <2>1 DEF StoreShape
  <2> QED BY <1>1, <1>2, <1>6, <2>2 DEF BufferInv, InStore, file
<1> QED BY <1>3, <1>4, <1>5, <1>6 DEF StoreAccess, WriteFails

\* During a split the buffer is taken apart, and nothing is claimed of it.
LEMMA ItemBuffer == ASSUME BufferInv, SplitItem PROVE BufferInv'
<1>1. pc = "split" /\ pc' = "split" /\ UNCHANGED <<pag, npag, pagbno, ioerr>>
  BY DEF SplitItem, file
<1>2. StoreShape
  BY DEF BufferInv
<1>3. \/ st' = [st EXCEPT !.ovf = Append(@, pagbuf[st.i])]
      \/ st' = [st EXCEPT !.i = @ + 1]
  BY DEF SplitItem
<1>4. /\ StoreShape' /\ st'.key = st.key /\ st'.mask = st.mask /\ st'.blk = st.blk
  BY <1>2, <1>3 DEF StoreShape
<1> QED BY <1>1, <1>4 DEF BufferInv, InStore

\* The low half, once written, is what the buffer holds.
LEMMA LowBuffer == ASSUME BufferInv, SplitLow PROVE BufferInv'
<1>1. pc = "split" /\ pagbno' = st.blk /\ UNCHANGED pagbuf
      /\ st.blk \in Nat /\ st.mask \in Nat /\ st.key \in Keys
  BY DEF SplitLow, BufferInv, InStore
<1>2. CASE WritePage(st.blk, pagbuf) /\ pc' = "high" /\ UNCHANGED st
  <2>1. DOMAIN pag' = Blocks /\ npag' \in Nat /\ (st.blk \in Blocks => pag'[st.blk] = pagbuf)
        /\ npag' > st.blk
    BY <1>1, <1>2, Written
  <2> QED BY <1>1, <1>2, <2>1 DEF BufferInv, InStore, StoreShape
<1>3. CASE WriteFails /\ StoreDone("fail")
  <2>1. pc' = "idle" /\ StoreShape' /\ ioerr' /\ UNCHANGED file
    BY <1>3 DEF StoreDone, Return, NoStore, StoreShape, WriteFails
  <2> QED BY <2>1 DEF BufferInv, InStore, file
<1> QED BY <1>2, <1>3 DEF SplitLow

\* The high half goes to a block that is not the buffered one.
LEMMA HighBuffer == ASSUME BufferInv, SplitHigh PROVE BufferInv'
<1>1. pc = "high" /\ UNCHANGED <<pagbno, pagbuf>> /\ pagbno = st.blk
      /\ st.blk \in Nat /\ st.mask \in Nat /\ st.key \in Keys
  BY DEF SplitHigh, BufferInv, InStore, pagebuffer
<1>2. CASE WritePage(High, st.ovf) /\ pc' = "bit" /\ UNCHANGED <<st, ioerr>>
  <2>1. High \in Nat /\ High > st.blk
    BY <1>1 DEF High
  <2>2. DOMAIN pag' = Blocks /\ npag' \in Nat
        /\ \A c \in Blocks : c # High => pag'[c] = pag[c]
    BY <1>2, <2>1, Written
  <2>3. ~ioerr /\ pagbno \in Blocks => pag'[pagbno] = pagbuf
    BY <1>1, <2>1, <2>2 DEF BufferInv
  <2> QED BY <1>1, <1>2, <2>2, <2>3 DEF BufferInv, InStore, StoreShape
<1>3. CASE WriteFails /\ StoreDone("fail")
  <2>1. pc' = "idle" /\ StoreShape' /\ ioerr' /\ UNCHANGED file
    BY <1>3 DEF StoreDone, Return, NoStore, StoreShape, WriteFails
  <2> QED BY <2>1 DEF BufferInv, InStore, file
<1> QED BY <1>2, <1>3 DEF SplitHigh, WriteWorks

\* setbit touches neither a page nor the page buffer.
LEMMA BitBuffer == ASSUME BufferInv, SplitBit PROVE BufferInv'
<1>1. pc = "bit" /\ pc' = "access" /\ UNCHANGED <<pag, npag, pagbno, pagbuf, st>>
      /\ (ioerr' = ioerr \/ ioerr')
  BY DEF SplitBit, WriteWorks, WriteFails, pagebuffer, file
<1> QED BY <1>1 DEF BufferInv, InStore, StoreShape

\* Calls that leave the pages, the buffer and the store as they are.
LEMMA IdleBuffer ==
  ASSUME BufferInv, Refused \/ RefusedWrite \/ FirstKey \/ NextKey
  PROVE  BufferInv'
<1>1. pc = "idle" /\ pc' \in {"idle", "next"}
      /\ UNCHANGED <<pag, npag, pagbno, pagbuf, st, ioerr>>
  BY DEF Refused, RefusedWrite, FirstKey, NextKey, Ready, Return, pagebuffer, file
<1> QED BY <1>1 DEF BufferInv, InStore, StoreShape

\* dbm_nextkey reads the page of the file, or goes past the end of the file.
LEMMA ScanBuffer == ASSUME BufferInv, NextKeyStep PROVE BufferInv'
<1> DEFINE load == blkptr # pagbno
           p == IF load THEN OnDisk(blkptr) ELSE pagbuf
<1>1. pagbno' = blkptr /\ pc = "next" /\ pc' \in {"idle", "next"}
      /\ UNCHANGED <<pag, npag, st, ioerr>>
  BY DEF NextKeyStep, Return, file
<1>2. CASE load /\ blkptr >= npag
  BY <1>1, <1>2 DEF BufferInv, InStore, StoreShape, Blocks
<1>3. CASE pagbuf' = p
  <2>1. ~ioerr /\ blkptr \in Blocks /\ blkptr < npag => p = pag[blkptr]
    BY <1>1 DEF BufferInv, OnDisk
  <2> QED BY <1>1, <1>3, <2>1 DEF BufferInv, InStore, StoreShape
<1> QED BY <1>2, <1>3 DEF NextKeyStep

\* Every step keeps the invariant.
LEMMA NextBuffer == BufferInv /\ [Next]_vars => BufferInv'
<1> SUFFICES ASSUME BufferInv, [Next]_vars PROVE BufferInv'
  OBVIOUS
<1>1. CASE (\E ro \in Modes : Open(ro)) \/ Close \/ Crash
  BY <1>1, OpenBuffer, ForgetBuffer DEF Close, Crash
<1>2. CASE \E k \in Keys : Fetch(k) \/ Delete(k)
  BY <1>2, FetchBuffer, DeleteBuffer
<1>3. CASE \E k \in Keys, v \in Vals, r \in BOOLEAN : Store(k, v, r)
  BY <1>3, StoreBuffer
<1>4. CASE StoreAccess \/ SplitItem \/ SplitLow \/ SplitHigh \/ SplitBit
  BY <1>4, AccessBuffer, ItemBuffer, LowBuffer, HighBuffer, BitBuffer
<1>5. CASE Refused \/ RefusedWrite \/ FirstKey \/ NextKey \/ NextKeyStep
  BY <1>5, IdleBuffer, ScanBuffer
<1>6. CASE UNCHANGED vars
  BY <1>6 DEF vars, file, pagebuffer, BufferInv, InStore, StoreShape
<1> QED BY <1>1, <1>2, <1>3, <1>4, <1>5, <1>6 DEF Next

-----------------------------------------------------------------------------
\* Between calls the buffered page of a handle without error is the page of the
\* file (pagbuf and dbm_pagbno in dbm_access, dbm_store and dbm_nextkey of ndbm.c).
THEOREM BufferNeverStale == Spec => []BufferIsPage
<1>1. BufferInv => BufferIsPage
  BY DEF BufferInv, BufferIsPage
<1> QED BY <1>1, InitBuffer, NextBuffer, PTL DEF Spec

-----------------------------------------------------------------------------
(***************************************************************************)
(* Numbers.  The way to a page takes the remainder of the hash by 2, 4, 8  *)
(* and so on.                                                              *)
(***************************************************************************)

Depths == 0 .. MaxDepth

\* A set of numbers has a least one.
LEMMA Least ==
  ASSUME NEW S, S \subseteq Nat, S # {}
  PROVE  \E x \in S : \A y \in S : x <= y
<1>1. \E x \in S : \A y \in S : ~(<<y, x>> \in OpToRel(<, Nat))
  BY NatLessThanWellFounded, WFMin
<1>2. PICK x \in S : \A y \in S : ~(<<y, x>> \in OpToRel(<, Nat))
  BY <1>1
<1>3. ASSUME NEW y \in S PROVE x <= y
  <2>1. x \in Nat /\ y \in Nat
    OBVIOUS
  <2>2. ~(y < x)
    BY <1>2, <2>1 DEF OpToRel
  <2> QED BY <2>1, <2>2
<1> QED BY <1>3

\* One that is not empty and has a bound has a greatest one.
LEMMA Greatest ==
  ASSUME NEW S, S \subseteq Nat, S # {}, NEW m \in Nat, \A x \in S : x <= m
  PROVE  \E x \in S : \A y \in S : y <= x
<1> DEFINE U == {u \in Nat : \A x \in S : x <= u}
<1>1. U \subseteq Nat /\ m \in U
  OBVIOUS
<1>2. PICK u \in U : \A y \in U : u <= y
  BY <1>1, Least
<1>3. u \in Nat /\ \A x \in S : x \in Nat /\ x <= u
  BY <1>2
<1>4. u \in S
  <2> SUFFICES ASSUME u \notin S PROVE FALSE
    OBVIOUS
  <2>1. \A x \in S : x <= u - 1
    BY <1>3
  <2>2. u - 1 \in Nat
    <3>1. PICK x \in S : TRUE
      OBVIOUS
    <3> QED BY <1>3, <2>1, <3>1
  <2>3. u - 1 \in U
    BY <2>1, <2>2
  <2>4. u <= u - 1
    BY <1>2, <2>3
  <2> QED BY <1>3, <2>4
<1> QED BY <1>3, <1>4

LEMMA Powers ==
  ASSUME NEW d \in Depths
  PROVE  2 ^ d \in Nat /\ 2 ^ d > 0 /\ 2 ^ (d + 1) = 2 * 2 ^ d
<1>1. 2 ^ d \in Nat \ {0} /\ 2 ^ (d + 1) = 2 * 2 ^ d
  BY PowerAssumption DEF PowerAssumption, Depths
<1> QED BY <1>1

\* A deeper level is a multiple of each above it.
LEMMA Multiple ==
  ASSUME NEW d \in Depths, NEW e \in Depths, d < e
  PROVE  \E c \in Nat : c > 0 /\ 2 ^ e = c * (2 * 2 ^ d)
<1> DEFINE T == {x \in Nat : x \in Depths /\ d < x /\ ~\E c \in Nat : c > 0 /\ 2 ^ x = c * (2 * 2 ^ d)}
<1>1. d \in Nat /\ e \in Nat /\ e <= MaxDepth /\ MaxDepth \in Nat
  BY NdbmAssumption DEF Depths, NdbmAssumption
<1> SUFFICES ASSUME T # {} PROVE FALSE
  BY <1>1
<1>2. PICK x \in T : \A y \in T : x <= y
  <2>1. T \subseteq Nat
    OBVIOUS
  <2> QED BY <2>1, Least
<1>3. x \in Nat /\ x \in Depths /\ d < x
  BY <1>2
<1>4. x - 1 \in Nat /\ x - 1 \in Depths /\ x - 1 + 1 = x
  BY <1>1, <1>3 DEF Depths
<1>5. 2 ^ d \in Nat /\ 2 ^ (d + 1) = 2 * 2 ^ d
  BY Powers
<1>6. 2 ^ x = 2 * 2 ^ (x - 1) /\ 2 ^ (x - 1) \in Nat
  BY <1>4, Powers
<1>7. CASE x = d + 1
  <2>1. 2 ^ x = 1 * (2 * 2 ^ d)
    BY <1>5, <1>7
  <2> QED BY <1>2, <2>1
<1>8. CASE x # d + 1
  <2>1. d < x - 1 /\ ~(x <= x - 1)
    BY <1>1, <1>3, <1>8
  <2>2. x - 1 \notin T
    BY <1>2, <2>1
  <2>3. PICK c \in Nat : c > 0 /\ 2 ^ (x - 1) = c * (2 * 2 ^ d)
    BY <1>4, <2>1, <2>2
  <2>4. 2 * c \in Nat /\ 2 * c > 0 /\ 2 ^ x = (2 * c) * (2 * 2 ^ d)
    BY <1>5, <1>6, <2>3
  <2> QED BY <1>2, <2>4
<1> QED BY <1>7, <1>8

LEMMA Grows ==
  ASSUME NEW d \in Depths, NEW e \in Depths, d < e
  PROVE  2 * 2 ^ d <= 2 ^ e
<1>1. PICK c \in Nat : c > 0 /\ 2 ^ e = c * (2 * 2 ^ d)
  BY Multiple
<1> DEFINE w == 2 * 2 ^ d
<1>2. w \in Nat
  BY Powers
<1> HIDE DEF w
<1>3. c * w >= w
  BY <1>1, <1>2
<1> QED BY <1>1, <1>3 DEF w

LEMMA DepthOrder ==
  ASSUME NEW d \in Depths, NEW e \in Depths
  PROVE  /\ 2 ^ d <= 2 ^ e <=> d <= e
         /\ 2 ^ d = 2 ^ e <=> d = e
         /\ 2 ^ d < 2 ^ e <=> d < e
<1>1. /\ d \in Nat /\ e \in Nat
      /\ 2 ^ d \in Nat /\ 2 ^ d > 0 /\ 2 ^ e \in Nat /\ 2 ^ e > 0
  BY Powers DEF Depths
<1>2. d < e => 2 * 2 ^ d <= 2 ^ e
  BY Grows
<1>3. e < d => 2 * 2 ^ e <= 2 ^ d
  BY Grows
<1>4. \/ d < e \/ d = e \/ e < d
  BY <1>1
<1> QED BY <1>1, <1>2, <1>3, <1>4

\* A number is a multiple and a remainder.
LEMMA Parts ==
  ASSUME NEW h \in Nat, NEW w \in Nat, w > 0
  PROVE  \E q \in Nat, r \in Nat : h \div w = q /\ h % w = r /\ r < w /\ h = w * q + r
<1>1. h \div w \in Nat /\ h % w \in Nat /\ h % w < w
  <2>1. h \div w \in Nat
    OBVIOUS
  <2>2. h % w \in Nat
    OBVIOUS
  <2>3. h % w < w
    OBVIOUS
  <2> QED BY <2>1, <2>2, <2>3
<1>2. h = w * (h \div w) + (h % w)
  OBVIOUS
<1> QED BY <1>1, <1>2

\* Division leaves one remainder.
LEMMA Remainder ==
  ASSUME NEW a \in Nat, NEW w \in Nat, w > 0, NEW r \in 0 .. w - 1, NEW h \in Nat, h = w * a + r
  PROVE  h % w = r
<1>1. PICK q \in Nat, s \in Nat : h % w = s /\ s < w /\ h = w * q + s
  BY Parts
<1>2. w * a \in Nat /\ w * q \in Nat /\ r \in Nat /\ r < w /\ w * a + r = w * q + s
  BY <1>1
<1>3. CASE a < q
  <2>1. w * (a + 1) <= w * q
    <3>1. a + 1 <= q
      BY <1>3
    <3> QED BY <3>1
  <2>2. w * (a + 1) = w * a + w
    OBVIOUS
  <2> QED BY <1>1, <1>2, <2>1, <2>2
<1>4. CASE q < a
  <2>1. w * (q + 1) <= w * a
    <3>1. q + 1 <= a
      BY <1>4
    <3> QED BY <3>1
  <2>2. w * (q + 1) = w * q + w
    OBVIOUS
  <2> QED BY <1>1, <1>2, <2>1, <2>2
<1>5. CASE q = a
  BY <1>1, <1>2, <1>5
<1> QED BY <1>3, <1>4, <1>5

-----------------------------------------------------------------------------
(***************************************************************************)
(* The directory.                                                          *)
(***************************************************************************)

\* The buffered block is the block of the file, and no bit of the file lies
\* beyond the last bit known.  A bit of the buffer is of the buffered block even
\* after a failed write.
DirInv ==
  /\ dir \subseteq Nat /\ ndir \in Nat
  /\ \A n \in dir : n \div DBLKBITS < ndir
  /\ \A n \in dirbuf : n \in Nat /\ n \div DBLKBITS = dirbno
  /\ maxbno \in Int
  /\ pc # "closed" /\ ~ioerr => /\ \A n \in dir : n <= maxbno
                                /\ dirbno # None => dirbuf = InBlock(dir, dirbno)

\* Blocks are made of bits: a bit of one of the first m blocks is one of the
\* first m times DBLKBITS bits.
LEMMA BlockBits ==
  ASSUME NEW n \in Nat, NEW m \in Nat, n \div DBLKBITS < m
  PROVE  n <= (m * DBLKBITS) - 1
<1> DEFINE D == DBLKBITS
<1>1. D \in Nat /\ D > 0
  BY NdbmAssumption DEF NdbmAssumption
<1>2. PICK q \in Nat, r \in Nat : n \div D = q /\ r < D /\ n = D * q + r
  BY <1>1, Parts
<1> HIDE DEF D
<1>3. q + 1 <= m
  BY <1>2 DEF D
<1>4. D * (q + 1) <= D * m
  BY <1>1, <1>2, <1>3
<1>5. D * (q + 1) = D * q + D /\ D * m = m * D
  BY <1>1, <1>2
<1>6. n <= (m * D) - 1
  <2>1. D * q \in Nat /\ m * D \in Nat
    BY <1>1, <1>2
  <2> QED BY <1>1, <1>2, <1>4, <1>5, <2>1
<1> QED BY <1>6 DEF D

LEMMA BlockOrder ==
  ASSUME NEW n \in Nat, NEW m \in Nat, n <= m
  PROVE  n \div DBLKBITS <= m \div DBLKBITS
<1> DEFINE D == DBLKBITS
<1>1. D \in Nat /\ D > 0
  BY NdbmAssumption DEF NdbmAssumption
<1>2. PICK q \in Nat, r \in Nat : n \div D = q /\ r < D /\ n = D * q + r
  BY <1>1, Parts
<1>3. PICK k \in Nat, t \in Nat : m \div D = k /\ t < D /\ m = D * k + t
  BY <1>1, Parts
<1> HIDE DEF D
<1>4. CASE q > k
  <2>1. k + 1 <= q
    BY <1>4
  <2>2. D * (k + 1) <= D * q
    BY <1>1, <2>1
  <2>3. D * (k + 1) = D * k + D /\ D * k \in Nat /\ D * q \in Nat
    BY <1>1
  <2> QED BY <1>1, <1>2, <1>3, <2>2, <2>3
<1>5. CASE q <= k
  BY <1>2, <1>3, <1>5 DEF D
<1> QED BY <1>4, <1>5

LEMMA BlockIsNat ==
  ASSUME NEW n \in Nat
  PROVE  n \div DBLKBITS \in Nat
<1>1. DBLKBITS \in Nat /\ DBLKBITS > 0
  BY NdbmAssumption DEF NdbmAssumption
<1> QED BY <1>1, Parts

\* getbit leaves in the buffer a block of the file.
LEMMA WalkDir ==
  ASSUME DirInv, NEW k, DirWalk(k), UNCHANGED <<dir, ndir>>,
         pc' # "closed" /\ ~ioerr' => pc # "closed" /\ ~ioerr
  PROVE  DirInv'
<1>1. \/ UNCHANGED dirbuffer
      \/ dirbuf' = InBlock(dir, dirbno') /\ UNCHANGED maxbno
  BY DEF DirWalk
<1>2. CASE UNCHANGED dirbuffer
  BY <1>2 DEF DirInv, dirbuffer, InBlock
<1>3. CASE dirbuf' = InBlock(dir, dirbno') /\ UNCHANGED maxbno
  BY <1>3 DEF DirInv, InBlock
<1> QED BY <1>1, <1>2, <1>3

\* Calls that leave the directory and its buffer as they are.
LEMMA KeepDir ==
  ASSUME DirInv, UNCHANGED <<dir, ndir, dirbuffer>>,
         pc' # "closed" /\ ~ioerr' => pc # "closed" /\ ~ioerr
  PROVE  DirInv'
BY DEF DirInv, dirbuffer, InBlock

LEMMA InitDir == Init => DirInv
<1> SUFFICES ASSUME Init PROVE DirInv
  OBVIOUS
<1>1. dir = InitBits /\ dir \subseteq Nat /\ dirbuf = {} /\ maxbno \in Int /\ pc = "closed"
  BY NdbmAssumption DEF Init, None, NdbmAssumption
<1>2. CASE InitBits = {}
  BY <1>1, <1>2 DEF Init, DirInv
<1>3. CASE InitBits # {}
  <2> DEFINE last == CHOOSE n \in InitBits : \A m \in InitBits : m <= n
  <2>1. last \in InitBits /\ \A m \in InitBits : m <= last
    BY <1>3, NdbmAssumption DEF NdbmAssumption
  <2>2. ndir = last \div DBLKBITS + 1
    BY <1>3 DEF Init
  <2> HIDE DEF last
  <2>3. last \in Nat /\ last \div DBLKBITS \in Nat /\ ndir \in Nat
    BY <1>1, <2>1, <2>2, BlockIsNat
  <2>4. \A m \in dir : m \div DBLKBITS < ndir
    <3> TAKE m \in dir
    <3>1. m \in Nat /\ m <= last
      BY <1>1, <2>1
    <3>2. m \div DBLKBITS <= last \div DBLKBITS /\ m \div DBLKBITS \in Nat
      BY <2>3, <3>1, BlockOrder, BlockIsNat
    <3> QED BY <2>2, <2>3, <3>2
  <2> QED BY <1>1, <2>3, <2>4 DEF DirInv
<1> QED BY <1>2, <1>3

LEMMA ForgetDir == DirInv /\ Forget => DirInv'
BY DEF DirInv, Forget, file, None

\* dbm_open takes the length of the .dir file for the number of its last bit.
LEMMA OpenDir == ASSUME DirInv, NEW ro, Open(ro) PROVE DirInv'
<1>1. /\ UNCHANGED <<dir, ndir>> /\ dirbno' = None /\ dirbuf' = {}
      /\ maxbno' = ndir * DBLKBITS - 1
  BY DEF Open, file
<1>2. maxbno' \in Int
  BY <1>1, NdbmAssumption DEF DirInv, NdbmAssumption
<1>3. \A n \in dir : n <= maxbno'
  BY <1>1, BlockBits DEF DirInv
<1> QED BY <1>1, <1>2, <1>3 DEF DirInv

LEMMA BitDir == ASSUME BufferInv, DirInv, SplitBit PROVE DirInv'
<1> DEFINE n == st.blk + st.mask
           b == n \div DBLKBITS
           bits == (IF b = dirbno THEN dirbuf ELSE InBlock(dir, b)) \cup {n}
<1>1. /\ pc = "bit" /\ pc' = "access" /\ dirbno' = b /\ dirbuf' = bits
      /\ maxbno' = IF n > maxbno THEN n ELSE maxbno
  BY DEF SplitBit
<1>2. n \in Nat /\ b \in Nat
  BY <1>1, BlockIsNat DEF BufferInv, InStore
<1>3. \A x \in bits : x \in Nat /\ x \div DBLKBITS = b
  BY <1>2 DEF DirInv, InBlock
<1>4. ~ioerr => bits = InBlock(dir, b) \cup {n}
  BY <1>1, <1>2 DEF DirInv, None
<1>5. maxbno' \in Int /\ maxbno <= maxbno' /\ n <= maxbno'
  BY <1>1, <1>2 DEF DirInv
<1>6. CASE WriteFails
  BY <1>1, <1>3, <1>5, <1>6 DEF WriteFails, DirInv, file
<1>7. CASE /\ dir' = (dir \ InBlock(dir, b)) \cup bits
           /\ ndir' = (IF b < ndir THEN ndir ELSE b + 1)
           /\ UNCHANGED ioerr
  <2> HIDE DEF n, b, bits
  <2>1. ndir' \in Nat /\ b < ndir' /\ ndir <= ndir'
    BY <1>2, <1>7 DEF DirInv
  <2>2. dir' \subseteq Nat /\ \A x \in dir' : x \div DBLKBITS < ndir'
    <3>1. \A x \in dir : x \in Nat /\ x \div DBLKBITS < ndir'
      BY <2>1, BlockIsNat DEF DirInv
    <3> QED BY <1>3, <1>7, <2>1, <3>1
  <2>3. CASE ioerr
    BY <1>1, <1>3, <1>5, <1>7, <2>1, <2>2, <2>3 DEF DirInv
  <2>4. CASE ~ioerr
    <3>1. dir' = dir \cup {n}
      BY <1>4, <1>7, <2>4 DEF InBlock
    <3>2. dirbuf' = InBlock(dir', b)
      BY <1>1, <1>2, <1>3, <1>4, <2>4, <3>1 DEF InBlock
    <3>3. \A x \in dir' : x <= maxbno'
      BY <1>1, <1>2, <1>5, <2>4, <3>1 DEF DirInv
    <3> QED BY <1>1, <1>3, <1>5, <2>1, <2>2, <3>2, <3>3 DEF DirInv
  <2> QED BY <2>3, <2>4
<1> QED BY <1>6, <1>7 DEF SplitBit, WriteWorks

LEMMA NextDir == BufferInv /\ DirInv /\ [Next]_vars => DirInv'
<1> SUFFICES ASSUME BufferInv, DirInv, [Next]_vars PROVE DirInv'
  OBVIOUS
<1>1. CASE (\E ro \in Modes : Open(ro)) \/ Close \/ Crash
  BY <1>1, OpenDir, ForgetDir DEF Close, Crash
<1>2. ASSUME NEW k \in Keys, Fetch(k) \/ Delete(k) PROVE DirInv'
  <2>1. DirWalk(k) /\ UNCHANGED <<dir, ndir>> /\ pc = "idle"
        /\ (~ioerr' => ~ioerr)
    BY <1>2 DEF Fetch, Delete, Ready, WritePage, WriteFails, file
  <2> QED BY <2>1, WalkDir
<1>3. ASSUME NEW k \in Keys, NEW v \in Vals, NEW r \in BOOLEAN, Store(k, v, r) PROVE DirInv'
  BY <1>3, KeepDir DEF Store, Ready, file
<1>4. CASE StoreAccess
  <2>1. DirWalk(st.key) /\ UNCHANGED <<dir, ndir>> /\ pc = "access"
        /\ (~ioerr' => ~ioerr)
    BY <1>4 DEF StoreAccess, WritePage, WriteWorks, WriteFails, file
  <2> QED BY <2>1, WalkDir
<1>5. CASE SplitItem \/ SplitLow \/ SplitHigh
  <2>1. UNCHANGED <<dir, ndir, dirbuffer>> /\ pc # "closed" /\ (~ioerr' => ~ioerr)
    BY <1>5 DEF SplitItem, SplitLow, SplitHigh, WritePage, WriteWorks, WriteFails, file
  <2> QED BY <2>1, KeepDir
<1>6. CASE Refused \/ RefusedWrite \/ FirstKey \/ NextKey \/ NextKeyStep
  <2>1. UNCHANGED <<dir, ndir, dirbuffer>> /\ pc # "closed" /\ UNCHANGED ioerr
    BY <1>6 DEF Refused, RefusedWrite, FirstKey, NextKey, NextKeyStep, Ready, file
  <2> QED BY <2>1, KeepDir
<1>7. CASE UNCHANGED vars
  BY <1>7, KeepDir DEF vars, file
<1> QED BY <1>1, <1>2, <1>3, <1>4, <1>5, <1>6, <1>7, BitDir DEF Next

\* A bit is set for getbit, in the buffered block or in the file, exactly if it
\* is set in the file (dbm_dirbuf, dbm_dirbno and dbm_maxbno of ndbm.c).
THEOREM DirectoryTrue == Spec => []DirectoryAgrees
<1>1. DirInv => DirectoryAgrees
  <2> SUFFICES ASSUME DirInv, pc # "closed", ~ioerr,
                      NEW n \in 0 .. 2 * Cardinality(Blocks)
               PROVE  (n <= maxbno /\ IF n \div DBLKBITS = dirbno THEN n \in dirbuf ELSE n \in dir) <=> n \in dir
    BY DEF DirectoryAgrees
  <2>1. n \in Nat /\ n \div DBLKBITS \in Nat
    <3>1. n \in Nat
      OBVIOUS
    <3> QED BY <3>1, BlockIsNat
  <2>2. n \in dir => n <= maxbno
    BY DEF DirInv
  <2>3. n \div DBLKBITS = dirbno => (n \in dirbuf <=> n \in dir)
    BY <2>1 DEF DirInv, InBlock, None
  <2> QED BY <2>2, <2>3
<1> QED BY <1>1, InitBuffer, NextBuffer, InitDir, NextDir, PTL DEF Spec

-----------------------------------------------------------------------------
(***************************************************************************)
(* The tree of pages.  At depth d a hash h leads to page h % 2^d, whose    *)
(* bit is BitOf(h, d).                                                     *)
(***************************************************************************)

BitOf(h, d) == (h % 2 ^ d) + 2 ^ d - 1

LEMMA PageOf ==
  ASSUME NEW h \in Nat, NEW d \in Depths
  PROVE  h % 2 ^ d \in Nat /\ h % 2 ^ d < 2 ^ d
<1>1. 2 ^ d \in Nat /\ 2 ^ d > 0
  BY Powers
<1>2. PICK q \in Nat, r \in Nat : h % 2 ^ d = r /\ r < 2 ^ d
  BY <1>1, Parts
<1> QED BY <1>2

LEMMA BitOfType ==
  ASSUME NEW h \in Nat, NEW d \in Depths
  PROVE  BitOf(h, d) \in Nat /\ BitOf(h, d) >= 2 ^ d - 1 /\ BitOf(h, d) < (2 * 2 ^ d) - 1
<1>1. 2 ^ d \in Nat /\ 2 ^ d > 0 /\ h % 2 ^ d \in Nat /\ h % 2 ^ d < 2 ^ d
  BY Powers, PageOf
<1> QED BY <1>1 DEF BitOf

\* A bit belongs to one page at one depth.
LEMMA SameBit ==
  ASSUME NEW h \in Nat, NEW d \in Depths, NEW g \in Nat, NEW e \in Depths,
         BitOf(h, d) = BitOf(g, e)
  PROVE  d = e /\ h % 2 ^ d = g % 2 ^ e
<1>1. /\ 2 ^ d \in Nat /\ 2 ^ d > 0 /\ h % 2 ^ d \in Nat /\ h % 2 ^ d < 2 ^ d
      /\ 2 ^ e \in Nat /\ 2 ^ e > 0 /\ g % 2 ^ e \in Nat /\ g % 2 ^ e < 2 ^ e
  BY Powers, PageOf
<1>2. (h % 2 ^ d) + 2 ^ d = (g % 2 ^ e) + 2 ^ e
  BY <1>1 DEF BitOf
<1>3. ~(d < e) /\ ~(e < d)
  <2>1. d < e => 2 * 2 ^ d <= 2 ^ e
    BY Grows
  <2>2. e < d => 2 * 2 ^ e <= 2 ^ d
    BY Grows
  <2> QED BY <1>1, <1>2, <2>1, <2>2
<1>4. d = e
  BY <1>3 DEF Depths
<1> QED BY <1>1, <1>2, <1>4

\* The way to a page passes the page it was split from.
LEMMA PageUp ==
  ASSUME NEW h \in Nat, NEW d \in Depths, NEW e \in Depths, d <= e
  PROVE  (h % 2 ^ e) % 2 ^ d = h % 2 ^ d
<1> DEFINE w == 2 ^ d
           v == 2 ^ e
<1>1. w \in Nat /\ w > 0 /\ v \in Nat /\ v > 0
  BY Powers
<1>2. \E c \in Nat : v = w * c
  <2>1. CASE d = e
    <3>1. v = w * 1
      BY <1>1, <2>1
    <3> QED BY <3>1
  <2>2. CASE d < e
    <3>1. PICK c \in Nat : v = c * (2 * w)
      BY <2>2, Multiple
    <3> HIDE DEF v, w
    <3>2. v = w * (2 * c) /\ 2 * c \in Nat
      BY <1>1, <3>1
    <3> QED BY <3>2
  <2> QED BY <2>1, <2>2 DEF Depths
<1>3. PICK c \in Nat : v = w * c
  BY <1>2
<1> HIDE DEF v, w
<1>4. PICK q \in Nat, r \in Nat : h % v = r /\ r < v /\ h = v * q + r
  BY <1>1, Parts
<1>5. PICK a \in Nat, t \in Nat : r % w = t /\ t < w /\ r = w * a + t
  BY <1>1, Parts
<1>6. h = w * (c * q + a) + t
  <2>1. v * q = w * (c * q)
    BY <1>1, <1>3
  <2>2. w * (c * q + a) = w * (c * q) + w * a
    BY <1>1, <1>3
  <2> QED BY <1>1, <1>3, <1>4, <1>5, <2>1, <2>2
<1>7. c * q + a \in Nat /\ t \in 0 .. w - 1
  BY <1>1, <1>5
<1>8. h % w = t
  BY <1>1, <1>6, <1>7, Remainder
<1> QED BY <1>4, <1>5, <1>8 DEF v, w

LEMMA SamePageUp ==
  ASSUME NEW h \in Nat, NEW g \in Nat, NEW d \in Depths, NEW e \in Depths, d <= e,
         h % 2 ^ e = g % 2 ^ e
  PROVE  h % 2 ^ d = g % 2 ^ d
<1>1. (h % 2 ^ e) % 2 ^ d = h % 2 ^ d /\ (g % 2 ^ e) % 2 ^ d = g % 2 ^ d
  BY PageUp
<1> QED BY <1>1

\* A page splits into itself and its high half.
LEMMA PageDown ==
  ASSUME NEW h \in Nat, NEW d \in Depths
  PROVE  \/ h % 2 ^ (d + 1) = h % 2 ^ d
         \/ h % 2 ^ (d + 1) = (h % 2 ^ d) + 2 ^ d
<1> DEFINE w == 2 ^ d
           v == 2 ^ (d + 1)
<1>1. w \in Nat /\ w > 0 /\ v = 2 * w
  BY Powers
<1> HIDE DEF v, w
<1>2. PICK q \in Nat, r \in Nat : h % v = r /\ r < v /\ h = v * q + r
  <2>1. v \in Nat /\ v > 0
    BY <1>1
  <2> QED BY <2>1, Parts
<1>3. v * q = w * (2 * q)
  BY <1>1
<1>4. CASE r < w
  <2>1. h = w * (2 * q) + r /\ 2 * q \in Nat /\ r \in 0 .. w - 1
    BY <1>1, <1>2, <1>3, <1>4
  <2>2. h % w = r
    BY <1>1, <2>1, Remainder
  <2> QED BY <1>2, <2>2 DEF v, w
<1>5. CASE r >= w
  <2>1. w * (2 * q + 1) = w * (2 * q) + w
    BY <1>1
  <2>2. h = w * (2 * q + 1) + (r - w) /\ 2 * q + 1 \in Nat /\ r - w \in 0 .. w - 1
    BY <1>1, <1>2, <1>3, <1>5, <2>1
  <2>3. h % w = r - w
    BY <1>1, <2>2, Remainder
  <2>4. h % v = (h % w) + w
    BY <1>1, <1>2, <2>3
  <2> QED BY <2>4 DEF v, w
<1> QED BY <1>1, <1>2, <1>4, <1>5

-----------------------------------------------------------------------------
(***************************************************************************)
(* Pages as sequences of pairs.                                            *)
(***************************************************************************)

Pairs(p) == {p[i] : i \in DOMAIN p}

\* No key is on the page twice.
Distinct(p) == \A i, j \in DOMAIN p : p[i][1] = p[j][1] => i = j

LEMMA WithoutType ==
  ASSUME NEW p \in Seq(Pair), NEW i \in 1 .. Len(p)
  PROVE  /\ Without(p, i) \in Seq(Pair)
         /\ Len(Without(p, i)) = Len(p) - 1
         /\ \A j \in 1 .. Len(p) - 1 : Without(p, i)[j] = IF j < i THEN p[j] ELSE p[j + 1]
<1> DEFINE n == Len(p) - 1
           q == [j \in 1 .. n |-> IF j < i THEN p[j] ELSE p[j + 1]]
<1>1. n \in Nat /\ Len(p) \in Nat
  OBVIOUS
<1>2. \A j \in 1 .. n : (IF j < i THEN p[j] ELSE p[j + 1]) \in Pair
  <2> TAKE j \in 1 .. n
  <2>1. j \in 1 .. Len(p) /\ j + 1 \in 1 .. Len(p)
    BY <1>1
  <2> QED BY <2>1
<1>3. q \in [1 .. n -> Pair]
  BY <1>2
<1>4. q \in Seq(Pair) /\ Len(q) = n
  <2> HIDE DEF q, n
  <2> QED BY <1>1, <1>3
<1> QED BY <1>4 DEF Without

\* delitem takes the pair off the page and leaves the others.
LEMMA WithoutPairs ==
  ASSUME NEW p \in Seq(Pair), NEW i \in 1 .. Len(p), Distinct(p)
  PROVE  /\ Distinct(Without(p, i))
         /\ Pairs(Without(p, i)) = Pairs(p) \ {p[i]}
<1> DEFINE q == Without(p, i)
           at(j) == IF j < i THEN j ELSE j + 1
<1>1. q \in Seq(Pair) /\ Len(q) = Len(p) - 1 /\ Len(p) \in Nat /\ i \in Nat
  BY WithoutType
<1>2. \A j \in 1 .. Len(p) - 1 : q[j] = p[at(j)]
  BY WithoutType
<1> HIDE DEF q
<1>3. DOMAIN q = 1 .. Len(p) - 1 /\ DOMAIN p = 1 .. Len(p)
  BY <1>1
<1>4. \A j \in DOMAIN q : at(j) \in DOMAIN p /\ at(j) # i /\ q[j] = p[at(j)]
  BY <1>1, <1>2, <1>3
<1>5. \A l \in DOMAIN p : l # i => \E j \in DOMAIN q : l = at(j)
  <2> TAKE l \in DOMAIN p
  <2> HAVE l # i
  <2>1. CASE l < i
    <3>1. l \in DOMAIN q /\ l = at(l)
      BY <1>1, <1>3, <2>1
    <3> QED BY <3>1
  <2>2. CASE l > i
    <3>1. l - 1 \in DOMAIN q /\ l = at(l - 1)
      BY <1>1, <1>3, <2>2
    <3> QED BY <3>1
  <2> QED BY <1>1, <1>3, <2>1, <2>2
<1>6. \A j, l \in DOMAIN q : at(j) = at(l) => j = l
  BY <1>1, <1>3
<1> HIDE DEF at
<1>7. Distinct(q)
  BY <1>4, <1>6 DEF Distinct
<1>8. Pairs(q) \subseteq Pairs(p) \ {p[i]}
  <2> SUFFICES ASSUME NEW j \in DOMAIN q PROVE q[j] \in Pairs(p) /\ q[j] # p[i]
    BY DEF Pairs
  <2>1. at(j) \in DOMAIN p /\ at(j) # i /\ q[j] = p[at(j)] /\ i \in DOMAIN p
    BY <1>3, <1>4
  <2> QED BY <2>1 DEF Pairs, Distinct
<1>9. Pairs(p) \ {p[i]} \subseteq Pairs(q)
  <2> SUFFICES ASSUME NEW l \in DOMAIN p, p[l] # p[i] PROVE p[l] \in Pairs(q)
    BY DEF Pairs
  <2>1. PICK j \in DOMAIN q : l = at(j)
    BY <1>5
  <2> QED BY <1>4, <2>1 DEF Pairs
<1> QED BY <1>7, <1>8, <1>9 DEF q

LEMMA PairsType ==
  ASSUME NEW p \in Seq(Pair)
  PROVE  \A x \in Pairs(p) : x \in Pair /\ x[1] \in Keys /\ x[2] \in Vals /\ x = <<x[1], x[2]>>
BY DEF Pairs, Pair

LEMMA HasPair ==
  ASSUME NEW p, NEW k
  PROVE  Has(p, k) <=> \E x \in Pairs(p) : x[1] = k
BY DEF Has, Pairs

LEMMA HasValue ==
  ASSUME NEW p \in Seq(Pair), NEW k
  PROVE  Has(p, k) <=> \E v \in Vals : <<k, v>> \in Pairs(p)
<1>1. ASSUME NEW x \in Pairs(p), x[1] = k PROVE \E v \in Vals : <<k, v>> \in Pairs(p)
  <2>1. x = <<k, x[2]>> /\ x[2] \in Vals
    BY <1>1, PairsType
  <2> QED BY <2>1
<1>2. ASSUME NEW v \in Vals, <<k, v>> \in Pairs(p) PROVE \E x \in Pairs(p) : x[1] = k
  BY <1>2
<1> QED BY <1>1, <1>2, HasPair

\* finddatum finds a pair of the key, if there is one.
LEMMA PlaceFound ==
  ASSUME NEW p \in Seq(Pair), NEW k, Has(p, k)
  PROVE  Place(p, k) \in 1 .. Len(p) /\ p[Place(p, k)][1] = k
<1> DEFINE S == {i \in 1 .. Len(p) : p[i][1] = k}
<1>1. DOMAIN p = 1 .. Len(p) /\ Len(p) \in Nat
  OBVIOUS
<1>2. S \subseteq Nat /\ S # {}
  BY <1>1 DEF Has
<1>3. PICK i \in S : \A j \in S : i <= j
  <2> HIDE DEF S
  <2> QED BY <1>2, Least
<1>4. i \in DOMAIN p /\ p[i][1] = k /\ \A j \in 1 .. i - 1 : p[j][1] # k
  <2>1. i \in 1 .. Len(p) /\ p[i][1] = k
    BY <1>3
  <2>2. ASSUME NEW j \in 1 .. i - 1 PROVE p[j][1] # k
    <3>1. j \in 1 .. Len(p) /\ ~(i <= j)
      BY <1>1, <2>1
    <3>2. j \notin S
      BY <1>3, <3>1
    <3> QED BY <3>1, <3>2
  <2> QED BY <1>1, <2>1, <2>2
<1>5. /\ Place(p, k) \in DOMAIN p /\ p[Place(p, k)][1] = k
  BY <1>4 DEF Place
<1> QED BY <1>1, <1>5

\* The value found is that of the pair on the page.
LEMMA ValueFound ==
  ASSUME NEW p \in Seq(Pair), Distinct(p), NEW k \in Keys
  PROVE  /\ \A v \in Vals : Value(p, k) = v <=> <<k, v>> \in Pairs(p)
         /\ Value(p, k) = NoVal <=> ~Has(p, k)
         /\ Has(p, k) => Value(p, k) \in Vals /\ <<k, Value(p, k)>> \in Pairs(p)
         /\ Has(p, k) => p[Place(p, k)] = <<k, Value(p, k)>>
<1>1. NoVal \notin Vals
  BY NdbmAssumption DEF NdbmAssumption
<1>2. CASE ~Has(p, k)
  <2>1. Value(p, k) = NoVal
    BY <1>2 DEF Value
  <2>2. \A v \in Vals : <<k, v>> \notin Pairs(p)
    BY <1>2, HasPair
  <2> QED BY <1>1, <1>2, <2>1, <2>2
<1>3. CASE Has(p, k)
  <2> DEFINE i == Place(p, k)
  <2>1. i \in 1 .. Len(p) /\ p[i][1] = k /\ DOMAIN p = 1 .. Len(p)
    BY <1>3, PlaceFound
  <2>2. Value(p, k) = p[i][2]
    BY <1>3 DEF Value
  <2> HIDE DEF i
  <2>3. p[i] \in Pairs(p) /\ p[i] = <<k, p[i][2]>> /\ p[i][2] \in Vals
    <3>1. p[i] \in Pairs(p)
      BY <2>1 DEF Pairs
    <3> QED BY <2>1, <3>1, PairsType
  <2>4. \A v \in Vals : <<k, v>> \in Pairs(p) => v = p[i][2]
    <3> TAKE v \in Vals
    <3> HAVE <<k, v>> \in Pairs(p)
    <3>1. PICK j \in DOMAIN p : p[j] = <<k, v>>
      BY DEF Pairs
    <3>2. j = i
      BY <2>1, <3>1 DEF Distinct
    <3> QED BY <3>1, <3>2
  <2>5. p[i] = <<k, Value(p, k)>> /\ Value(p, k) \in Vals
    BY <2>2, <2>3
  <2> QED BY <1>1, <1>3, <2>2, <2>3, <2>4, <2>5 DEF i
<1> QED BY <1>2, <1>3

\* So it depends on the pairs of that key only.
LEMMA SameValue ==
  ASSUME NEW p \in Seq(Pair), Distinct(p), NEW q \in Seq(Pair), Distinct(q), NEW k \in Keys,
         \A v \in Vals : <<k, v>> \in Pairs(p) <=> <<k, v>> \in Pairs(q)
  PROVE  Value(p, k) = Value(q, k)
<1>1. Has(p, k) <=> \E v \in Vals : <<k, v>> \in Pairs(p)
  BY HasValue
<1>2. Has(q, k) <=> \E v \in Vals : <<k, v>> \in Pairs(q)
  BY HasValue
<1>3. CASE Has(p, k)
  BY <1>3, ValueFound
<1>4. CASE ~Has(p, k)
  <2>1. ~Has(q, k)
    BY <1>1, <1>2, <1>4
  <2> QED BY <1>4, <2>1 DEF Value
<1> QED BY <1>3, <1>4

LEMMA AppendPairs ==
  ASSUME NEW p \in Seq(Pair), NEW x \in Pair
  PROVE  /\ Append(p, x) \in Seq(Pair) /\ Len(Append(p, x)) = Len(p) + 1
         /\ Pairs(Append(p, x)) = Pairs(p) \cup {x}
         /\ Distinct(p) /\ ~Has(p, x[1]) => Distinct(Append(p, x))
<1> DEFINE q == Append(p, x)
<1>1. /\ q \in Seq(Pair) /\ Len(q) = Len(p) + 1 /\ Len(p) \in Nat
      /\ \A i \in 1 .. Len(p) : q[i] = p[i]
      /\ q[Len(p) + 1] = x
  OBVIOUS
<1> HIDE DEF q
<1>2. DOMAIN q = 1 .. Len(p) + 1 /\ DOMAIN p = 1 .. Len(p)
      /\ \A i \in DOMAIN q : i \in DOMAIN p \/ i = Len(p) + 1
  BY <1>1
<1>3. Pairs(q) = Pairs(p) \cup {x}
  BY <1>1, <1>2 DEF Pairs
<1>4. ASSUME Distinct(p), ~Has(p, x[1]) PROVE Distinct(q)
  <2> SUFFICES ASSUME NEW i \in DOMAIN q, NEW j \in DOMAIN q, q[i][1] = q[j][1]
               PROVE  i = j
    BY DEF Distinct
  <2>1. \A l \in DOMAIN p : q[l][1] = p[l][1] /\ p[l][1] # x[1]
    BY <1>1, <1>2, <1>4 DEF Has
  <2> QED BY <1>1, <1>2, <1>4, <2>1 DEF Distinct
<1> QED BY <1>1, <1>3, <1>4 DEF q

LEMMA EmptyPage == << >> \in Seq(Pair) /\ Pairs(<< >>) = {} /\ Distinct(<< >>) /\ Len(<< >>) = 0
BY DEF Pairs, Distinct

-----------------------------------------------------------------------------
(***************************************************************************)
(* The bytes of a page.                                                    *)
(***************************************************************************)

\* f adds up the first pairs of page p.
SumsUp(p, f) ==
  f = [n \in 0 .. Len(p) |-> IF n = 0 THEN 0 ELSE f[n - 1] + Size[p[n]] + 4]

LEMMA SizeType == \A x \in Pair : Size[x] \in Nat
BY NdbmAssumption DEF NdbmAssumption, Pair

\* Such a function exists for each page, ...
LEMMA SumsExist ==
  ASSUME NEW p \in Seq(Pair)
  PROVE  \E f : SumsUp(p, f)
<1> DEFINE Good(m, f) ==
             /\ f \in [0 .. m -> Nat]
             /\ f[0] = 0
             /\ \A n \in 1 .. m : f[n] = f[n - 1] + Size[p[n]] + 4
           Bad == {m \in Nat : m <= Len(p) /\ ~\E f : Good(m, f)}
<1>0. Len(p) \in Nat /\ \A n \in 1 .. Len(p) : Size[p[n]] \in Nat
  BY SizeType
<1>1. Bad = {}
  <2> SUFFICES ASSUME Bad # {} PROVE FALSE
    OBVIOUS
  <2>1. PICK m \in Bad : \A x \in Bad : m <= x
    <3>1. Bad \subseteq Nat
      OBVIOUS
    <3> HIDE DEF Bad
    <3> QED BY <3>1, Least
  <2>2. CASE m = 0
    <3>1. Good(0, [n \in 0 .. 0 |-> 0])
      OBVIOUS
    <3> QED BY <2>1, <2>2, <3>1
  <2>3. CASE m # 0
    <3>1. m \in Nat /\ m - 1 \in Nat /\ ~(m <= m - 1) /\ m - 1 <= Len(p) /\ m \in 1 .. Len(p)
      BY <1>0, <2>1, <2>3
    <3>2. m - 1 \notin Bad
      BY <2>1, <3>1
    <3>3. PICK f : Good(m - 1, f)
      BY <3>1, <3>2
    <3>4. Size[p[m]] \in Nat /\ m - 1 \in 0 .. m - 1 /\ f[m - 1] \in Nat
      BY <1>0, <3>1, <3>3
    <3> DEFINE g == [n \in 0 .. m |-> IF n = m THEN f[m - 1] + Size[p[m]] + 4 ELSE f[n]]
    <3>5. g \in [0 .. m -> Nat]
      <4>1. \A n \in 0 .. m : n # m => n \in 0 .. m - 1
        BY <3>1
      <4> QED BY <3>3, <3>4, <4>1
    <3>6. g[0] = 0
      BY <2>3, <3>1, <3>3
    <3>7. \A n \in 1 .. m : g[n] = g[n - 1] + Size[p[n]] + 4
      <4> TAKE n \in 1 .. m
      <4>1. n \in 0 .. m /\ n - 1 \in 0 .. m /\ n - 1 # m
        BY <3>1
      <4>2. CASE n = m
        BY <4>1, <4>2
      <4>3. CASE n # m
        <5>1. n \in 1 .. m - 1
          BY <3>1, <4>1, <4>3
        <5>2. f[n] = f[n - 1] + Size[p[n]] + 4
          BY <3>3, <5>1
        <5> QED BY <4>1, <4>3, <5>2
      <4> QED BY <4>2, <4>3
    <3>8. Good(m, g)
      <4> HIDE DEF g
      <4> QED BY <3>5, <3>6, <3>7
    <3> QED BY <2>1, <3>8
  <2> QED BY <2>2, <2>3
<1>2. PICK f : Good(Len(p), f)
  <2>1. Len(p) \notin Bad
    BY <1>1
  <2> QED BY <1>0, <2>1
<1>3. SumsUp(p, f)
  <2> DEFINE e == [n \in 0 .. Len(p) |-> IF n = 0 THEN 0 ELSE f[n - 1] + Size[p[n]] + 4]
  <2>1. ASSUME NEW n \in 0 .. Len(p) PROVE f[n] = e[n]
    <3>1. CASE n = 0
      BY <1>2, <3>1
    <3>2. CASE n # 0
      <4>1. n \in 1 .. Len(p)
        BY <1>0, <3>2
      <4> QED BY <1>2, <3>2, <4>1
    <3> QED BY <3>1, <3>2
  <2>2. DOMAIN f = 0 .. Len(p) /\ f = [n \in 0 .. Len(p) |-> f[n]]
    BY <1>2
  <2>3. f = e
    BY <2>1, <2>2
  <2> QED BY <2>3 DEF SumsUp
<1> QED BY <1>3

\* ... and its last value is what Bytes is.
LEMMA BytesIs ==
  ASSUME NEW p \in Seq(Pair)
  PROVE  \E f : SumsUp(p, f) /\ Bytes(p) = f[Len(p)]
BY SumsExist DEF Bytes, SumsUp

LEMMA SumsType ==
  ASSUME NEW p \in Seq(Pair), NEW f, SumsUp(p, f)
  PROVE  /\ \A n \in 0 .. Len(p) : f[n] \in Nat
         /\ f[0] = 0
         /\ \A n \in 1 .. Len(p) : f[n] = f[n - 1] + Size[p[n]] + 4
<1>1. Len(p) \in Nat /\ \A n \in 1 .. Len(p) : Size[p[n]] \in Nat
  BY SizeType
<1>2. f[0] = 0
  BY <1>1 DEF SumsUp
<1>3. \A n \in 1 .. Len(p) : f[n] = f[n - 1] + Size[p[n]] + 4
  <2> TAKE n \in 1 .. Len(p)
  <2>1. n \in 0 .. Len(p) /\ n # 0
    BY <1>1
  <2> QED BY <2>1 DEF SumsUp
<1> DEFINE Bad == {n \in Nat : n <= Len(p) /\ f[n] \notin Nat}
<1>4. Bad = {}
  <2> SUFFICES ASSUME Bad # {} PROVE FALSE
    OBVIOUS
  <2>1. PICK n \in Bad : \A x \in Bad : n <= x
    <3>1. Bad \subseteq Nat
      OBVIOUS
    <3> HIDE DEF Bad
    <3> QED BY <3>1, Least
  <2>2. n # 0
    BY <1>2, <2>1
  <2>3. n - 1 \in Nat /\ ~(n <= n - 1) /\ n - 1 <= Len(p) /\ n \in 1 .. Len(p)
    BY <1>1, <2>1, <2>2
  <2>4. f[n - 1] \in Nat
    BY <2>1, <2>3
  <2>5. f[n] = f[n - 1] + Size[p[n]] + 4 /\ Size[p[n]] \in Nat
    BY <1>1, <1>3, <2>3
  <2> QED BY <2>1, <2>4, <2>5
<1> QED BY <1>1, <1>2, <1>3, <1>4

\* What holds of no sum before holds of none: two pages that agree so far have
\* sums that agree so far.
LEMMA SameSums ==
  ASSUME NEW p \in Seq(Pair), NEW f, SumsUp(p, f),
         NEW q \in Seq(Pair), NEW g, SumsUp(q, g),
         NEW m \in 0 .. Len(p), m <= Len(q),
         \A n \in 1 .. m : p[n] = q[n]
  PROVE  f[m] = g[m]
<1> DEFINE Bad == {n \in Nat : n <= m /\ f[n] # g[n]}
<1>1. Len(p) \in Nat /\ Len(q) \in Nat /\ m \in Nat
  OBVIOUS
<1> SUFFICES ASSUME Bad # {} PROVE FALSE
  BY <1>1
<1>2. PICK n \in Bad : \A x \in Bad : n <= x
  <2>1. Bad \subseteq Nat
    OBVIOUS
  <2> HIDE DEF Bad
  <2> QED BY <2>1, Least
<1>3. n \in Nat /\ n <= m /\ f[n] # g[n]
  BY <1>2
<1>4. f[0] = 0 /\ g[0] = 0
  BY SumsType
<1>5. n \in 1 .. m /\ n \in 1 .. Len(p) /\ n \in 1 .. Len(q) /\ n - 1 \in Nat
      /\ ~(n <= n - 1) /\ n - 1 <= m
  BY <1>1, <1>3, <1>4
<1>6. f[n - 1] = g[n - 1]
  BY <1>2, <1>5
<1>7. f[n] = f[n - 1] + Size[p[n]] + 4
  BY <1>5, SumsType
<1>8. g[n] = g[n - 1] + Size[q[n]] + 4
  BY <1>5, SumsType
<1>9. p[n] = q[n]
  BY <1>5
<1> QED BY <1>3, <1>6, <1>7, <1>8, <1>9

LEMMA BytesType ==
  ASSUME NEW p \in Seq(Pair)
  PROVE  Bytes(p) \in Nat
<1>1. PICK f : SumsUp(p, f) /\ Bytes(p) = f[Len(p)]
  BY BytesIs
<1>2. \A n \in 0 .. Len(p) : f[n] \in Nat
  BY <1>1, SumsType
<1> QED BY <1>1, <1>2

LEMMA BytesEmpty == Bytes(<< >>) = 0
<1>1. << >> \in Seq(Pair) /\ Len(<< >>) = 0
  OBVIOUS
<1>2. PICK f : SumsUp(<< >>, f) /\ Bytes(<< >>) = f[0]
  BY <1>1, BytesIs
<1> QED BY <1>1, <1>2, SumsType

LEMMA BytesAppend ==
  ASSUME NEW p \in Seq(Pair), NEW x \in Pair
  PROVE  Bytes(Append(p, x)) = Bytes(p) + Size[x] + 4
<1> DEFINE q == Append(p, x)
<1>1. /\ q \in Seq(Pair) /\ Len(q) = Len(p) + 1 /\ Len(p) \in Nat
      /\ \A n \in 1 .. Len(p) : q[n] = p[n]
      /\ q[Len(p) + 1] = x
  OBVIOUS
<1> HIDE DEF q
<1>2. PICK f : SumsUp(p, f) /\ Bytes(p) = f[Len(p)]
  BY BytesIs
<1>3. PICK g : SumsUp(q, g) /\ Bytes(q) = g[Len(q)]
  BY <1>1, BytesIs
<1>4. f[Len(p)] = g[Len(p)]
  BY <1>1, <1>2, <1>3, SameSums
<1>5. g[Len(q)] = g[Len(p)] + Size[x] + 4
  <2>1. Len(q) \in 1 .. Len(q) /\ Len(q) - 1 = Len(p)
    BY <1>1
  <2>2. g[Len(q)] = g[Len(q) - 1] + Size[q[Len(q)]] + 4
    BY <1>1, <1>3, <2>1, SumsType
  <2> QED BY <1>1, <2>1, <2>2
<1> QED BY <1>2, <1>3, <1>4, <1>5 DEF q

LEMMA BytesWithout ==
  ASSUME NEW p \in Seq(Pair), NEW i \in 1 .. Len(p)
  PROVE  Bytes(p) = Bytes(Without(p, i)) + Size[p[i]] + 4
<1> DEFINE q == Without(p, i)
<1>1. /\ q \in Seq(Pair) /\ Len(q) = Len(p) - 1 /\ Len(p) \in Nat /\ i \in Nat
      /\ \A j \in 1 .. Len(p) - 1 : q[j] = IF j < i THEN p[j] ELSE p[j + 1]
  <2>1. /\ q \in Seq(Pair) /\ Len(q) = Len(p) - 1
        /\ \A j \in 1 .. Len(p) - 1 : q[j] = IF j < i THEN p[j] ELSE p[j + 1]
    BY WithoutType
  <2> QED BY <2>1
<1> HIDE DEF q
<1>2. PICK f : SumsUp(p, f) /\ Bytes(p) = f[Len(p)]
  BY BytesIs
<1>3. PICK g : SumsUp(q, g) /\ Bytes(q) = g[Len(q)]
  BY <1>1, BytesIs
<1>4. f[i - 1] = g[i - 1]
  <2>1. i - 1 \in 0 .. Len(p) /\ i - 1 <= Len(q) /\ \A n \in 1 .. i - 1 : p[n] = q[n]
    BY <1>1
  <2> QED BY <1>1, <1>2, <1>3, <2>1, SameSums
<1> DEFINE s == Size[p[i]] + 4
           Bad == {n \in Nat : i <= n /\ n <= Len(p) /\ f[n] # g[n - 1] + s}
<1>5. s \in Nat /\ p[i] \in Pair
  BY SizeType
<1>6. f[i] = g[i - 1] + s
  <2>1. f[i] = f[i - 1] + Size[p[i]] + 4
    BY <1>2, SumsType
  <2>2. f[i - 1] \in Nat
    BY <1>1, <1>2, SumsType
  <2>3. Size[p[i]] \in Nat
    BY <1>5, SizeType
  <2> QED BY <1>4, <2>1, <2>2, <2>3
<1>7. Bad = {}
  <2> SUFFICES ASSUME Bad # {} PROVE FALSE
    OBVIOUS
  <2>1. PICK n \in Bad : \A x \in Bad : n <= x
    <3>1. Bad \subseteq Nat
      OBVIOUS
    <3> HIDE DEF Bad
    <3> QED BY <3>1, Least
  <2>2. n \in Nat /\ i <= n /\ n <= Len(p) /\ f[n] # g[n - 1] + s /\ n # i
    BY <1>6, <2>1
  <2> HIDE DEF s
  <2>3. n - 1 \in Nat /\ i <= n - 1 /\ n - 1 <= Len(p) /\ ~(n <= n - 1)
        /\ n \in 1 .. Len(p) /\ n - 1 \in 1 .. Len(q) /\ ~(n - 1 < i)
    BY <1>1, <2>2
  <2>4. f[n - 1] = g[n - 2] + s
    <3>1. n - 1 \notin Bad
      BY <2>1, <2>3
    <3>2. n - 1 - 1 = n - 2
      BY <2>2
    <3> QED BY <2>3, <3>1, <3>2
  <2>5. f[n] = f[n - 1] + Size[p[n]] + 4
    BY <1>2, <2>3, SumsType
  <2>6. g[n - 1] = g[n - 2] + Size[q[n - 1]] + 4
    <3>1. n - 1 - 1 = n - 2
      BY <2>2
    <3> QED BY <1>1, <1>3, <2>3, <3>1, SumsType
  <2>7. q[n - 1] = p[n]
    <3>1. n - 1 \in 1 .. Len(p) - 1 /\ n - 1 + 1 = n
      BY <1>1, <2>2, <2>3
    <3> QED BY <1>1, <2>3, <3>1
  <2>8. g[n - 2] \in Nat /\ Size[p[n]] \in Nat
    <3>1. n - 2 \in 0 .. Len(q)
      BY <1>1, <2>2, <2>3
    <3> QED BY <1>1, <1>3, <2>3, <3>1, SumsType, SizeType
  <2> QED BY <1>5, <2>2, <2>4, <2>5, <2>6, <2>7, <2>8
<1>8. f[Len(p)] = g[Len(q)] + s
  <2>1. Len(p) \notin Bad
    BY <1>7
  <2> QED BY <1>1, <2>1
<1>9. g[Len(q)] \in Nat /\ Size[p[i]] \in Nat
  <2>1. Len(q) \in 0 .. Len(q)
    BY <1>1
  <2> QED BY <1>1, <1>3, <1>5, <2>1, SumsType, SizeType
<1> QED BY <1>2, <1>3, <1>8, <1>9 DEF q, s

-----------------------------------------------------------------------------
(***************************************************************************)
(* Types.  A data base that is scanned is not empty: otherwise dbm_nextkey *)
(* leaves the file name in a buffer that it gives the number of page 0.    *)
(***************************************************************************)

NoEmptyScan == Scans => InitPages # << >>

PagesTyped ==
  /\ pag \in [Blocks -> Seq(Pair)]
  /\ npag \in 0 .. 2 ^ MaxDepth /\ Len(InitPages) <= npag

\* Before the first page is loaded the buffer has the number of no page.
BufferTyped ==
  \/ pagbno = None /\ blkptr = 0 /\ pagbuf \in {<< >>, Junk}
  \/ /\ pagbno \in Blocks \cup {2 ^ MaxDepth} /\ pagbuf \in Seq(Pair)
     /\ pc # "closed"

DirTyped == dirbno \in Nat \cup {None} /\ maxbno \in Nat \cup {None}

FlagsTyped ==
  /\ ioerr \in BOOLEAN /\ rdonly \in BOOLEAN
  /\ pc \in {"closed", "idle", "next"} \cup InStore

\* While a scan goes on the buffer does not have the number of the page it will
\* look at and not find.
ScanTyped ==
  /\ blkptr \in 0 .. 2 ^ MaxDepth /\ keyptr \in Nat
  /\ scan = [on |-> scan.on, clean |-> scan.clean, seen |-> scan.seen, moved |-> scan.moved]
  /\ scan.on \in BOOLEAN
  /\ pc = "next" => scan.on
  /\ scan.on => Scans = TRUE /\ (blkptr = pagbno => blkptr < npag)

StoreTyped ==
  /\ st.ovf \in Seq(Pair)
  /\ pc \notin InStore => st = NoStore
  /\ pc \in InStore =>
       /\ st.key \in Keys /\ st.val \in Vals /\ st.replace \in BOOLEAN
       /\ rdonly = FALSE
  /\ pc \in InStore \ {"access"} =>
       /\ \E d \in Depths : st.mask = 2 ^ d - 1 /\ st.blk \in Nat /\ st.blk < 2 ^ d
       /\ st.i \in Nat \ {0}
       /\ pagbuf \in Seq(Pair) /\ pagbno = st.blk
  /\ pc = "bit" => High \in Blocks /\ High < npag

\* A bit is set, in the file or in the buffer, after both halves were written.
BitsTyped ==
  \A h \in Nat, d \in Depths :
    BitOf(h, d) \in dir \cup dirbuf => d < MaxDepth /\ (h % 2 ^ d) + 2 ^ d < npag

TypeInv ==
  /\ PagesTyped /\ BufferTyped /\ DirTyped /\ FlagsTyped
  /\ ScanTyped /\ StoreTyped /\ BitsTyped

LEMMA Deepest == MaxDepth \in Depths /\ MaxDepth \in Nat /\ 2 ^ MaxDepth \in Nat /\ 2 ^ MaxDepth > 0
<1>1. MaxDepth \in Depths /\ MaxDepth \in Nat
  BY NdbmAssumption DEF NdbmAssumption, Depths
<1> QED BY <1>1, Powers

LEMMA PageInBlocks ==
  ASSUME NEW h \in Nat, NEW d \in Depths
  PROVE  h % 2 ^ d \in Blocks
<1>1. h % 2 ^ d \in Nat /\ h % 2 ^ d < 2 ^ d /\ 2 ^ d \in Nat
  BY PageOf, Powers
<1>2. 2 ^ d <= 2 ^ MaxDepth
  <2>1. d <= MaxDepth
    BY Deepest DEF Depths
  <2> QED BY <2>1, Deepest, DepthOrder
<1> QED BY <1>1, <1>2, Deepest DEF Blocks

LEMMA HashType == \A k \in Keys : Hash[k] \in Nat
BY NdbmAssumption DEF NdbmAssumption

LEMMA MaskOfDepth ==
  ASSUME NEW k \in Keys, NEW d \in Depths
  PROVE  /\ 2 ^ d - 1 \in Masks
         /\ Blk(k, 2 ^ d - 1) = Hash[k] % 2 ^ d
         /\ Bit(k, 2 ^ d - 1) = BitOf(Hash[k], d)
<1>1. 2 ^ d \in Nat /\ Hash[k] % 2 ^ d \in Nat
  BY Powers, PageOf, HashType
<1>2. 2 ^ d - 1 + 1 = 2 ^ d
  BY <1>1
<1>3. Blk(k, 2 ^ d - 1) = Hash[k] % 2 ^ d
  BY <1>2 DEF Blk
<1>4. Bit(k, 2 ^ d - 1) = BitOf(Hash[k], d)
  BY <1>1, <1>3 DEF Bit, BitOf
<1>5. 2 ^ d - 1 \in Masks
  BY DEF Masks, Depths
<1> QED BY <1>3, <1>4, <1>5

LEMMA DepthOfMask ==
  ASSUME NEW m \in Masks
  PROVE  \E d \in Depths : m = 2 ^ d - 1
BY DEF Masks, Depths

LEMMA MaskOrder ==
  ASSUME NEW d \in Depths, NEW e \in Depths
  PROVE  /\ 2 ^ d - 1 < 2 ^ e - 1 <=> d < e
         /\ 2 ^ d - 1 = 2 ^ e - 1 <=> d = e
<1>1. 2 ^ d \in Nat /\ 2 ^ e \in Nat
  BY Powers
<1>2. (2 ^ d < 2 ^ e <=> d < e) /\ (2 ^ d = 2 ^ e <=> d = e)
  BY DepthOrder
<1> QED BY <1>1, <1>2

\* Depth d is where the way of hash h ends, bits being the bits set.
LeafAt(bits, h, d) ==
  /\ BitOf(h, d) \notin bits
  /\ \A c \in Depths : c < d => BitOf(h, c) \in bits

\* The walk along the directory ends at some depth.
LEMMA WalkEnds ==
  ASSUME NEW k \in Keys, WithinBound(k)
  PROVE  \E d \in Depths :
           /\ LeafMask(k) = 2 ^ d - 1
           /\ Blk(k, LeafMask(k)) = Hash[k] % 2 ^ d
           /\ ~BitIsSet(BitOf(Hash[k], d))
           /\ \A c \in Depths : c < d => BitIsSet(BitOf(Hash[k], c))
<1> DEFINE m == LeafMask(k)
<1>1. m \in Masks /\ ~BitIsSet(Bit(k, m)) /\ \A l \in Masks : l < m => BitIsSet(Bit(k, l))
  BY DEF WithinBound, LeafMask
<1>2. PICK d \in Depths : m = 2 ^ d - 1
  BY <1>1, DepthOfMask
<1> HIDE DEF m
<1>3. Blk(k, m) = Hash[k] % 2 ^ d /\ Bit(k, m) = BitOf(Hash[k], d)
  BY <1>2, MaskOfDepth
<1>4. ASSUME NEW c \in Depths, c < d PROVE BitIsSet(BitOf(Hash[k], c))
  <2>1. 2 ^ c - 1 \in Masks /\ 2 ^ c - 1 < m /\ Bit(k, 2 ^ c - 1) = BitOf(Hash[k], c)
    BY <1>2, <1>4, MaskOfDepth, MaskOrder
  <2> QED BY <1>1, <2>1
<1> QED BY <1>1, <1>2, <1>3, <1>4 DEF m

\* The page a walk ends at is one of the file, unless the file is empty.
LEMMA WalkInFile ==
  ASSUME TypeInv, NEW k \in Keys, WithinBound(k)
  PROVE  LET b == Blk(k, LeafMask(k)) IN b \in Blocks /\ b \in Nat /\ (b < npag \/ npag = 0)
<1>1. PICK d \in Depths : /\ Blk(k, LeafMask(k)) = Hash[k] % 2 ^ d
                          /\ \A c \in Depths : c < d => BitIsSet(BitOf(Hash[k], c))
  BY WalkEnds
<1>2. Hash[k] \in Nat /\ Hash[k] % 2 ^ d \in Blocks /\ Hash[k] % 2 ^ d \in Nat
  BY HashType, PageInBlocks, PageOf
<1>3. CASE d = 0
  <2>1. Hash[k] % 2 ^ d < 1
    BY <1>2, <1>3, PageOf, PowerAssumption DEF PowerAssumption
  <2>2. npag \in Nat
    BY DEF TypeInv, PagesTyped
  <2> QED BY <1>1, <1>2, <2>1, <2>2
<1>4. CASE d # 0
  <2> DEFINE c == d - 1
  <2>1. c \in Depths /\ c < d /\ c + 1 = d
    BY <1>4, Deepest DEF Depths
  <2> HIDE DEF c
  <2>2. BitOf(Hash[k], c) \in dir \cup dirbuf
    BY <1>1, <2>1 DEF BitIsSet
  <2>3. (Hash[k] % 2 ^ c) + 2 ^ c < npag
    BY <1>2, <2>1, <2>2 DEF TypeInv, BitsTyped
  <2>4. Hash[k] % 2 ^ d <= (Hash[k] % 2 ^ c) + 2 ^ c
    <3>1. Hash[k] % 2 ^ c \in Nat /\ 2 ^ c \in Nat
      BY <1>2, <2>1, PageOf, Powers
    <3> QED BY <1>2, <2>1, <3>1, PageDown
  <2>5. npag \in Nat /\ (Hash[k] % 2 ^ c) + 2 ^ c \in Nat
    <3>1. Hash[k] % 2 ^ c \in Nat /\ 2 ^ c \in Nat
      BY <1>2, <2>1, PageOf, Powers
    <3>2. npag \in Nat
      BY DEF TypeInv, PagesTyped
    <3> QED BY <3>1, <3>2
  <2> QED BY <1>1, <1>2, <2>3, <2>4, <2>5
<1> QED BY <1>3, <1>4

\* The page loaded is a page, whatever was in the buffer.
LEMMA LoadedType ==
  ASSUME TypeInv, NEW b \in Blocks
  PROVE  Loaded(b) \in Seq(Pair)
<1>1. b # None
  BY NoBlock
<1>2. OnDisk(b) \in Seq(Pair)
  BY EmptyPage DEF TypeInv, PagesTyped, OnDisk
<1> QED BY <1>1, <1>2 DEF TypeInv, BufferTyped, Loaded

LEMMA WriteType ==
  ASSUME PagesTyped, NEW b \in Blocks, NEW p \in Seq(Pair), WritePage(b, p)
  PROVE  PagesTyped' /\ npag' \in Nat /\ npag <= npag' /\ b < npag' /\ UNCHANGED <<dir, ndir>>
<1>1. pag' \in [Blocks -> Seq(Pair)]
  BY DEF PagesTyped, WritePage
<1>2. b \in Nat /\ b < 2 ^ MaxDepth /\ npag \in Nat /\ npag <= 2 ^ MaxDepth /\ 2 ^ MaxDepth \in Nat
      /\ Len(InitPages) \in Nat /\ Len(InitPages) <= npag
  BY Deepest, NdbmAssumption DEF Blocks, PagesTyped, NdbmAssumption
<1>3. npag' = IF b < npag THEN npag ELSE b + 1
  BY DEF WritePage
<1>4. npag' \in Nat /\ npag <= npag' /\ b < npag' /\ npag' <= 2 ^ MaxDepth
  BY <1>2, <1>3
<1> QED BY <1>1, <1>2, <1>4 DEF PagesTyped, WritePage

LEMMA RestType ==
  ASSUME NEW p \in Seq(Pair), NEW k
  PROVE  (IF Has(p, k) THEN Without(p, Place(p, k)) ELSE p) \in Seq(Pair)
BY PlaceFound, WithoutType

LEMMA KeepBits ==
  ASSUME TypeInv, dir' \cup dirbuf' \subseteq dir \cup dirbuf, npag' \in Nat, npag <= npag'
  PROVE  BitsTyped'
<1> SUFFICES ASSUME NEW h \in Nat, NEW d \in Depths, BitOf(h, d) \in dir' \cup dirbuf'
             PROVE  d < MaxDepth /\ (h % 2 ^ d) + 2 ^ d < npag'
  BY DEF BitsTyped
<1>1. d < MaxDepth /\ (h % 2 ^ d) + 2 ^ d < npag
  BY DEF TypeInv, BitsTyped
<1>2. (h % 2 ^ d) \in Nat /\ 2 ^ d \in Nat
  BY PageOf, Powers
<1>3. npag \in Nat
  BY DEF TypeInv, PagesTyped
<1> QED BY <1>1, <1>2, <1>3

\* A walk leaves a block of the file in the directory buffer, one with a number.
LEMMA WalkTypes ==
  ASSUME DirInv, TypeInv, NEW k \in Keys, DirWalk(k), dir' = dir
  PROVE  DirTyped' /\ dir' \cup dirbuf' \subseteq dir \cup dirbuf
<1> DEFINE looked == {Bit(k, m) : m \in {l \in Masks : l <= LeafMask(k)}} \cap 0 .. maxbno
           S == {n \div DBLKBITS : n \in looked}
           b == CHOOSE c \in S : \A n \in looked : n \div DBLKBITS <= c
<1>1. CASE UNCHANGED dirbuffer
  BY <1>1 DEF dirbuffer, TypeInv, DirTyped
<1>2. CASE looked # {} /\ dirbno' = b /\ dirbuf' = InBlock(dir, b) /\ UNCHANGED maxbno
  <2>1. looked \subseteq Nat /\ \A n \in looked : n <= maxbno
    BY DEF TypeInv, DirTyped
  <2>2. maxbno \in Nat
    <3>1. PICK n \in looked : TRUE
      BY <1>2
    <3> QED BY <2>1, <3>1 DEF TypeInv, DirTyped, None
  <2> HIDE DEF looked
  <2>3. S \subseteq Nat /\ S # {}
    BY <1>2, <2>1, BlockIsNat
  <2>4. maxbno \div DBLKBITS \in Nat /\ \A c \in S : c <= maxbno \div DBLKBITS
    BY <2>1, <2>2, BlockIsNat, BlockOrder
  <2>5. \E c \in S : \A x \in S : x <= c
    <3> HIDE DEF S
    <3> QED BY <2>3, <2>4, Greatest
  <2>6. \E c \in S : \A n \in looked : n \div DBLKBITS <= c
    BY <2>5
  <2>7. b \in S
    BY <2>6
  <2> HIDE DEF b, S
  <2> QED BY <1>2, <2>3, <2>7 DEF TypeInv, DirTyped, InBlock
<1>3. \/ UNCHANGED dirbuffer
      \/ looked # {} /\ dirbno' = b /\ dirbuf' = InBlock(dir, b) /\ UNCHANGED maxbno
  BY DEF DirWalk
<1> QED BY <1>1, <1>2, <1>3

LEMMA InitBitsTyped == Init => BitsTyped
<1> SUFFICES ASSUME Init, NEW h \in Nat, NEW d \in Depths, BitOf(h, d) \in dir \cup dirbuf
             PROVE  d < MaxDepth /\ (h % 2 ^ d) + 2 ^ d < npag
  BY DEF BitsTyped
<1>1. BitOf(h, d) \in InitBits /\ npag = Len(InitPages)
  BY DEF Init
<1>2. PICK e \in 0 .. MaxDepth - 1 : \E i \in 0 .. 2 ^ e - 1 :
        BitOf(h, d) = i + 2 ^ e - 1 /\ i + 2 ^ e < Len(InitPages)
  BY <1>1, FileAssumption DEF FileAssumption
<1>3. PICK i \in 0 .. 2 ^ e - 1 : BitOf(h, d) = i + 2 ^ e - 1 /\ i + 2 ^ e < Len(InitPages)
  BY <1>2
<1>4. e \in Depths /\ e < MaxDepth
  BY Deepest DEF Depths
<1>5. i % 2 ^ e = i /\ i \in Nat
  <2>1. 2 ^ e \in Nat /\ 2 ^ e > 0
    BY <1>4, Powers
  <2>2. i = (2 ^ e) * 0 + i /\ i \in Nat
    BY <2>1
  <2> QED BY <2>1, <2>2, Remainder
<1>6. BitOf(h, d) = BitOf(i, e)
  BY <1>3, <1>5 DEF BitOf
<1>7. d = e /\ h % 2 ^ d = i
  BY <1>4, <1>5, <1>6, SameBit
<1> QED BY <1>1, <1>3, <1>4, <1>7

LEMMA InitTypes == Init => TypeInv
<1> SUFFICES ASSUME Init PROVE TypeInv
  OBVIOUS
<1>1. PagesTyped
  <2>1. npag = Len(InitPages) /\ npag \in Nat /\ npag <= 2 ^ MaxDepth
    BY NdbmAssumption DEF Init, NdbmAssumption
  <2>2. \A b \in Blocks : (IF b < Len(InitPages) THEN InitPages[b + 1] ELSE << >>) \in Seq(Pair)
    <3> TAKE b \in Blocks
    <3>1. b \in Nat
      BY DEF Blocks
    <3>2. b < Len(InitPages) => InitPages[b + 1] \in Seq(Pair)
      <4> HAVE b < Len(InitPages)
      <4>1. b + 1 \in 1 .. Len(InitPages)
        BY <2>1, <3>1
      <4> QED BY <4>1, NdbmAssumption DEF NdbmAssumption
    <3> QED BY <3>2, EmptyPage
  <2>3. pag \in [Blocks -> Seq(Pair)]
    BY <2>2 DEF Init
  <2> QED BY <2>1, <2>3, Deepest DEF PagesTyped
<1>2. BufferTyped /\ DirTyped /\ FlagsTyped
  BY DEF Init, BufferTyped, DirTyped, FlagsTyped, InStore
<1>3. ScanTyped
  BY Deepest DEF Init, ScanTyped, NoScan
<1>4. StoreTyped
  BY EmptyPage DEF Init, StoreTyped, NoStore, InStore
<1> QED BY <1>1, <1>2, <1>3, <1>4, InitBitsTyped DEF TypeInv

LEMMA OpenTypes == ASSUME DirInv, TypeInv, NEW ro \in Modes, Open(ro) PROVE TypeInv'
<1>1. /\ pc = "closed" /\ pc' = "idle" /\ pagbno' = None /\ pagbuf' = Junk
      /\ dirbno' = None /\ dirbuf' = {} /\ maxbno' = ndir * DBLKBITS - 1
      /\ ioerr' = FALSE /\ rdonly' = ro
      /\ scan' = NoScan /\ UNCHANGED <<pag, npag, dir, ndir, blkptr, keyptr, st>>
  BY DEF Open, file
<1>2. PagesTyped' /\ npag \in Nat
  BY <1>1 DEF TypeInv, PagesTyped
<1>3. BufferTyped'
  BY <1>1 DEF TypeInv, BufferTyped
<1>4. DirTyped'
  <2>1. ndir * DBLKBITS \in Nat
    BY NdbmAssumption DEF DirInv, NdbmAssumption
  <2>2. maxbno' \in Nat \cup {None}
    BY <1>1, <2>1 DEF None
  <2> QED BY <1>1, <2>2 DEF DirTyped
<1>5. FlagsTyped'
  BY <1>1, NdbmAssumption DEF FlagsTyped, NdbmAssumption
<1>6. ScanTyped'
  BY <1>1 DEF TypeInv, ScanTyped, NoScan
<1>7. StoreTyped'
  BY <1>1 DEF TypeInv, StoreTyped, InStore
<1>8. BitsTyped'
  BY <1>1, <1>2, KeepBits
<1> QED BY <1>2, <1>3, <1>4, <1>5, <1>6, <1>7, <1>8 DEF TypeInv

LEMMA ForgetTypes == ASSUME TypeInv, Forget PROVE TypeInv'
<1>1. /\ pc' = "closed" /\ st' = NoStore /\ pagbno' = None /\ pagbuf' = << >>
      /\ dirbno' = None /\ dirbuf' = {} /\ maxbno' = None /\ ioerr' = FALSE /\ rdonly' = FALSE
      /\ blkptr' = 0 /\ keyptr' = 0 /\ scan' = NoScan /\ UNCHANGED <<pag, npag, dir>>
  BY DEF Forget, file
<1>2. PagesTyped' /\ npag \in Nat
  BY <1>1 DEF TypeInv, PagesTyped
<1>3. BufferTyped' /\ DirTyped' /\ FlagsTyped'
  BY <1>1 DEF BufferTyped, DirTyped, FlagsTyped, InStore
<1>4. ScanTyped'
  BY <1>1, Deepest DEF ScanTyped, NoScan
<1>5. StoreTyped'
  BY <1>1, EmptyPage DEF StoreTyped, NoStore, InStore
<1>6. BitsTyped'
  BY <1>1, <1>2, KeepBits
<1> QED BY <1>2, <1>3, <1>4, <1>5, <1>6 DEF TypeInv

\* Calls that are refused, and the start of a scan.
LEMMA IdleTypes ==
  ASSUME TypeInv, NoEmptyScan, Refused \/ RefusedWrite \/ FirstKey \/ NextKey PROVE TypeInv'
<1>1. /\ pc = "idle" /\ UNCHANGED <<pag, npag, dir, pagbno, pagbuf, dirbuffer, ioerr, rdonly, st>>
      /\ \/ pc' = "idle" /\ UNCHANGED <<blkptr, keyptr, scan>>
         \/ pc' = "next" /\ scan.on /\ UNCHANGED <<blkptr, keyptr, scan>>
         \/ /\ pc' = "next" /\ Scans /\ blkptr' = 0 /\ keyptr' = 0
            /\ scan' = [NoScan EXCEPT !.on = TRUE, !.clean = TRUE]
  BY DEF Refused, RefusedWrite, FirstKey, NextKey, Ready, Return, file, pagebuffer, position
<1>2. PagesTyped' /\ npag \in Nat
  BY <1>1 DEF TypeInv, PagesTyped
<1>3. BufferTyped' /\ DirTyped' /\ FlagsTyped'
  BY <1>1 DEF TypeInv, BufferTyped, DirTyped, FlagsTyped, InStore, dirbuffer
<1>4. ScanTyped'
  <2>1. CASE pc' = "next" /\ Scans /\ blkptr' = 0 /\ keyptr' = 0
             /\ scan' = [NoScan EXCEPT !.on = TRUE, !.clean = TRUE]
    <3>1. npag > 0
      <4>1. Len(InitPages) \in Nat /\ Len(InitPages) # 0
        BY <2>1, NdbmAssumption DEF NoEmptyScan, NdbmAssumption
      <4>2. Len(InitPages) <= npag
        BY DEF TypeInv, PagesTyped
      <4> QED BY <1>2, <4>1, <4>2
    <3>2. scan' = [on |-> TRUE, clean |-> TRUE, seen |-> << >>, moved |-> {}]
      BY <2>1 DEF NoScan
    <3>3. Scans = TRUE
      BY <2>1, NdbmAssumption DEF NdbmAssumption
    <3>4. /\ scan' = [on |-> scan'.on, clean |-> scan'.clean, seen |-> scan'.seen,
                      moved |-> scan'.moved]
          /\ scan'.on = TRUE
      BY <3>2
    <3>5. blkptr' \in 0 .. 2 ^ MaxDepth /\ keyptr' \in Nat /\ blkptr' < npag'
      BY <1>1, <2>1, <3>1, Deepest
    <3> QED BY <2>1, <3>3, <3>4, <3>5 DEF ScanTyped
  <2>2. CASE pc' = "next" /\ scan.on /\ UNCHANGED <<blkptr, keyptr, scan>>
    BY <1>1, <2>2 DEF TypeInv, ScanTyped
  <2>3. CASE pc' = "idle" /\ UNCHANGED <<blkptr, keyptr, scan>>
    BY <1>1, <2>3 DEF TypeInv, ScanTyped
  <2> QED BY <1>1, <2>1, <2>2, <2>3
<1>5. StoreTyped'
  BY <1>1 DEF TypeInv, StoreTyped, InStore
<1>6. BitsTyped'
  BY <1>1, <1>2, KeepBits DEF dirbuffer
<1> QED BY <1>2, <1>3, <1>4, <1>5, <1>6 DEF TypeInv

\* The page a call walked to is in the buffer.
LEMMA BufferAt ==
  ASSUME TypeInv, NEW b \in Blocks, pagbno' = b, pagbuf' \in Seq(Pair), pc' # "closed"
  PROVE  BufferTyped'
BY DEF BufferTyped

\* A walk on behalf of a scan's program ends in the file.
LEMMA ScanAt ==
  ASSUME TypeInv, NoEmptyScan, UNCHANGED <<blkptr, keyptr>>, scan'.on = scan.on,
         scan' = [on |-> scan'.on, clean |-> scan'.clean, seen |-> scan'.seen, moved |-> scan'.moved],
         pc' # "next", npag' \in Nat, npag <= npag',
         pagbno' \in Nat, pagbno' = pagbno \/ pagbno' < npag \/ npag = 0
  PROVE  ScanTyped'
<1>1. scan'.on \in BOOLEAN /\ blkptr' \in 0 .. 2 ^ MaxDepth /\ keyptr' \in Nat
  BY DEF TypeInv, ScanTyped
<1>2. scan'.on => Scans = TRUE /\ (blkptr' = pagbno' => blkptr' < npag')
  <2> HAVE scan'.on
  <2>1. Scans = TRUE /\ (blkptr = pagbno => blkptr < npag)
    BY DEF TypeInv, ScanTyped
  <2>2. npag \in Nat /\ npag # 0
    <3>1. Len(InitPages) \in Nat /\ Len(InitPages) # 0
      BY <2>1, NdbmAssumption DEF NoEmptyScan, NdbmAssumption
    <3>2. Len(InitPages) <= npag /\ npag \in Nat
      BY DEF TypeInv, PagesTyped
    <3> QED BY <3>1, <3>2
  <2> QED BY <2>1, <2>2
<1> QED BY <1>1, <1>2 DEF ScanTyped

LEMMA FetchTypes ==
  ASSUME DirInv, TypeInv, NoEmptyScan, NEW k \in Keys, Fetch(k) PROVE TypeInv'
<1> DEFINE b == Blk(k, LeafMask(k))
<1>1. /\ pc = "idle" /\ pc' = "idle" /\ WithinBound(k) /\ DirWalk(k)
      /\ pagbno' = b /\ pagbuf' = Loaded(b)
      /\ UNCHANGED <<pag, npag, dir, ioerr, rdonly, st, blkptr, keyptr, scan>>
  BY DEF Fetch, Ready, Return, file, position
<1>2. b \in Blocks /\ b \in Nat /\ (b < npag \/ npag = 0)
  BY <1>1, WalkInFile
<1> HIDE DEF b
<1>3. PagesTyped' /\ npag \in Nat
  BY <1>1 DEF TypeInv, PagesTyped
<1>4. BufferTyped'
  BY <1>1, <1>2, BufferAt, LoadedType
<1>5. DirTyped' /\ BitsTyped'
  BY <1>1, <1>3, WalkTypes, KeepBits
<1>6. FlagsTyped'
  BY <1>1 DEF TypeInv, FlagsTyped
<1>7. ScanTyped'
  <2>1. scan = [on |-> scan.on, clean |-> scan.clean, seen |-> scan.seen, moved |-> scan.moved]
    BY DEF TypeInv, ScanTyped
  <2> QED BY <1>1, <1>2, <1>3, <2>1, ScanAt
<1>8. StoreTyped'
  BY <1>1 DEF TypeInv, StoreTyped, InStore
<1> QED BY <1>3, <1>4, <1>5, <1>6, <1>7, <1>8 DEF TypeInv

LEMMA DeleteTypes ==
  ASSUME DirInv, TypeInv, NoEmptyScan, NEW k \in Keys, Delete(k) PROVE TypeInv'
<1> DEFINE b == Blk(k, LeafMask(k))
           p == Loaded(b)
           rest == Without(p, Place(p, k))
<1>1. /\ pc = "idle" /\ pc' = "idle" /\ WithinBound(k) /\ DirWalk(k) /\ pagbno' = b
      /\ UNCHANGED <<rdonly, st, blkptr, keyptr>>
  BY DEF Delete, Ready, Return
<1>2. b \in Blocks /\ b \in Nat /\ (b < npag \/ npag = 0) /\ p \in Seq(Pair)
  BY <1>1, WalkInFile, LoadedType
<1>3. \/ pagbuf' = p /\ UNCHANGED <<pag, npag, dir, ioerr, scan>>
      \/ /\ Has(p, k) /\ pagbuf' = rest /\ scan' = MovedOn(b)
         /\ \/ WritePage(b, rest) /\ ioerr' = ioerr
            \/ ioerr' = TRUE /\ UNCHANGED <<pag, npag, dir>>
  BY DEF Delete, WriteWorks, WriteFails, file
<1>4. Has(p, k) => rest \in Seq(Pair)
  BY <1>2, PlaceFound, WithoutType
<1> HIDE DEF b, p, rest
<1>5. /\ PagesTyped' /\ npag \in Nat /\ npag' \in Nat /\ npag <= npag' /\ dir' = dir
  <2>1. PagesTyped /\ npag \in Nat
    BY DEF TypeInv, PagesTyped
  <2>2. CASE Has(p, k) /\ WritePage(b, rest)
    BY <1>2, <1>4, <2>1, <2>2, WriteType
  <2>3. CASE UNCHANGED <<pag, npag, dir>>
    BY <2>1, <2>3 DEF PagesTyped
  <2> QED BY <1>3, <2>2, <2>3
<1>6. BufferTyped'
  BY <1>1, <1>2, <1>3, <1>4, BufferAt
<1>7. DirTyped' /\ BitsTyped'
  BY <1>1, <1>5, WalkTypes, KeepBits
<1>8. FlagsTyped'
  BY <1>1, <1>3 DEF TypeInv, FlagsTyped
<1>9. ScanTyped'
  <2>1. scan = [on |-> scan.on, clean |-> scan.clean, seen |-> scan.seen, moved |-> scan.moved]
    BY DEF TypeInv, ScanTyped
  <2>2. scan'.on = scan.on
        /\ scan' = [on |-> scan'.on, clean |-> scan'.clean, seen |-> scan'.seen, moved |-> scan'.moved]
    <3>1. scan' = scan \/ scan' = [scan EXCEPT !.moved = @ \cup {b}]
      BY <1>3 DEF MovedOn
    <3> QED BY <2>1, <3>1
  <2> QED BY <1>1, <1>2, <1>5, <2>2, ScanAt
<1>10. StoreTyped'
  BY <1>1 DEF TypeInv, StoreTyped, InStore
<1> QED BY <1>5, <1>6, <1>7, <1>8, <1>9, <1>10 DEF TypeInv

LEMMA StoreTypes ==
  ASSUME TypeInv, NEW k \in Keys, NEW v \in Vals, NEW r \in BOOLEAN, Store(k, v, r)
  PROVE  TypeInv'
<1>1. /\ pc = "idle" /\ pc' = "access" /\ ~rdonly
      /\ st' = [key |-> k, val |-> v, replace |-> r, mask |-> 0, blk |-> 0, i |-> 1,
                ovf |-> << >>, leaf |-> OnDiskMask(k)]
      /\ scan' = [scan EXCEPT !.clean = FALSE, !.seen = << >>, !.moved = {}]
      /\ UNCHANGED <<pag, npag, dir, pagbno, pagbuf, dirbuffer, ioerr, rdonly, blkptr, keyptr>>
  BY DEF Store, Ready, NoStore, Unclean, file, pagebuffer
<1>2. PagesTyped' /\ npag \in Nat
  BY <1>1 DEF TypeInv, PagesTyped
<1>3. BufferTyped' /\ DirTyped' /\ FlagsTyped'
  BY <1>1 DEF TypeInv, BufferTyped, DirTyped, FlagsTyped, InStore, dirbuffer
<1>4. ScanTyped'
  <2>1. scan = [on |-> scan.on, clean |-> scan.clean, seen |-> scan.seen, moved |-> scan.moved]
    BY DEF TypeInv, ScanTyped
  <2>2. scan'.on = scan.on
        /\ scan' = [on |-> scan'.on, clean |-> scan'.clean, seen |-> scan'.seen, moved |-> scan'.moved]
    BY <1>1, <2>1
  <2> QED BY <1>1, <2>2 DEF TypeInv, ScanTyped
<1>5. StoreTyped'
  <2>1. rdonly' = FALSE
    BY <1>1 DEF TypeInv, FlagsTyped
  <2> QED BY <1>1, <2>1, EmptyPage DEF StoreTyped, InStore
<1>6. BitsTyped'
  BY <1>1, <1>2, KeepBits DEF dirbuffer
<1> QED BY <1>2, <1>3, <1>4, <1>5, <1>6 DEF TypeInv

LEMMA NoStoreTypes ==
  ASSUME st' = NoStore, pc' \notin InStore
  PROVE  StoreTyped'
BY EmptyPage DEF StoreTyped, NoStore, InStore

\* Steps of a store that leave a scan where it was.
LEMMA ScanStays ==
  ASSUME TypeInv, UNCHANGED <<position, pagbno>>, pc' # "next", npag' \in Nat, npag <= npag'
  PROVE  ScanTyped'
<1>1. npag \in Nat
  BY DEF TypeInv, PagesTyped
<1>2. blkptr \in Nat
  BY Deepest DEF TypeInv, ScanTyped
<1> QED BY <1>1, <1>2 DEF TypeInv, ScanTyped, position

LEMMA AccessTypes ==
  ASSUME BufferInv, DirInv, TypeInv, NoEmptyScan, StoreAccess PROVE TypeInv'
<1> DEFINE k == st.key
           m == LeafMask(st.key)
           b == Blk(st.key, m)
           p == Loaded(b)
           rest == IF Has(p, st.key) THEN Without(p, Place(p, st.key)) ELSE p
           more == Append(rest, <<st.key, st.val>>)
           s == [st EXCEPT !.mask = m, !.blk = b, !.i = 1, !.ovf = << >>]
<1>1. /\ pc = "access" /\ WithinBound(k) /\ DirWalk(k) /\ pagbno' = b
      /\ UNCHANGED <<rdonly, blkptr, keyptr, scan>>
  BY DEF StoreAccess, position
<1>2. k \in Keys /\ st.val \in Vals /\ st.replace \in BOOLEAN /\ rdonly = FALSE /\ <<k, st.val>> \in Pair
      /\ st.leaf = st.leaf
  BY <1>1 DEF TypeInv, StoreTyped, InStore, Pair
<1>3. b \in Blocks /\ b \in Nat /\ (b < npag \/ npag = 0) /\ p \in Seq(Pair)
  BY <1>1, <1>2, WalkInFile, LoadedType
<1>4. \E d \in Depths : m = 2 ^ d - 1 /\ b < 2 ^ d
  <2>1. PICK d \in Depths : m = 2 ^ d - 1 /\ b = Hash[k] % 2 ^ d
    BY <1>1, <1>2, WalkEnds
  <2>2. b < 2 ^ d
    BY <1>2, <2>1, HashType, PageOf
  <2> QED BY <2>1, <2>2
<1>5. rest \in Seq(Pair)
  BY <1>3, RestType
<1>6. more \in Seq(Pair)
  BY <1>2, <1>5, AppendPairs
<1>7. /\ \/ /\ pc' = "idle" /\ st' = NoStore
         \/ pc' = "split" /\ st' = s /\ UNCHANGED <<pag, npag, dir, ioerr>> /\ pagbuf' = rest
      /\ \/ pagbuf' = p \/ pagbuf' = rest \/ pagbuf' = more
      /\ \/ WritePage(b, more) /\ ioerr' = ioerr
         \/ ioerr' \in {ioerr, TRUE} /\ UNCHANGED <<pag, npag, dir>>
  BY DEF StoreAccess, StoreDone, Return, WriteWorks, WriteFails, file
<1> HIDE DEF m, b, p, rest, more
<1>8. /\ PagesTyped' /\ npag \in Nat /\ npag' \in Nat /\ npag <= npag' /\ dir' = dir
  <2>1. PagesTyped /\ npag \in Nat
    BY DEF TypeInv, PagesTyped
  <2>2. CASE WritePage(b, more)
    BY <1>3, <1>6, <2>1, <2>2, WriteType
  <2>3. CASE UNCHANGED <<pag, npag, dir>>
    BY <2>1, <2>3 DEF PagesTyped
  <2> QED BY <1>7, <2>2, <2>3
<1>9. BufferTyped'
  <2>1. pagbuf' \in Seq(Pair)
    BY <1>3, <1>5, <1>6, <1>7
  <2>2. pc' # "closed"
    BY <1>7
  <2> QED BY <1>1, <1>3, <2>1, <2>2, BufferAt
<1>10. DirTyped' /\ BitsTyped'
  BY <1>1, <1>2, <1>8, WalkTypes, KeepBits
<1>11. FlagsTyped'
  BY <1>1, <1>7 DEF TypeInv, FlagsTyped, InStore
<1>12. ScanTyped'
  <2>1. scan = [on |-> scan.on, clean |-> scan.clean, seen |-> scan.seen, moved |-> scan.moved]
    BY DEF TypeInv, ScanTyped
  <2>2. pc' # "next"
    BY <1>7
  <2> QED BY <1>1, <1>3, <1>8, <2>1, <2>2, ScanAt
<1>13. StoreTyped'
  <2>1. CASE pc' = "idle" /\ st' = NoStore
    BY <2>1, NoStoreTypes DEF InStore
  <2>2. CASE pc' = "split" /\ st' = s /\ pagbuf' = rest
    <3>1. st = [key |-> st.key, val |-> st.val, replace |-> st.replace, mask |-> st.mask,
                blk |-> st.blk, i |-> st.i, ovf |-> st.ovf, leaf |-> st.leaf]
      BY DEF BufferInv, StoreShape
    <3>2. /\ st'.key = k /\ st'.val = st.val /\ st'.replace = st.replace
          /\ st'.mask = m /\ st'.blk = b /\ st'.i = 1 /\ st'.ovf = << >>
      <4>1. st' = [key |-> st.key, val |-> st.val, replace |-> st.replace, mask |-> m,
                   blk |-> b, i |-> 1, ovf |-> << >>, leaf |-> st.leaf]
        BY <2>2, <3>1
      <4> QED BY <4>1
    <3>3. /\ st'.ovf \in Seq(Pair) /\ st'.i \in Nat \ {0} /\ pagbuf' \in Seq(Pair)
          /\ pagbno' = st'.blk /\ rdonly' = FALSE
      BY <1>1, <1>2, <1>5, <2>2, <3>2, EmptyPage
    <3>4. \E d \in Depths : st'.mask = 2 ^ d - 1 /\ st'.blk \in Nat /\ st'.blk < 2 ^ d
      BY <1>3, <1>4, <3>2
    <3> QED BY <1>2, <2>2, <3>2, <3>3, <3>4 DEF StoreTyped, InStore
  <2> QED BY <1>7, <2>1, <2>2
<1> QED BY <1>8, <1>9, <1>10, <1>11, <1>12, <1>13 DEF TypeInv

\* What is known of a store while it splits a page.
LEMMA Splitting ==
  ASSUME BufferInv, TypeInv, pc \in InStore \ {"access"}
  PROVE  /\ st.key \in Keys /\ st.val \in Vals /\ st.replace \in BOOLEAN /\ rdonly = FALSE
         /\ st.i \in Nat /\ st.i # 0 /\ pagbuf \in Seq(Pair) /\ st.ovf \in Seq(Pair)
         /\ pagbno = st.blk /\ st.blk \in Nat /\ st.mask \in Nat /\ st.blk \in Blocks
         /\ \E d \in Depths : st.mask = 2 ^ d - 1 /\ st.blk < 2 ^ d
<1>1. /\ st.key \in Keys /\ st.val \in Vals /\ st.replace \in BOOLEAN /\ rdonly = FALSE
      /\ st.i \in Nat /\ st.i # 0 /\ pagbuf \in Seq(Pair) /\ st.ovf \in Seq(Pair)
      /\ pagbno = st.blk
      /\ \E d \in Depths : st.mask = 2 ^ d - 1 /\ st.blk \in Nat /\ st.blk < 2 ^ d
  BY DEF TypeInv, StoreTyped, InStore
<1>2. st.blk \in Nat /\ st.mask \in Nat
  BY DEF BufferInv, InStore
<1>3. PICK d \in Depths : st.mask = 2 ^ d - 1 /\ st.blk < 2 ^ d
  BY <1>1
<1>4. st.blk % 2 ^ d = st.blk
  <2>1. 2 ^ d \in Nat /\ 2 ^ d > 0
    BY Powers
  <2>2. st.blk = (2 ^ d) * 0 + st.blk /\ st.blk \in 0 .. 2 ^ d - 1
    BY <1>2, <1>3, <2>1
  <2> QED BY <1>2, <2>1, <2>2, Remainder
<1>5. st.blk \in Blocks
  BY <1>2, <1>4, PageInBlocks
<1> QED BY <1>1, <1>2, <1>3, <1>5

LEMMA ItemTypes == ASSUME BufferInv, TypeInv, SplitItem PROVE TypeInv'
<1>1. /\ pc = "split" /\ pc' = "split" /\ st.i <= Len(pagbuf)
      /\ UNCHANGED <<pag, npag, dir, pagbno, dirbuffer, ioerr, rdonly, position>>
      /\ \/ /\ st' = [st EXCEPT !.ovf = Append(@, pagbuf[st.i])]
            /\ pagbuf' = Without(pagbuf, st.i)
         \/ st' = [st EXCEPT !.i = @ + 1] /\ UNCHANGED pagbuf
  BY DEF SplitItem, file
<1>2. /\ st.key \in Keys /\ st.val \in Vals /\ st.replace \in BOOLEAN /\ rdonly = FALSE
      /\ st.i \in Nat /\ st.i # 0 /\ pagbuf \in Seq(Pair) /\ st.ovf \in Seq(Pair)
      /\ pagbno = st.blk /\ st.blk \in Nat /\ st.blk \in Blocks
      /\ \E d \in Depths : st.mask = 2 ^ d - 1 /\ st.blk < 2 ^ d
  BY <1>1, Splitting DEF InStore
<1>3. st.i \in 1 .. Len(pagbuf)
  BY <1>1, <1>2
<1>4. pagbuf[st.i] \in Pair /\ Append(st.ovf, pagbuf[st.i]) \in Seq(Pair)
      /\ Without(pagbuf, st.i) \in Seq(Pair)
  BY <1>2, <1>3, WithoutType
<1>5. PagesTyped' /\ npag \in Nat
  BY <1>1 DEF TypeInv, PagesTyped
<1>6. pagbuf' \in Seq(Pair)
  BY <1>1, <1>2, <1>4
<1>7. BufferTyped'
  BY <1>1, <1>2, <1>6, BufferAt
<1>8. DirTyped' /\ FlagsTyped'
  BY <1>1 DEF TypeInv, DirTyped, FlagsTyped, InStore, dirbuffer
<1>9. ScanTyped'
  BY <1>1, <1>5, ScanStays
<1>10. StoreTyped'
  <2>1. st = [key |-> st.key, val |-> st.val, replace |-> st.replace, mask |-> st.mask,
              blk |-> st.blk, i |-> st.i, ovf |-> st.ovf, leaf |-> st.leaf]
    BY DEF BufferInv, StoreShape
  <2>2. /\ st'.key = st.key /\ st'.val = st.val /\ st'.replace = st.replace
        /\ st'.mask = st.mask /\ st'.blk = st.blk
        /\ st'.i \in {st.i, st.i + 1} /\ st'.ovf \in {st.ovf, Append(st.ovf, pagbuf[st.i])}
    BY <1>1, <2>1
  <2>3. st'.ovf \in Seq(Pair)
    BY <1>2, <1>4, <2>2
  <2>4. st'.i \in Nat \ {0}
    BY <1>2, <2>2
  <2> QED BY <1>1, <1>2, <1>6, <2>2, <2>3, <2>4 DEF StoreTyped, InStore
<1>11. BitsTyped'
  BY <1>1, <1>5, KeepBits DEF dirbuffer
<1> QED BY <1>5, <1>7, <1>8, <1>9, <1>10, <1>11 DEF TypeInv

LEMMA LowTypes == ASSUME BufferInv, TypeInv, SplitLow PROVE TypeInv'
<1>1. /\ pc = "split" /\ pagbno' = st.blk
      /\ UNCHANGED <<pagbuf, dir, dirbuffer, rdonly, position>>
      /\ \/ WritePage(st.blk, pagbuf) /\ pc' = "high" /\ UNCHANGED <<st, ioerr>>
         \/ /\ UNCHANGED <<pag, npag>> /\ ioerr' = TRUE
            /\ pc' = "idle" /\ st' = NoStore
  BY DEF SplitLow, StoreDone, Return, WriteWorks, WriteFails, WritePage, file
<1>2. /\ st.key \in Keys /\ st.val \in Vals /\ st.replace \in BOOLEAN /\ rdonly = FALSE
      /\ st.i \in Nat /\ st.i # 0 /\ pagbuf \in Seq(Pair) /\ st.ovf \in Seq(Pair)
      /\ pagbno = st.blk /\ st.blk \in Nat /\ st.blk \in Blocks
      /\ \E d \in Depths : st.mask = 2 ^ d - 1 /\ st.blk < 2 ^ d
  BY <1>1, Splitting DEF InStore
<1>3. PagesTyped' /\ npag \in Nat /\ npag' \in Nat /\ npag <= npag'
  <2>1. PagesTyped /\ npag \in Nat
    BY DEF TypeInv, PagesTyped
  <2>2. CASE WritePage(st.blk, pagbuf)
    BY <1>2, <2>1, <2>2, WriteType
  <2>3. CASE UNCHANGED <<pag, npag>>
    BY <2>1, <2>3 DEF PagesTyped
  <2> QED BY <1>1, <2>2, <2>3
<1>4. pc' # "closed" /\ pc' # "next"
  BY <1>1
<1>5. BufferTyped'
  BY <1>1, <1>2, <1>4, BufferAt
<1>6. DirTyped' /\ FlagsTyped'
  BY <1>1 DEF TypeInv, DirTyped, FlagsTyped, InStore, dirbuffer
<1>7. ScanTyped'
  BY <1>1, <1>2, <1>3, <1>4, ScanStays
<1>8. StoreTyped'
  <2>1. CASE pc' = "idle" /\ st' = NoStore
    BY <2>1, NoStoreTypes DEF InStore
  <2>2. CASE pc' = "high" /\ UNCHANGED st
    BY <1>1, <1>2, <2>2 DEF StoreTyped, InStore
  <2> QED BY <1>1, <2>1, <2>2
<1>9. BitsTyped'
  BY <1>1, <1>3, KeepBits DEF dirbuffer
<1> QED BY <1>3, <1>5, <1>6, <1>7, <1>8, <1>9 DEF TypeInv

LEMMA HighTypes == ASSUME BufferInv, TypeInv, SplitHigh PROVE TypeInv'
<1>1. /\ pc = "high" /\ High \in Blocks
      /\ UNCHANGED <<pagbno, pagbuf, dir, dirbuffer, rdonly, position>>
      /\ \/ WritePage(High, st.ovf) /\ pc' = "bit" /\ UNCHANGED <<st, ioerr>>
         \/ /\ UNCHANGED <<pag, npag>> /\ ioerr' = TRUE
            /\ pc' = "idle" /\ st' = NoStore
  BY DEF SplitHigh, StoreDone, Return, WriteWorks, WriteFails, WritePage, file, pagebuffer
<1>2. /\ st.key \in Keys /\ st.val \in Vals /\ st.replace \in BOOLEAN /\ rdonly = FALSE
      /\ st.i \in Nat /\ st.i # 0 /\ pagbuf \in Seq(Pair) /\ st.ovf \in Seq(Pair)
      /\ pagbno = st.blk /\ st.blk \in Nat /\ st.blk \in Blocks
      /\ \E d \in Depths : st.mask = 2 ^ d - 1 /\ st.blk < 2 ^ d
  BY <1>1, Splitting DEF InStore
<1>3. PagesTyped' /\ npag \in Nat /\ npag' \in Nat /\ npag <= npag'
      /\ (WritePage(High, st.ovf) => High < npag')
  <2>1. PagesTyped /\ npag \in Nat
    BY DEF TypeInv, PagesTyped
  <2>2. CASE WritePage(High, st.ovf)
    BY <1>1, <1>2, <2>1, <2>2, WriteType
  <2>3. CASE UNCHANGED <<pag, npag>> /\ ~WritePage(High, st.ovf)
    BY <2>1, <2>3 DEF PagesTyped
  <2> QED BY <1>1, <2>2, <2>3
<1>4. pc' # "closed" /\ pc' # "next"
  BY <1>1
<1>5. BufferTyped'
  BY <1>1, <1>2, <1>4, BufferAt
<1>6. DirTyped' /\ FlagsTyped'
  BY <1>1 DEF TypeInv, DirTyped, FlagsTyped, InStore, dirbuffer
<1>7. ScanTyped'
  BY <1>1, <1>2, <1>3, <1>4, ScanStays
<1>8. StoreTyped'
  <2>1. CASE pc' = "idle" /\ st' = NoStore
    BY <2>1, NoStoreTypes DEF InStore
  <2>2. CASE pc' = "bit" /\ UNCHANGED st /\ WritePage(High, st.ovf)
    <3>1. High' = High /\ High' < npag'
      BY <1>3, <2>2 DEF High
    <3> QED BY <1>1, <1>2, <2>2, <3>1 DEF StoreTyped, InStore
  <2> QED BY <1>1, <2>1, <2>2
<1>9. BitsTyped'
  BY <1>1, <1>3, KeepBits DEF dirbuffer
<1> QED BY <1>3, <1>5, <1>6, <1>7, <1>8, <1>9 DEF TypeInv

\* The bit of a page that was split, by the number of the page and its mask.
LEMMA SplitBitOf ==
  ASSUME BufferInv, TypeInv, pc \in InStore \ {"access"}
  PROVE  \E d \in Depths :
           /\ st.mask = 2 ^ d - 1 /\ st.mask + 1 = 2 ^ d
           /\ st.blk \in Nat /\ st.blk < 2 ^ d /\ st.blk % 2 ^ d = st.blk
           /\ st.blk + st.mask = BitOf(st.blk, d)
           /\ High = st.blk + 2 ^ d
<1>1. PICK d \in Depths : st.mask = 2 ^ d - 1 /\ st.blk < 2 ^ d
  BY Splitting
<1>2. st.blk \in Nat /\ 2 ^ d \in Nat /\ 2 ^ d > 0
  BY Splitting, Powers
<1>3. st.blk % 2 ^ d = st.blk
  <2>1. st.blk = (2 ^ d) * 0 + st.blk /\ st.blk \in 0 .. 2 ^ d - 1
    BY <1>1, <1>2
  <2> QED BY <1>2, <2>1, Remainder
<1>4. st.mask + 1 = 2 ^ d /\ High = st.blk + 2 ^ d /\ st.blk + st.mask = st.blk + 2 ^ d - 1
  BY <1>1, <1>2 DEF High
<1> QED BY <1>1, <1>2, <1>3, <1>4 DEF BitOf

LEMMA BitTypes == ASSUME BufferInv, DirInv, TypeInv, SplitBit PROVE TypeInv'
<1> DEFINE n == st.blk + st.mask
           b == n \div DBLKBITS
           bits == (IF b = dirbno THEN dirbuf ELSE InBlock(dir, b)) \cup {n}
<1>1. /\ pc = "bit" /\ pc' = "access" /\ dirbno' = b /\ dirbuf' = bits
      /\ maxbno' = (IF n > maxbno THEN n ELSE maxbno)
      /\ UNCHANGED <<pag, npag, pagbno, pagbuf, rdonly, position, st>>
      /\ dir' = (dir \ InBlock(dir, b)) \cup bits \/ dir' = dir
      /\ ioerr' \in {ioerr, TRUE}
  BY DEF SplitBit, WriteWorks, WriteFails, file, pagebuffer
<1>2. n \in Nat /\ b \in Nat
  BY <1>1, BlockIsNat DEF BufferInv, InStore
<1>3. dir' \cup dirbuf' \subseteq dir \cup dirbuf \cup {n}
  BY <1>1 DEF InBlock
<1> HIDE DEF bits, b
<1>4. PagesTyped' /\ npag \in Nat
  BY <1>1 DEF TypeInv, PagesTyped
<1>5. BufferTyped' /\ FlagsTyped'
  <2>1. BufferTyped'
    BY <1>1 DEF TypeInv, BufferTyped, position
  <2>2. ioerr' \in BOOLEAN /\ rdonly' \in BOOLEAN
    BY <1>1 DEF TypeInv, FlagsTyped
  <2> QED BY <1>1, <2>1, <2>2 DEF FlagsTyped, InStore
<1>6. DirTyped'
  <2>1. maxbno' \in Nat \cup {None}
    BY <1>1, <1>2 DEF TypeInv, DirTyped
  <2> QED BY <1>1, <1>2, <2>1 DEF DirTyped
<1>7. ScanTyped'
  BY <1>1, <1>4, ScanStays
<1>8. StoreTyped'
  BY <1>1 DEF TypeInv, StoreTyped, InStore
<1>9. BitsTyped'
  <2> SUFFICES ASSUME NEW h \in Nat, NEW d \in Depths, BitOf(h, d) \in dir' \cup dirbuf'
               PROVE  d < MaxDepth /\ (h % 2 ^ d) + 2 ^ d < npag
    BY <1>1 DEF BitsTyped
  <2>1. CASE BitOf(h, d) \in dir \cup dirbuf
    BY <2>1 DEF TypeInv, BitsTyped
  <2>2. CASE BitOf(h, d) = n
    <3>1. PICK e \in Depths : /\ st.blk \in Nat /\ st.blk % 2 ^ e = st.blk
                              /\ n = BitOf(st.blk, e) /\ High = st.blk + 2 ^ e
      BY <1>1, SplitBitOf DEF InStore
    <3> HIDE DEF n
    <3>2. d = e /\ h % 2 ^ d = st.blk
      BY <2>2, <3>1, SameBit
    <3>3. High \in Blocks /\ High < npag
      BY <1>1 DEF TypeInv, StoreTyped
    <3>4. d < MaxDepth
      <4>1. 2 ^ d < 2 ^ MaxDepth
        BY <3>1, <3>2, <3>3, Deepest, Powers DEF Blocks
      <4> QED BY <4>1, Deepest, DepthOrder
    <3> QED BY <3>1, <3>2, <3>3, <3>4
  <2> QED BY <1>3, <2>1, <2>2
<1> QED BY <1>4, <1>5, <1>6, <1>7, <1>8, <1>9 DEF TypeInv

LEMMA ScanTypes == ASSUME TypeInv, NoEmptyScan, NextKeyStep PROVE TypeInv'
<1> DEFINE load == blkptr # pagbno
           p == IF load THEN OnDisk(blkptr) ELSE pagbuf
<1>1. /\ pc = "next" /\ pagbno' = blkptr
      /\ UNCHANGED <<pag, npag, dir, dirbuffer, ioerr, rdonly, st>>
      /\ \/ /\ load /\ blkptr >= npag /\ scan' = NoScan /\ pc' = "idle"
            /\ UNCHANGED <<blkptr, keyptr, pagbuf>>
         \/ /\ ~(load /\ blkptr >= npag) /\ pagbuf' = p /\ keyptr' = keyptr + 1
            /\ \/ UNCHANGED scan
               \/ scan' = [scan EXCEPT !.seen = Append(@, p[keyptr + 1][1])]
            /\ pc' = "idle" /\ UNCHANGED blkptr
         \/ /\ ~(load /\ blkptr >= npag) /\ pagbuf' = p /\ blkptr' = blkptr + 1
            /\ keyptr' \in {keyptr, 0} /\ pc' = "next" /\ UNCHANGED scan
  <2>1. scan = [scan EXCEPT !.seen = @]
    BY DEF TypeInv, ScanTyped
  <2> QED BY <2>1 DEF NextKeyStep, Return, file
<1>2. /\ blkptr \in Nat /\ blkptr <= 2 ^ MaxDepth /\ keyptr \in Nat /\ scan.on
      /\ scan = [on |-> scan.on, clean |-> scan.clean, seen |-> scan.seen, moved |-> scan.moved]
      /\ Scans = TRUE /\ (blkptr = pagbno => blkptr < npag)
  BY <1>1, Deepest DEF TypeInv, ScanTyped
<1>3. PagesTyped' /\ npag \in Nat /\ npag <= 2 ^ MaxDepth
  BY <1>1, Deepest DEF TypeInv, PagesTyped
<1>4. npag # 0
  <2>1. Len(InitPages) \in Nat /\ Len(InitPages) # 0
    BY <1>2, NdbmAssumption DEF NoEmptyScan, NdbmAssumption
  <2>2. Len(InitPages) <= npag
    BY DEF TypeInv, PagesTyped
  <2> QED BY <1>3, <2>1, <2>2
<1>5. blkptr # None /\ blkptr \in Blocks \cup {2 ^ MaxDepth}
  BY <1>2, Deepest DEF None, Blocks
<1>6. ~(load /\ blkptr >= npag) => blkptr < npag /\ blkptr \in Blocks /\ p \in Seq(Pair)
  <2> HAVE ~(load /\ blkptr >= npag)
  <2>1. blkptr < npag
    BY <1>2, <1>3
  <2>2. blkptr \in Blocks
    BY <1>2, <1>3, <2>1, Deepest DEF Blocks
  <2>3. OnDisk(blkptr) \in Seq(Pair)
    BY <2>2, EmptyPage DEF TypeInv, PagesTyped, OnDisk
  <2>4. ~load => pagbuf \in Seq(Pair)
    BY <1>5 DEF TypeInv, BufferTyped
  <2> QED BY <2>1, <2>2, <2>3, <2>4
<1>7. load /\ blkptr >= npag => pagbuf \in Seq(Pair)
  <2> HAVE load /\ blkptr >= npag
  <2>1. blkptr # 0
    BY <1>3, <1>4
  <2> QED BY <2>1 DEF TypeInv, BufferTyped
<1> HIDE DEF load, p
<1>8. BufferTyped'
  <2>1. pagbuf' \in Seq(Pair)
    BY <1>1, <1>6, <1>7
  <2>2. pc' # "closed"
    BY <1>1
  <2> QED BY <1>1, <1>5, <2>1, <2>2 DEF BufferTyped
<1>9. DirTyped' /\ FlagsTyped'
  BY <1>1 DEF TypeInv, DirTyped, FlagsTyped, InStore, dirbuffer
<1>10. ScanTyped'
  <2>1. CASE scan' = NoScan /\ pc' = "idle" /\ UNCHANGED <<blkptr, keyptr>>
    <3>1. /\ scan' = [on |-> scan'.on, clean |-> scan'.clean, seen |-> scan'.seen,
                      moved |-> scan'.moved]
          /\ scan'.on \in BOOLEAN /\ ~scan'.on
      BY <2>1 DEF NoScan
    <3>2. blkptr' \in 0 .. 2 ^ MaxDepth /\ keyptr' \in Nat
      BY <1>2, <2>1, Deepest
    <3> QED BY <2>1, <3>1, <3>2 DEF ScanTyped
  <2>2. CASE /\ ~(load /\ blkptr >= npag) /\ keyptr' = keyptr + 1
             /\ \/ UNCHANGED scan
                \/ scan' = [scan EXCEPT !.seen = Append(@, p[keyptr + 1][1])]
             /\ pc' = "idle" /\ UNCHANGED blkptr
    <3>1. /\ scan' = [on |-> scan'.on, clean |-> scan'.clean, seen |-> scan'.seen,
                      moved |-> scan'.moved]
          /\ scan'.on = scan.on
      BY <1>2, <2>2
    <3>2. blkptr' < npag' /\ keyptr' \in Nat /\ blkptr' \in 0 .. 2 ^ MaxDepth
      BY <1>1, <1>2, <1>6, <2>2, Deepest
    <3>3. scan'.on \in BOOLEAN
      BY <3>1 DEF TypeInv, ScanTyped
    <3> QED BY <1>2, <2>2, <3>1, <3>2, <3>3 DEF ScanTyped
  <2>3. CASE /\ ~(load /\ blkptr >= npag) /\ blkptr' = blkptr + 1
             /\ keyptr' \in {keyptr, 0} /\ pc' = "next" /\ UNCHANGED scan
    <3>1. blkptr' # pagbno' /\ keyptr' \in Nat /\ blkptr' \in 0 .. 2 ^ MaxDepth
      BY <1>1, <1>2, <1>3, <1>6, <2>3, Deepest
    <3> QED BY <1>2, <2>3, <3>1 DEF TypeInv, ScanTyped
  <2> QED BY <1>1, <2>1, <2>2, <2>3
<1>11. StoreTyped'
  BY <1>1 DEF TypeInv, StoreTyped, InStore
<1>12. BitsTyped'
  BY <1>1, <1>3, KeepBits DEF dirbuffer
<1> QED BY <1>3, <1>8, <1>9, <1>10, <1>11, <1>12 DEF TypeInv

LEMMA NextTypes ==
  ASSUME BufferInv, DirInv, TypeInv, NoEmptyScan, [Next]_vars PROVE TypeInv'
<1>1. CASE (\E ro \in Modes : Open(ro)) \/ Close \/ Crash
  BY <1>1, OpenTypes, ForgetTypes DEF Close, Crash
<1>2. CASE \E k \in Keys : Fetch(k) \/ Delete(k)
  BY <1>2, FetchTypes, DeleteTypes
<1>3. CASE \E k \in Keys, v \in Vals, r \in BOOLEAN : Store(k, v, r)
  BY <1>3, StoreTypes
<1>4. CASE StoreAccess \/ SplitItem \/ SplitLow \/ SplitHigh \/ SplitBit
  BY <1>4, AccessTypes, ItemTypes, LowTypes, HighTypes, BitTypes
<1>5. CASE Refused \/ RefusedWrite \/ FirstKey \/ NextKey \/ NextKeyStep
  BY <1>5, IdleTypes, ScanTypes
<1>6. CASE UNCHANGED vars
  BY <1>6 DEF vars, file, pagebuffer, dirbuffer, position, TypeInv, PagesTyped, BufferTyped,
              DirTyped, FlagsTyped, ScanTyped, StoreTyped, BitsTyped, High
<1> QED BY <1>1, <1>2, <1>3, <1>4, <1>5, <1>6 DEF Next

LEMMA BlocksCount == Cardinality(Blocks) = 2 ^ MaxDepth
<1> DEFINE n == 2 ^ MaxDepth
<1>1. n \in Nat /\ n > 0
  BY Deepest
<1>2. Blocks = 0 .. n - 1
  BY DEF Blocks
<1> HIDE DEF n
<1>3. Cardinality(0 .. n - 1) = IF 0 <= n - 1 THEN n - 1 - 0 + 1 ELSE 0
  BY <1>1, FS_Interval
<1> QED BY <1>1, <1>2, <1>3 DEF n

\* The variables of the library, its buffers and its files stay what they are
\* declared to be (struct DBM in ndbm.h), if no empty data base is scanned.
THEOREM TypesHold ==
  ASSUME NoEmptyScan
  PROVE  Spec => []TypeOK
<1>1. TypeInv /\ DirInv => TypeOK
  <2> SUFFICES ASSUME TypeInv, DirInv PROVE TypeOK
    OBVIOUS
  <2>1. /\ pag \in [Blocks -> Seq(Pair)] /\ npag \in 0 .. Cardinality(Blocks)
        /\ blkptr \in 0 .. Cardinality(Blocks) /\ keyptr \in Nat
    BY BlocksCount DEF TypeInv, PagesTyped, ScanTyped
  <2>2. /\ pagbno \in Blocks \cup {None, Cardinality(Blocks)}
        /\ pagbuf \in Seq(Pair) \cup {Junk}
    BY BlocksCount, EmptyPage DEF TypeInv, BufferTyped
  <2>3. /\ dir \subseteq Nat /\ ndir \in Nat /\ dirbuf \subseteq Nat
        /\ dirbno \in Nat \cup {None} /\ maxbno \in Nat \cup {None}
    BY DEF DirInv, TypeInv, DirTyped
  <2>4. ioerr \in BOOLEAN /\ rdonly \in BOOLEAN
        /\ pc \in {"closed", "idle", "access", "split", "high", "bit", "next"}
    BY DEF TypeInv, FlagsTyped, InStore
  <2> QED BY <2>1, <2>2, <2>3, <2>4 DEF TypeOK
<1> QED BY <1>1, InitBuffer, NextBuffer, InitDir, NextDir, InitTypes, NextTypes, PTL DEF Spec

-----------------------------------------------------------------------------
(***************************************************************************)
(* Pages in place.  Home(k) is the page that the hash of key k leads to.   *)
(***************************************************************************)

Home(k) == Blk(k, OnDiskMask(k))

InSplitting == {"split", "high", "bit"}

\* A page holds the pairs of its keys, each once.
PageRight(b) == Distinct(pag[b]) /\ \A x \in Pairs(pag[b]) : Home(x[1]) = b

\* A page that was never written is empty, also in the buffer.
EmptyInv ==
  /\ \A b \in Blocks : b >= npag => pag[b] = << >>
  /\ npag = 0 /\ pagbno # None /\ pc # "split" /\ ~ioerr => pagbuf = << >>

\* Bytes do not become more by moving from the page to the high half.
RoomInv ==
  /\ \A b \in Blocks : Room(pag[b])
  /\ pagbno # None => Room(pagbuf)
  /\ Room(st.ovf)
  /\ pc = "split" => Bytes(pagbuf) + Bytes(st.ovf) + 2 < PBLKSIZ

\* The bits set are a tree with its root.
Rooted == \A h \in Nat, d \in Depths : d > 0 /\ BitOf(h, d) \in dir => BitOf(h, d - 1) \in dir

\* The page a key leads to is right, whatever a stopped split left elsewhere;
\* where none was stopped, all are but the high half whose bit is not set yet.
PagesInv ==
  /\ \A k \in Keys : PageRight(Home(k))
  /\ crashes = 0 => \A b \in Blocks : PageRight(b) \/ (pc \in {"high", "bit"} /\ b = High)

\* The two halves of the page being split.
HalvesInv ==
  pc \in InSplitting =>
    /\ st.mask = OnDiskMask(st.key) /\ st.blk = Home(st.key)
    /\ Distinct(pagbuf) /\ Distinct(st.ovf)
    /\ \A x \in Pairs(pagbuf), y \in Pairs(st.ovf) : x[1] # y[1]
    /\ \A x \in Pairs(pagbuf) \cup Pairs(st.ovf) : Home(x[1]) = st.blk /\ x[1] # st.key
    /\ \A x \in Pairs(st.ovf) : Hash[x[1]] % (2 * (st.mask + 1)) = High
    /\ \A i \in DOMAIN pagbuf : pc = "split" /\ i < st.i =>
         Hash[pagbuf[i][1]] % (2 * (st.mask + 1)) = st.blk
    /\ pc # "split" => \A x \in Pairs(pagbuf) : Hash[x[1]] % (2 * (st.mask + 1)) = st.blk
    /\ pc = "bit" => pag[High] = st.ovf

\* What the store under way has done to the map: nothing, but for the pair that
\* is to be replaced, and the keys that move.
StoreInv ==
  pc \in InStore =>
    /\ ioerr = FALSE
    /\ before \in [Keys -> Vals \cup {NoVal}]
    /\ \E e \in Depths : /\ st.leaf = 2 ^ e - 1
                         /\ \A c \in Depths : c < e => BitOf(Hash[st.key], c) \in dir
    /\ \A k \in Keys \ {st.key} :
         (pc \in {"high", "bit"} => Home(k) # st.blk) => Lookup(k) = before[k]
    /\ pc = "access" => \/ Lookup(st.key) = before[st.key]
                        \/ /\ Lookup(st.key) = NoVal
                           /\ st.replace /\ ~TooBig(st.key, st.val)
    /\ pc # "access" => /\ ~TooBig(st.key, st.val)
                        /\ st.replace \/ before[st.key] = NoVal
                        /\ \A k \in Keys \ {st.key} : Home(k) = st.blk =>
                             \A v \in Vals : before[k] = v <=>
                                             <<k, v>> \in Pairs(pagbuf) \cup Pairs(st.ovf)

Counted == faults \in Nat /\ crashes \in Nat

PlaceInv == faults = 0 => Rooted /\ PagesInv /\ HalvesInv /\ StoreInv

LEMMA RoomEmpty == Room(<< >>)
BY BytesEmpty, NdbmAssumption DEF Room, NdbmAssumption

\* A page from which a pair was taken has room.
LEMMA RoomRest ==
  ASSUME NEW p \in Seq(Pair), NEW k, Room(p)
  PROVE  Room(IF Has(p, k) THEN Without(p, Place(p, k)) ELSE p)
<1>1. CASE ~Has(p, k)
  BY <1>1
<1>2. CASE Has(p, k)
  <2> DEFINE i == Place(p, k)
  <2>1. i \in 1 .. Len(p)
    BY <1>2, PlaceFound
  <2> HIDE DEF i
  <2>2. Bytes(p) = Bytes(Without(p, i)) + Size[p[i]] + 4
    BY <2>1, BytesWithout
  <2>3. Bytes(Without(p, i)) \in Nat /\ Size[p[i]] \in Nat
    <3>1. Without(p, i) \in Seq(Pair) /\ p[i] \in Pair
      BY <2>1, WithoutType
    <3> QED BY <3>1, BytesType, SizeType
  <2>4. PBLKSIZ \in Nat
    BY NdbmAssumption DEF NdbmAssumption
  <2>5. Room(Without(p, i))
    BY <2>2, <2>3, <2>4 DEF Room
  <2> QED BY <1>2, <2>5 DEF i
<1> QED BY <1>1, <1>2

LEMMA LoadedRoom ==
  ASSUME RoomInv, NEW b \in Blocks
  PROVE  Room(Loaded(b))
BY NoBlock, RoomEmpty DEF RoomInv, Loaded, OnDisk

LEMMA RoomWrite ==
  ASSUME RoomInv, TypeInv, NEW b, NEW p, Room(p), WritePage(b, p)
  PROVE  \A c \in Blocks : Room(pag'[c])
BY DEF RoomInv, TypeInv, PagesTyped, WritePage

LEMMA NoStoreOvf == st' = NoStore => st'.ovf = << >>
BY DEF NoStore

LEMMA InitRoom == Init => RoomInv
<1> SUFFICES ASSUME Init PROVE RoomInv
  OBVIOUS
<1>1. ASSUME NEW b \in Blocks PROVE Room(pag[b])
  <2>1. b \in Nat
    BY DEF Blocks
  <2>2. CASE b < Len(InitPages)
    <3>1. b + 1 \in 1 .. Len(InitPages)
      BY <2>1, <2>2, NdbmAssumption DEF NdbmAssumption
    <3>2. Room(InitPages[b + 1])
      BY <3>1, FileAssumption DEF FileAssumption
    <3> QED BY <2>2, <3>2 DEF Init
  <2>3. CASE ~(b < Len(InitPages))
    BY <2>3, RoomEmpty DEF Init
  <2> QED BY <2>2, <2>3
<1>2. pagbno = None /\ st.ovf = << >> /\ pc = "closed"
  BY DEF Init, NoStore
<1> QED BY <1>1, <1>2, RoomEmpty DEF RoomInv

LEMMA AccessRoom ==
  ASSUME BufferInv, DirInv, TypeInv, RoomInv, StoreAccess PROVE RoomInv'
<1> DEFINE b == Blk(st.key, LeafMask(st.key))
           p == Loaded(b)
           rest == IF Has(p, st.key) THEN Without(p, Place(p, st.key)) ELSE p
           more == Append(rest, <<st.key, st.val>>)
<1>1. /\ pc = "access" /\ WithinBound(st.key) /\ st.key \in Keys
  BY DEF StoreAccess, TypeInv, StoreTyped, InStore
<1>2. b \in Blocks /\ p \in Seq(Pair) /\ Room(p)
  BY <1>1, WalkInFile, LoadedType, LoadedRoom
<1>3. Room(rest) /\ rest \in Seq(Pair)
  BY <1>2, RoomRest, RestType
<1>4. /\ \/ pc' = "idle" /\ st' = NoStore
         \/ pc' = "split" /\ st' = [st EXCEPT !.mask = LeafMask(st.key), !.blk = b, !.i = 1, !.ovf = << >>]
            /\ pagbuf' = rest
      /\ pagbuf' = p \/ pagbuf' = rest \/ (pagbuf' = more /\ Room(more))
      /\ (WritePage(b, more) /\ Room(more)) \/ UNCHANGED pag
  BY DEF StoreAccess, StoreDone, Return, WriteWorks, WriteFails, file, Fits
<1> HIDE DEF b, p, rest, more
<1>5. \A c \in Blocks : Room(pag'[c])
  BY <1>4, RoomWrite DEF RoomInv
<1>6. Room(pagbuf')
  BY <1>2, <1>3, <1>4
<1>7. CASE pc' = "idle" /\ st' = NoStore
  BY <1>5, <1>6, <1>7, NoStoreOvf, RoomEmpty DEF RoomInv
<1>8. CASE pc' = "split" /\ pagbuf' = rest
           /\ st' = [st EXCEPT !.mask = LeafMask(st.key), !.blk = b, !.i = 1, !.ovf = << >>]
  <2>1. st'.ovf = << >>
    BY <1>8 DEF BufferInv, StoreShape
  <2>2. Bytes(pagbuf') + Bytes(st'.ovf) + 2 < PBLKSIZ
    <3>1. Bytes(rest) \in Nat
      BY <1>3, BytesType
    <3>2. Bytes(rest) + 2 < PBLKSIZ
      BY <1>3 DEF Room
    <3>3. Bytes(st'.ovf) = 0
      BY <2>1, BytesEmpty
    <3> QED BY <1>8, <3>1, <3>2, <3>3
  <2>3. Room(st'.ovf)
    BY <2>1, RoomEmpty
  <2> QED BY <1>5, <1>6, <1>8, <2>2, <2>3 DEF RoomInv
<1> QED BY <1>4, <1>7, <1>8

\* A pair that moves to the high half takes its bytes along.
LEMMA ItemRoom == ASSUME BufferInv, TypeInv, RoomInv, SplitItem PROVE RoomInv'
<1>1. /\ pc = "split" /\ pc' = "split" /\ st.i <= Len(pagbuf) /\ UNCHANGED <<pag, pagbno>>
      /\ \/ /\ st' = [st EXCEPT !.ovf = Append(@, pagbuf[st.i])]
            /\ pagbuf' = Without(pagbuf, st.i)
         \/ st' = [st EXCEPT !.i = @ + 1] /\ UNCHANGED pagbuf
  BY DEF SplitItem, file
<1>2. st.i \in Nat /\ st.i # 0 /\ pagbuf \in Seq(Pair) /\ st.ovf \in Seq(Pair)
  BY <1>1, Splitting DEF InStore
<1>3. st = [key |-> st.key, val |-> st.val, replace |-> st.replace, mask |-> st.mask,
            blk |-> st.blk, i |-> st.i, ovf |-> st.ovf, leaf |-> st.leaf]
  BY DEF BufferInv, StoreShape
<1>4. CASE st' = [st EXCEPT !.i = @ + 1] /\ UNCHANGED pagbuf
  <2>1. st'.ovf = st.ovf
    BY <1>3, <1>4
  <2> QED BY <1>1, <1>4, <2>1 DEF RoomInv
<1>5. CASE st' = [st EXCEPT !.ovf = Append(@, pagbuf[st.i])] /\ pagbuf' = Without(pagbuf, st.i)
  <2> DEFINE x == pagbuf[st.i]
             less == Without(pagbuf, st.i)
             more == Append(st.ovf, x)
  <2>1. st.i \in 1 .. Len(pagbuf) /\ x \in Pair
    BY <1>1, <1>2
  <2>2. st'.ovf = more /\ pagbuf' = less
    BY <1>3, <1>5
  <2>3. Bytes(pagbuf) = Bytes(less) + Size[x] + 4
    BY <1>2, <2>1, BytesWithout
  <2>4. Bytes(more) = Bytes(st.ovf) + Size[x] + 4
    BY <1>2, <2>1, BytesAppend
  <2>5. less \in Seq(Pair) /\ more \in Seq(Pair)
    BY <1>2, <2>1, WithoutType
  <2>6. Bytes(less) \in Nat /\ Bytes(more) \in Nat /\ Size[x] \in Nat /\ Bytes(st.ovf) \in Nat
    BY <1>2, <2>1, <2>5, BytesType, SizeType
  <2>7. Bytes(pagbuf) + Bytes(st.ovf) + 2 < PBLKSIZ /\ PBLKSIZ \in Nat
    BY <1>1, NdbmAssumption DEF RoomInv, NdbmAssumption
  <2> HIDE DEF x, less, more
  <2>8. Bytes(less) + Bytes(more) + 2 < PBLKSIZ
    BY <2>3, <2>4, <2>6, <2>7
  <2>9. Room(less) /\ Room(more)
    BY <2>6, <2>7, <2>8 DEF Room
  <2> QED BY <1>1, <2>2, <2>8, <2>9 DEF RoomInv
<1> QED BY <1>1, <1>4, <1>5

LEMMA ScanRoom == ASSUME TypeInv, NoEmptyScan, RoomInv, NextKeyStep PROVE RoomInv'
<1> DEFINE p == IF blkptr # pagbno THEN OnDisk(blkptr) ELSE pagbuf
<1>1. /\ pc = "next" /\ pc' # "split" /\ UNCHANGED <<pag, st>>
      /\ (blkptr >= npag /\ pagbuf' = pagbuf) \/ pagbuf' = p
  BY DEF NextKeyStep, Return, file
<1>2. pagbno # None => Room(pagbuf)
  BY DEF RoomInv
<1>3. CASE pagbuf' = p
  <2>1. blkptr \in Blocks \cup {2 ^ MaxDepth} /\ blkptr # None /\ npag \in Nat /\ npag <= 2 ^ MaxDepth
    BY Deepest DEF TypeInv, ScanTyped, PagesTyped, Blocks, None
  <2>2. Room(OnDisk(blkptr))
    BY <2>1, RoomEmpty, Deepest DEF OnDisk, RoomInv
  <2>3. Room(p)
    BY <1>2, <2>1, <2>2
  <2> HIDE DEF p
  <2> QED BY <1>1, <1>3, <2>3 DEF RoomInv
<1>4. CASE blkptr >= npag /\ pagbuf' = pagbuf
  <2>1. Scans = TRUE /\ blkptr \in Nat
    BY <1>1, Deepest DEF TypeInv, ScanTyped
  <2>2. npag \in Nat /\ npag # 0
    <3>1. Len(InitPages) \in Nat /\ Len(InitPages) # 0
      BY <2>1, NdbmAssumption DEF NoEmptyScan, NdbmAssumption
    <3>2. Len(InitPages) <= npag /\ npag \in Nat
      BY DEF TypeInv, PagesTyped
    <3> QED BY <3>1, <3>2
  <2>3. blkptr # 0
    BY <1>4, <2>2
  <2>4. pagbno # None
    BY <2>3, NoBlock, Deepest DEF TypeInv, BufferTyped, None
  <2> QED BY <1>1, <1>2, <1>4, <2>4 DEF RoomInv
<1> QED BY <1>1, <1>3, <1>4

LEMMA NextRoom ==
  ASSUME BufferInv, DirInv, TypeInv, NoEmptyScan, RoomInv, [Next]_vars PROVE RoomInv'
<1>1. CASE (\E ro \in Modes : Open(ro)) \/ Close \/ Crash
  <2>1. pagbno' = None /\ UNCHANGED pag /\ pc' # "split" /\ (st' = st \/ st' = NoStore)
    BY <1>1 DEF Open, Close, Crash, Forget, file
  <2> QED BY <2>1, NoStoreOvf, RoomEmpty DEF RoomInv
<1>2. ASSUME NEW k \in Keys, Fetch(k) PROVE RoomInv'
  <2> DEFINE b == Blk(k, LeafMask(k))
  <2>1. /\ WithinBound(k) /\ pagbuf' = Loaded(b) /\ pc' = "idle" /\ UNCHANGED <<pag, st>>
    BY <1>2 DEF Fetch, Return, file
  <2>2. Room(Loaded(b))
    BY <2>1, WalkInFile, LoadedRoom
  <2> QED BY <2>1, <2>2 DEF RoomInv
<1>3. ASSUME NEW k \in Keys, Delete(k) PROVE RoomInv'
  <2> DEFINE b == Blk(k, LeafMask(k))
             p == Loaded(b)
             rest == Without(p, Place(p, k))
  <2>1. /\ WithinBound(k) /\ pc' = "idle" /\ UNCHANGED st
        /\ pagbuf' = p \/ (Has(p, k) /\ pagbuf' = rest)
        /\ (Has(p, k) /\ WritePage(b, rest)) \/ UNCHANGED pag
    BY <1>3 DEF Delete, Return, WriteFails, file
  <2>2. p \in Seq(Pair) /\ Room(p)
    BY <2>1, WalkInFile, LoadedType, LoadedRoom
  <2>3. Has(p, k) => Room(rest)
    BY <2>2, RoomRest
  <2> HIDE DEF b, p, rest
  <2>4. \A c \in Blocks : Room(pag'[c])
    BY <2>1, <2>3, RoomWrite DEF RoomInv
  <2> QED BY <2>1, <2>2, <2>3, <2>4 DEF RoomInv
<1>4. ASSUME NEW k \in Keys, NEW v \in Vals, NEW r \in BOOLEAN, Store(k, v, r) PROVE RoomInv'
  <2>1. st'.ovf = << >> /\ pc' = "access" /\ UNCHANGED <<pag, pagbno, pagbuf>>
    BY <1>4 DEF Store, NoStore, file, pagebuffer
  <2> QED BY <2>1, RoomEmpty DEF RoomInv
<1>5. CASE SplitLow
  <2>1. /\ pc = "split" /\ pagbno' = st.blk /\ UNCHANGED pagbuf
        /\ (pc' = "high" /\ st' = st) \/ (pc' = "idle" /\ st' = NoStore)
        /\ WritePage(st.blk, pagbuf) \/ UNCHANGED pag
    BY <1>5 DEF SplitLow, StoreDone, Return, WriteFails, file
  <2>2. Room(pagbuf)
    <3>1. pagbno = st.blk /\ st.blk \in Blocks
      BY <2>1, Splitting DEF InStore
    <3> QED BY <3>1, NoBlock DEF RoomInv
  <2>3. \A c \in Blocks : Room(pag'[c])
    BY <2>1, <2>2, RoomWrite DEF RoomInv
  <2> QED BY <2>1, <2>2, <2>3, NoStoreOvf, RoomEmpty DEF RoomInv
<1>6. CASE SplitHigh
  <2>1. /\ UNCHANGED <<pagbno, pagbuf>>
        /\ (pc' = "bit" /\ st' = st) \/ (pc' = "idle" /\ st' = NoStore)
        /\ WritePage(High, st.ovf) \/ UNCHANGED pag
    BY <1>6 DEF SplitHigh, StoreDone, Return, WriteFails, file, pagebuffer
  <2>2. \A c \in Blocks : Room(pag'[c])
    BY <2>1, RoomWrite DEF RoomInv
  <2> QED BY <2>1, <2>2, NoStoreOvf, RoomEmpty DEF RoomInv
<1>7. CASE SplitBit \/ Refused \/ RefusedWrite \/ FirstKey \/ NextKey
  <2>1. pc' # "split" /\ UNCHANGED <<pag, pagbno, pagbuf, st>>
    BY <1>7 DEF SplitBit, Refused, RefusedWrite, FirstKey, NextKey, Return, WriteFails, file, pagebuffer
  <2> QED BY <2>1 DEF RoomInv
<1>8. CASE UNCHANGED vars
  BY <1>8 DEF vars, file, pagebuffer, RoomInv
<1> QED BY <1>1, <1>2, <1>3, <1>4, <1>5, <1>6, <1>7, <1>8, AccessRoom, ItemRoom, ScanRoom DEF Next

\* Where the bits on the way of a hash are set there is a leaf, and one only.
LEMMA LeafUnique ==
  ASSUME NEW bits, NEW h, NEW d \in Depths, NEW e \in Depths,
         LeafAt(bits, h, d), LeafAt(bits, h, e)
  PROVE  d = e
<1>1. ~(d < e) /\ ~(e < d)
  BY DEF LeafAt
<1> QED BY <1>1 DEF Depths

LEMMA LeafExists ==
  ASSUME NEW bits, NEW k \in Keys, BitOf(Hash[k], MaxDepth) \notin bits
  PROVE  \E d \in Depths :
           /\ LeafAt(bits, Hash[k], d)
           /\ MaskIn(bits, k) = 2 ^ d - 1
           /\ Blk(k, MaskIn(bits, k)) = Hash[k] % 2 ^ d
<1> DEFINE S == {d \in Depths : BitOf(Hash[k], d) \notin bits}
           P(m) == Bit(k, m) \notin bits /\ \A l \in Masks : l < m => Bit(k, l) \in bits
<1>1. S \subseteq Nat /\ S # {}
  BY Deepest DEF Depths
<1>2. PICK d \in S : \A c \in S : d <= c
  <2> HIDE DEF S
  <2> QED BY <1>1, Least
<1>3. d \in Depths /\ BitOf(Hash[k], d) \notin bits
  BY <1>2
<1>4. ASSUME NEW c \in Depths, c < d PROVE BitOf(Hash[k], c) \in bits
  <2>1. ~(d <= c)
    BY <1>3, <1>4 DEF Depths
  <2> QED BY <1>2, <2>1
<1>5. 2 ^ d - 1 \in Masks /\ P(2 ^ d - 1)
  <2>1. 2 ^ d - 1 \in Masks /\ Bit(k, 2 ^ d - 1) = BitOf(Hash[k], d)
    BY <1>3, MaskOfDepth
  <2>2. ASSUME NEW l \in Masks, l < 2 ^ d - 1 PROVE Bit(k, l) \in bits
    <3>1. PICK c \in Depths : l = 2 ^ c - 1
      BY DepthOfMask
    <3>2. c < d
      BY <1>3, <2>2, <3>1, MaskOrder
    <3> QED BY <1>4, <3>1, <3>2, MaskOfDepth
  <2> QED BY <1>3, <2>1, <2>2
<1>6. MaskIn(bits, k) \in Masks /\ P(MaskIn(bits, k))
  BY <1>5 DEF MaskIn
<1>7. PICK e \in Depths : MaskIn(bits, k) = 2 ^ e - 1
  BY <1>6, DepthOfMask
<1>8. BitOf(Hash[k], e) \notin bits
  BY <1>6, <1>7, MaskOfDepth
<1>9. ASSUME NEW c \in Depths, c < e PROVE BitOf(Hash[k], c) \in bits
  <2>1. 2 ^ c - 1 \in Masks /\ 2 ^ c - 1 < 2 ^ e - 1
    BY <1>9, MaskOfDepth, MaskOrder
  <2>2. Bit(k, 2 ^ c - 1) \in bits
    BY <1>6, <1>7, <2>1
  <2> QED BY <2>2, MaskOfDepth
<1> QED BY <1>7, <1>8, <1>9, MaskOfDepth DEF LeafAt

\* Two hashes that end at the same page end there at the same depth.
LEMMA SameDepth ==
  ASSUME NEW bits, NEW h \in Nat, NEW g \in Nat, NEW d \in Depths, NEW e \in Depths,
         LeafAt(bits, h, d), LeafAt(bits, g, e), h % 2 ^ d = g % 2 ^ e
  PROVE  d = e
<1>1. ASSUME NEW a \in Nat, NEW b \in Nat, NEW i \in Depths, NEW j \in Depths,
             LeafAt(bits, a, i), LeafAt(bits, b, j), a % 2 ^ i = b % 2 ^ j, i < j
      PROVE  FALSE
  <2>1. BitOf(b, i) \in bits /\ BitOf(a, i) \notin bits
    BY <1>1 DEF LeafAt
  <2>2. i <= j
    BY <1>1 DEF Depths
  <2>3. (b % 2 ^ j) % 2 ^ i = b % 2 ^ i /\ (a % 2 ^ i) % 2 ^ i = a % 2 ^ i
    BY <2>2, PageUp DEF Depths
  <2>4. b % 2 ^ i = a % 2 ^ i
    BY <1>1, <2>3
  <2> QED BY <2>1, <2>4 DEF BitOf
<1>2. ~(d < e) /\ ~(e < d)
  BY <1>1
<1> QED BY <1>2 DEF Depths

\* The high half of a leaf is no leaf.
LEMMA HighNoLeaf ==
  ASSUME NEW bits, NEW h \in Nat, NEW g \in Nat, NEW d \in Depths, NEW e \in Depths,
         LeafAt(bits, h, d), LeafAt(bits, g, e)
  PROVE  g % 2 ^ e # (h % 2 ^ d) + 2 ^ d
<1> SUFFICES ASSUME g % 2 ^ e = (h % 2 ^ d) + 2 ^ d PROVE FALSE
  OBVIOUS
<1>1. /\ 2 ^ d \in Nat /\ 2 ^ d > 0 /\ h % 2 ^ d \in Nat /\ h % 2 ^ d < 2 ^ d
      /\ 2 ^ e \in Nat /\ g % 2 ^ e \in Nat /\ g % 2 ^ e < 2 ^ e
  BY PageOf, Powers
<1>2. d < e
  <2>1. 2 ^ d < 2 ^ e
    BY <1>1
  <2> QED BY <2>1, DepthOrder
<1>3. BitOf(g, d) \in bits /\ BitOf(h, d) \notin bits
  BY <1>2 DEF LeafAt
<1>4. (g % 2 ^ e) % 2 ^ d = g % 2 ^ d
  <2>1. d <= e
    BY <1>2 DEF Depths
  <2> QED BY <2>1, PageUp
<1>5. (g % 2 ^ e) % 2 ^ d = h % 2 ^ d
  <2> DEFINE w == 2 ^ d
             r == h % w
             b == g % 2 ^ e
  <2>1. w \in Nat /\ w > 0 /\ r \in Nat /\ r < w /\ b \in Nat /\ b = r + w
    BY <1>1
  <2> HIDE DEF w, r, b
  <2>2. b = (w * 1) + r /\ r \in 0 .. w - 1
    BY <2>1
  <2>3. b % w = r
    BY <2>1, <2>2, Remainder
  <2> QED BY <2>3 DEF w, r, b
<1>6. g % 2 ^ d = h % 2 ^ d
  BY <1>4, <1>5
<1> QED BY <1>3, <1>6 DEF BitOf

\* Every key has a home.
LEMMA HomeIs ==
  ASSUME TypeInv, NEW k \in Keys
  PROVE  /\ Home(k) \in Blocks /\ Home(k) \in Nat
         /\ \E d \in Depths : /\ LeafAt(dir, Hash[k], d)
                              /\ OnDiskMask(k) = 2 ^ d - 1
                              /\ Home(k) = Hash[k] % 2 ^ d
<1>1. Hash[k] \in Nat
  BY HashType
<1>2. BitOf(Hash[k], MaxDepth) \notin dir
  <2>1. MaxDepth \in Depths /\ ~(MaxDepth < MaxDepth)
    BY Deepest
  <2> QED BY <1>1, <2>1 DEF TypeInv, BitsTyped
<1>3. PICK d \in Depths : /\ LeafAt(dir, Hash[k], d)
                          /\ MaskIn(dir, k) = 2 ^ d - 1
                          /\ Blk(k, MaskIn(dir, k)) = Hash[k] % 2 ^ d
  BY <1>2, LeafExists
<1>4. Home(k) = Hash[k] % 2 ^ d /\ OnDiskMask(k) = 2 ^ d - 1
  BY <1>3 DEF Home, OnDiskMask
<1>5. Home(k) \in Blocks /\ Home(k) \in Nat
  BY <1>1, <1>4, PageInBlocks, PageOf
<1> QED BY <1>3, <1>4, <1>5

LEMMA SameHomes ==
  ASSUME dir' = dir, NEW k
  PROVE  Home(k)' = Home(k) /\ OnDiskMask(k)' = OnDiskMask(k)
BY DEF Home, OnDiskMask, MaskIn, Blk, Bit

\* With the directory true, dbm_access walks home.
LEMMA WalkHome ==
  ASSUME DirInv, TypeInv, pc # "closed", ~ioerr, NEW k \in Keys, WithinBound(k)
  PROVE  LeafMask(k) = OnDiskMask(k) /\ Blk(k, LeafMask(k)) = Home(k)
<1>1. ASSUME NEW n \in Nat PROVE BitIsSet(n) <=> n \in dir
  <2>1. \A m \in dir : m <= maxbno
    BY DEF DirInv
  <2>2. dirbno # None => dirbuf = InBlock(dir, dirbno)
    BY DEF DirInv
  <2>3. n \div DBLKBITS = dirbno => dirbno # None
    BY BlockIsNat DEF None
  <2> QED BY <2>1, <2>2, <2>3 DEF BitIsSet, InBlock
<1>2. PICK d \in Depths : /\ LeafMask(k) = 2 ^ d - 1
                          /\ ~BitIsSet(BitOf(Hash[k], d))
                          /\ \A c \in Depths : c < d => BitIsSet(BitOf(Hash[k], c))
  BY WalkEnds
<1>3. PICK e \in Depths : LeafAt(dir, Hash[k], e) /\ OnDiskMask(k) = 2 ^ e - 1
  BY HomeIs
<1>4. \A c \in Depths : BitOf(Hash[k], c) \in Nat
  BY HashType, BitOfType
<1>5. LeafAt(dir, Hash[k], d)
  BY <1>1, <1>2, <1>4 DEF LeafAt
<1>6. d = e
  BY <1>3, <1>5, LeafUnique
<1> QED BY <1>2, <1>3, <1>6 DEF Home

LEMMA WriteEmpty ==
  ASSUME TypeInv, EmptyInv, NEW b \in Blocks, NEW p, WritePage(b, p)
  PROVE  (\A c \in Blocks : c >= npag' => pag'[c] = << >>) /\ npag' # 0
<1>1. /\ pag' = [pag EXCEPT ![b] = p]
      /\ npag' = IF b < npag THEN npag ELSE b + 1
  BY DEF WritePage
<1>2. /\ DOMAIN pag = Blocks /\ npag \in Nat /\ b \in Nat /\ \A c \in Blocks : c \in Nat
      /\ \A c \in Blocks : c >= npag => pag[c] = << >>
  BY Deepest DEF TypeInv, PagesTyped, Blocks, EmptyInv
<1>3. ASSUME NEW c \in Blocks, c >= npag' PROVE pag'[c] = << >>
  <2>1. c # b /\ c >= npag
    BY <1>1, <1>2, <1>3
  <2> QED BY <1>1, <1>2, <2>1
<1> QED BY <1>1, <1>2, <1>3

\* An empty data base has empty pages.
LEMMA LoadedEmpty ==
  ASSUME TypeInv, EmptyInv, pc # "split", ~ioerr, NEW b \in Blocks, npag = 0
  PROVE  Loaded(b) = << >>
<1>1. b # None /\ b \in Nat
  BY NoBlock, Deepest DEF Blocks
<1> QED BY <1>1 DEF EmptyInv, Loaded, OnDisk

LEMMA InitEmpty == Init => EmptyInv
<1> SUFFICES ASSUME Init PROVE EmptyInv
  OBVIOUS
<1>1. npag = Len(InitPages) /\ Len(InitPages) \in Nat /\ pagbno = None
  BY NdbmAssumption DEF Init, NdbmAssumption
<1>2. \A b \in Blocks : b \in Nat /\ (b >= npag => pag[b] = << >>)
  BY <1>1, Deepest DEF Init, Blocks
<1> QED BY <1>1, <1>2 DEF EmptyInv

LEMMA NextEmpty ==
  ASSUME BufferInv, DirInv, TypeInv, NoEmptyScan, EmptyInv, [Next]_vars PROVE EmptyInv'
<1>1. CASE (\E ro \in Modes : Open(ro)) \/ Close \/ Crash
  <2>1. pagbno' = None /\ UNCHANGED <<pag, npag>>
    BY <1>1 DEF Open, Close, Crash, Forget, file
  <2> QED BY <2>1 DEF EmptyInv
<1>2. ASSUME NEW k \in Keys, Fetch(k) PROVE EmptyInv'
  <2> DEFINE b == Blk(k, LeafMask(k))
  <2>1. /\ WithinBound(k) /\ pagbuf' = Loaded(b) /\ pc = "idle" /\ ~ioerr /\ UNCHANGED <<pag, npag>>
    BY <1>2 DEF Fetch, Ready, Return, file
  <2>2. b \in Blocks
    BY <2>1, WalkInFile
  <2>3. npag = 0 => pagbuf' = << >>
    BY <2>1, <2>2, LoadedEmpty
  <2> QED BY <2>1, <2>3 DEF EmptyInv
<1>3. ASSUME NEW k \in Keys, Delete(k) PROVE EmptyInv'
  <2> DEFINE b == Blk(k, LeafMask(k))
             p == Loaded(b)
             rest == Without(p, Place(p, k))
  <2>1. /\ WithinBound(k) /\ pc = "idle" /\ ~ioerr
        /\ \/ ~Has(p, k) /\ pagbuf' = p /\ UNCHANGED <<pag, npag>>
           \/ WritePage(b, rest)
           \/ ioerr' = TRUE /\ UNCHANGED <<pag, npag>>
    BY <1>3 DEF Delete, Ready, Return, WriteFails, file
  <2>2. b \in Blocks
    BY <2>1, WalkInFile
  <2>3. npag = 0 => p = << >>
    BY <2>1, <2>2, LoadedEmpty
  <2> HIDE DEF b, p, rest
  <2>4. CASE WritePage(b, rest)
    BY <2>2, <2>4, WriteEmpty DEF EmptyInv
  <2>5. CASE UNCHANGED <<pag, npag>> /\ (pagbuf' = p \/ ioerr' = TRUE)
    BY <2>3, <2>5 DEF EmptyInv
  <2> QED BY <2>1, <2>4, <2>5
<1>4. CASE StoreAccess
  <2> DEFINE b == Blk(st.key, LeafMask(st.key))
             p == Loaded(b)
             rest == IF Has(p, st.key) THEN Without(p, Place(p, st.key)) ELSE p
             more == Append(rest, <<st.key, st.val>>)
  <2>1. /\ pc = "access" /\ WithinBound(st.key) /\ st.key \in Keys
        /\ \/ Has(p, st.key) /\ pagbuf' = p /\ UNCHANGED <<pag, npag, ioerr>>
           \/ WritePage(b, more)
           \/ ioerr' = TRUE /\ UNCHANGED <<pag, npag>>
           \/ pc' = "split" /\ UNCHANGED <<pag, npag>>
    BY <1>4 DEF StoreAccess, StoreDone, Return, WriteFails, file, TypeInv, StoreTyped, InStore
  <2>2. b \in Blocks
    BY <2>1, WalkInFile
  <2>3. npag = 0 /\ ~ioerr => p = << >>
    BY <2>1, <2>2, LoadedEmpty
  <2> HIDE DEF b, p, rest, more
  <2>4. CASE WritePage(b, more)
    BY <2>2, <2>4, WriteEmpty DEF EmptyInv
  <2>5. CASE UNCHANGED <<pag, npag, ioerr>> /\ pagbuf' = p
    BY <2>3, <2>5 DEF EmptyInv
  <2>6. CASE UNCHANGED <<pag, npag>> /\ (ioerr' = TRUE \/ pc' = "split")
    BY <2>6 DEF EmptyInv
  <2> QED BY <2>1, <2>4, <2>5, <2>6
<1>5. CASE SplitItem
  <2>1. pc' = "split" /\ UNCHANGED <<pag, npag>>
    BY <1>5 DEF SplitItem, file
  <2> QED BY <2>1 DEF EmptyInv
<1>6. CASE SplitLow \/ SplitHigh
  <2>1. pc \in InStore \ {"access"}
    BY <1>6 DEF SplitLow, SplitHigh, InStore
  <2>2. \/ WritePage(st.blk, pagbuf)
        \/ High \in Blocks /\ WritePage(High, st.ovf)
        \/ ioerr' = TRUE /\ UNCHANGED <<pag, npag>>
    BY <1>6 DEF SplitLow, SplitHigh, WriteFails, file
  <2>3. st.blk \in Blocks
    BY <2>1, Splitting
  <2>4. CASE WritePage(st.blk, pagbuf) \/ (High \in Blocks /\ WritePage(High, st.ovf))
    BY <2>3, <2>4, WriteEmpty DEF EmptyInv
  <2> QED BY <2>2, <2>4 DEF EmptyInv
<1>7. CASE SplitBit
  <2>1. /\ pc = "bit" /\ UNCHANGED <<pag, npag, pagbno, pagbuf>>
        /\ ioerr' = ioerr \/ ioerr' = TRUE
    BY <1>7 DEF SplitBit, WriteWorks, WriteFails, file, pagebuffer
  <2> QED BY <2>1 DEF EmptyInv
<1>8. CASE Refused \/ RefusedWrite \/ FirstKey \/ NextKey \/ \E k \in Keys, v \in Vals, r \in BOOLEAN : Store(k, v, r)
  <2>1. /\ pc = "idle" /\ UNCHANGED <<pag, npag, pagbno, pagbuf, ioerr>>
    BY <1>8 DEF Refused, RefusedWrite, FirstKey, NextKey, Store, Ready, file, pagebuffer
  <2> QED BY <2>1 DEF EmptyInv
<1>9. CASE NextKeyStep
  <2>1. pc = "next" /\ UNCHANGED <<pag, npag>>
    BY <1>9 DEF NextKeyStep, file
  <2>2. Scans = TRUE
    BY <2>1 DEF TypeInv, ScanTyped
  <2>3. npag # 0
    <3>1. Len(InitPages) \in Nat /\ Len(InitPages) # 0
      BY <2>2, NdbmAssumption DEF NoEmptyScan, NdbmAssumption
    <3>2. Len(InitPages) <= npag /\ npag \in Nat
      BY DEF TypeInv, PagesTyped
    <3> QED BY <3>1, <3>2
  <2> QED BY <2>1, <2>3 DEF EmptyInv
<1>10. CASE UNCHANGED vars
  BY <1>10 DEF vars, file, pagebuffer, EmptyInv
<1> QED BY <1>1, <1>2, <1>3, <1>4, <1>5, <1>6, <1>7, <1>8, <1>9, <1>10 DEF Next

\* What dbm_access leaves in the buffer is the page of the key.
LEMMA LoadedHome ==
  ASSUME BufferInv, DirInv, TypeInv, EmptyInv, pc \notin {"closed", "split"}, ~ioerr,
         NEW k \in Keys, WithinBound(k)
  PROVE  /\ LeafMask(k) = OnDiskMask(k)
         /\ Blk(k, LeafMask(k)) = Home(k)
         /\ Home(k) \in Blocks
         /\ Loaded(Home(k)) = pag[Home(k)]
         /\ pag[Home(k)] \in Seq(Pair)
<1>1. LeafMask(k) = OnDiskMask(k) /\ Blk(k, LeafMask(k)) = Home(k)
  BY WalkHome
<1>2. Home(k) \in Blocks /\ Home(k) \in Nat /\ (Home(k) < npag \/ npag = 0)
  BY <1>1, WalkInFile
<1>3. pc # "split" /\ ~ioerr
  OBVIOUS
<1>4. Home(k) < npag => Loaded(Home(k)) = pag[Home(k)]
  BY <1>2, <1>3, LoadedIsPage
<1>5. npag = 0 => Loaded(Home(k)) = << >> /\ pag[Home(k)] = << >>
  <2>1. Home(k) >= 0
    BY <1>2
  <2> QED BY <1>2, <1>3, <2>1, LoadedEmpty DEF EmptyInv
<1> QED BY <1>1, <1>2, <1>4, <1>5 DEF TypeInv, PagesTyped

\* So is what a lookup reads.
LEMMA LookupHome ==
  ASSUME TypeInv, EmptyInv, NEW k \in Keys
  PROVE  Lookup(k) = Value(pag[Home(k)], k) /\ pag[Home(k)] \in Seq(Pair)
<1>1. Home(k) \in Blocks /\ Home(k) \in Nat /\ npag \in Nat
  BY HomeIs DEF TypeInv, PagesTyped
<1>2. OnDisk(Home(k)) = pag[Home(k)]
  BY <1>1 DEF OnDisk, EmptyInv
<1> QED BY <1>1, <1>2 DEF Lookup, Home, TypeInv, PagesTyped

LEMMA InitCounted == Init => Counted
BY DEF Init, Counted

\* Writes that failed and stops are not forgotten.
LEMMA NextCounted ==
  ASSUME Counted, [Next]_vars
  PROVE  Counted' /\ (faults' = 0 => faults = 0) /\ (crashes' = 0 => crashes = 0)
<1>1. faults' = faults \/ faults' = faults + 1
  <2>1. CASE \E ro \in Modes : Open(ro)
    BY <2>1 DEF Open, bounds
  <2>2. CASE Close \/ Crash
    BY <2>2 DEF Close, Crash, Forget
  <2>3. CASE \E k \in Keys : Fetch(k) \/ Delete(k)
    BY <2>3 DEF Fetch, Delete, WriteWorks, WriteFails, bounds
  <2>4. CASE \E k \in Keys, v \in Vals, r \in BOOLEAN : Store(k, v, r)
    BY <2>4 DEF Store, bounds
  <2>5. CASE StoreAccess
    BY <2>5 DEF StoreAccess, WriteWorks, WriteFails
  <2>6. CASE SplitItem \/ SplitLow \/ SplitHigh \/ SplitBit
    BY <2>6 DEF SplitItem, SplitLow, SplitHigh, SplitBit, WriteWorks, WriteFails, bounds
  <2>7. CASE Refused \/ RefusedWrite \/ FirstKey \/ NextKey \/ NextKeyStep
    BY <2>7 DEF Refused, RefusedWrite, FirstKey, NextKey, NextKeyStep, bounds
  <2>8. CASE UNCHANGED vars
    BY <2>8 DEF vars, bounds
  <2> QED BY <2>1, <2>2, <2>3, <2>4, <2>5, <2>6, <2>7, <2>8 DEF Next
<1>2. crashes' = crashes \/ crashes' = crashes + 1
  <2>1. CASE \E ro \in Modes : Open(ro)
    BY <2>1 DEF Open, bounds
  <2>2. CASE Close \/ Crash
    BY <2>2 DEF Close, Crash
  <2>3. CASE \E k \in Keys : Fetch(k) \/ Delete(k)
    BY <2>3 DEF Fetch, Delete, bounds
  <2>4. CASE \E k \in Keys, v \in Vals, r \in BOOLEAN : Store(k, v, r)
    BY <2>4 DEF Store, bounds
  <2>5. CASE StoreAccess
    BY <2>5 DEF StoreAccess
  <2>6. CASE SplitItem \/ SplitLow \/ SplitHigh \/ SplitBit
    BY <2>6 DEF SplitItem, SplitLow, SplitHigh, SplitBit, bounds
  <2>7. CASE Refused \/ RefusedWrite \/ FirstKey \/ NextKey \/ NextKeyStep
    BY <2>7 DEF Refused, RefusedWrite, FirstKey, NextKey, NextKeyStep, bounds
  <2>8. CASE UNCHANGED vars
    BY <2>8 DEF vars, bounds
  <2> QED BY <2>1, <2>2, <2>3, <2>4, <2>5, <2>6, <2>7, <2>8 DEF Next
<1> QED BY <1>1, <1>2 DEF Counted

LEMMA InitRooted == Init => Rooted
<1> SUFFICES ASSUME Init, NEW h \in Nat, NEW d \in Depths, d > 0, BitOf(h, d) \in dir
             PROVE  BitOf(h, d - 1) \in dir
  BY DEF Rooted
<1>1. BitOf(h, d) \in InitBits /\ dir = InitBits
  BY DEF Init
<1>2. PICK e \in 0 .. MaxDepth - 1 : \E i \in 0 .. 2 ^ e - 1 :
        /\ BitOf(h, d) = i + 2 ^ e - 1
        /\ e > 0 => (i % 2 ^ (e - 1)) + 2 ^ (e - 1) - 1 \in InitBits
  BY <1>1, FileAssumption DEF FileAssumption
<1>3. PICK i \in 0 .. 2 ^ e - 1 :
        /\ BitOf(h, d) = i + 2 ^ e - 1
        /\ e > 0 => (i % 2 ^ (e - 1)) + 2 ^ (e - 1) - 1 \in InitBits
  BY <1>2
<1>4. e \in Depths /\ e < MaxDepth
  BY Deepest DEF Depths
<1>5. i % 2 ^ e = i /\ i \in Nat
  <2>1. 2 ^ e \in Nat /\ 2 ^ e > 0
    BY <1>4, Powers
  <2>2. i = (2 ^ e) * 0 + i /\ i \in Nat
    BY <2>1
  <2> QED BY <2>1, <2>2, Remainder
<1>6. BitOf(h, d) = BitOf(i, e)
  BY <1>3, <1>5 DEF BitOf
<1>7. d = e /\ h % 2 ^ d = i
  BY <1>4, <1>5, <1>6, SameBit
<1>8. d - 1 \in Depths /\ d - 1 <= d
  BY Deepest DEF Depths
<1>9. h % 2 ^ (d - 1) = i % 2 ^ (d - 1)
  <2>1. (h % 2 ^ d) % 2 ^ (d - 1) = h % 2 ^ (d - 1)
    BY <1>8, PageUp
  <2> QED BY <1>7, <2>1
<1>10. (i % 2 ^ (d - 1)) + 2 ^ (d - 1) - 1 \in InitBits
  BY <1>3, <1>7
<1> QED BY <1>1, <1>9, <1>10 DEF BitOf

LEMMA InitPlace == Init => PlaceInv
<1> SUFFICES ASSUME Init PROVE PlaceInv
  OBVIOUS
<1>1. ASSUME NEW b \in Blocks PROVE PageRight(b)
  <2>1. b \in Nat /\ pag[b] = (IF b < Len(InitPages) THEN InitPages[b + 1] ELSE << >>) /\ dir = InitBits
    BY Deepest DEF Init, Blocks
  <2>2. CASE b < Len(InitPages)
    <3> DEFINE p == InitPages[b + 1]
    <3>1. b + 1 \in 1 .. Len(InitPages) /\ b + 1 - 1 = b
      BY <2>1, <2>2, NdbmAssumption DEF NdbmAssumption
    <3>2. p \in Seq(Pair) /\ pag[b] = p
      BY <2>1, <2>2, <3>1, NdbmAssumption DEF NdbmAssumption
    <3>3. \A i \in DOMAIN p : /\ Blk(p[i][1], MaskIn(InitBits, p[i][1])) = b
                              /\ \A j \in 1 .. i - 1 : p[j][1] # p[i][1]
      <4> DEFINE c == b + 1
      <4>1. c \in 1 .. Len(InitPages) /\ c - 1 = b
        BY <2>1, <3>1
      <4> HIDE DEF c
      <4>2. \A i \in DOMAIN InitPages[c] :
              /\ Blk(InitPages[c][i][1], MaskIn(InitBits, InitPages[c][i][1])) = c - 1
              /\ \A j \in 1 .. i - 1 : InitPages[c][j][1] # InitPages[c][i][1]
        BY <4>1, FileAssumption DEF FileAssumption
      <4> QED BY <4>1, <4>2 DEF c
    <3> HIDE DEF p
    <3>4. Distinct(p)
      <4> SUFFICES ASSUME NEW i \in DOMAIN p, NEW j \in DOMAIN p, p[i][1] = p[j][1] PROVE i = j
        BY DEF Distinct
      <4>1. i \in Nat /\ j \in Nat /\ i > 0 /\ j > 0
        BY <3>2
      <4>2. ~(i < j) /\ ~(j < i)
        BY <3>3, <4>1
      <4> QED BY <4>1, <4>2
    <3>5. \A x \in Pairs(p) : Home(x[1]) = b
      BY <2>1, <3>3 DEF Pairs, Home, OnDiskMask
    <3> QED BY <3>2, <3>4, <3>5 DEF PageRight
  <2>3. CASE ~(b < Len(InitPages))
    BY <2>1, <2>3, EmptyPage DEF PageRight
  <2> QED BY <2>2, <2>3
<1>2. PagesInv
  BY <1>1, InitTypes, HomeIs DEF PagesInv
<1>3. pc \notin InStore /\ pc \notin InSplitting
  BY DEF Init, InStore, InSplitting
<1> QED BY <1>2, <1>3, InitRooted DEF PlaceInv, HalvesInv, StoreInv

\* Steps that leave the files alone and end outside a store.
LEMMA FramePlace ==
  ASSUME PlaceInv, UNCHANGED <<pag, dir>>, faults' = 0 => faults = 0,
         crashes' = 0 => crashes = 0 /\ pc \notin {"high", "bit"}, pc' \notin InStore
  PROVE  PlaceInv'
<1> SUFFICES ASSUME faults' = 0 PROVE Rooted' /\ PagesInv' /\ HalvesInv' /\ StoreInv'
  BY DEF PlaceInv
<1>1. Rooted /\ PagesInv
  BY DEF PlaceInv
<1>2. \A k : Home(k)' = Home(k)
  BY SameHomes
<1>3. Rooted'
  BY <1>1 DEF Rooted
<1>4. PagesInv'
  BY <1>1, <1>2 DEF PagesInv, PageRight
<1>5. HalvesInv' /\ StoreInv'
  BY DEF HalvesInv, StoreInv, InStore, InSplitting
<1> QED BY <1>3, <1>4, <1>5

\* What is on disk after a write.
LEMMA WriteOnDisk ==
  ASSUME TypeInv, EmptyInv, NEW b \in Blocks, NEW p, WritePage(b, p)
  PROVE  /\ \A c \in Blocks : pag'[c] = IF c = b THEN p ELSE pag[c]
         /\ \A c \in Blocks : OnDisk(c)' = IF c = b THEN p ELSE OnDisk(c)
         /\ \A c \in Blocks : OnDisk(c) = pag[c]
<1>1. /\ pag' = [pag EXCEPT ![b] = p]
      /\ npag' = IF b < npag THEN npag ELSE b + 1
  BY DEF WritePage
<1>2. /\ DOMAIN pag = Blocks /\ npag \in Nat /\ b \in Nat /\ \A c \in Blocks : c \in Nat
      /\ \A c \in Blocks : c >= npag => pag[c] = << >>
  BY Deepest DEF TypeInv, PagesTyped, Blocks, EmptyInv
<1>3. \A c \in Blocks : pag'[c] = IF c = b THEN p ELSE pag[c]
  BY <1>1, <1>2
<1>4. \A c \in Blocks : OnDisk(c) = pag[c]
  BY <1>2 DEF OnDisk
<1>5. ASSUME NEW c \in Blocks PROVE OnDisk(c)' = pag'[c]
  <2>1. c >= npag' => c # b /\ c >= npag
    BY <1>1, <1>2
  <2>2. c >= npag' => pag'[c] = << >>
    BY <1>2, <1>3, <2>1
  <2>3. c < npag' \/ c >= npag'
    BY <1>1, <1>2
  <2> QED BY <2>2, <2>3 DEF OnDisk
<1> QED BY <1>3, <1>4, <1>5

\* A page that holds its keys' pairs is written.
LEMMA WritePages ==
  ASSUME TypeInv, EmptyInv, PagesInv, pc \notin {"high", "bit"}, dir' = dir,
         crashes' = 0 => crashes = 0,
         NEW b \in Blocks, NEW p, Distinct(p), \A x \in Pairs(p) : Home(x[1]) = b, WritePage(b, p)
  PROVE  PagesInv'
<1>1. \A k : Home(k)' = Home(k)
  BY SameHomes
<1>2. \A c \in Blocks : pag'[c] = IF c = b THEN p ELSE pag[c]
  BY WriteOnDisk
<1>3. \A c \in Blocks : PageRight(c) \/ c = b => PageRight(c)'
  BY <1>1, <1>2 DEF PageRight
<1>4. \A k \in Keys : Home(k) \in Blocks
  BY HomeIs
<1> QED BY <1>1, <1>3, <1>4 DEF PagesInv

\* A page without the pair of a key.
LEMMA RestPairs ==
  ASSUME NEW p \in Seq(Pair), Distinct(p), NEW k
  PROVE  LET rest == IF Has(p, k) THEN Without(p, Place(p, k)) ELSE p IN
           /\ rest \in Seq(Pair) /\ Distinct(rest)
           /\ Pairs(rest) = {x \in Pairs(p) : x[1] # k}
           /\ ~Has(rest, k)
<1> DEFINE rest == IF Has(p, k) THEN Without(p, Place(p, k)) ELSE p
<1>1. rest \in Seq(Pair)
  BY RestType
<1>2. Distinct(rest) /\ Pairs(rest) = {x \in Pairs(p) : x[1] # k}
  <2>1. CASE ~Has(p, k)
    BY <2>1, HasPair
  <2>2. CASE Has(p, k)
    <3> DEFINE i == Place(p, k)
    <3>1. i \in 1 .. Len(p) /\ p[i][1] = k /\ DOMAIN p = 1 .. Len(p)
      BY <2>2, PlaceFound
    <3>2. rest = Without(p, i)
      BY <2>2
    <3> HIDE DEF i, rest
    <3>3. Distinct(rest) /\ Pairs(rest) = Pairs(p) \ {p[i]}
      BY <3>1, <3>2, WithoutPairs
    <3>4. \A x \in Pairs(p) : x[1] = k => x = p[i]
      BY <3>1 DEF Pairs, Distinct
    <3> QED BY <3>1, <3>3, <3>4
  <2> QED BY <2>1, <2>2
<1>3. ~Has(rest, k)
  <2> HIDE DEF rest
  <2> QED BY <1>2, HasPair
<1> QED BY <1>1, <1>2, <1>3

LEMMA DeletePlace ==
  ASSUME BufferInv, DirInv, TypeInv, EmptyInv, Counted, PlaceInv, [Next]_vars,
         NEW k \in Keys, Delete(k)
  PROVE  PlaceInv'
<1> DEFINE b == Blk(k, LeafMask(k))
           p == Loaded(b)
           rest == Without(p, Place(p, k))
<1>1. /\ pc = "idle" /\ ~ioerr /\ WithinBound(k) /\ pc' = "idle" /\ crashes' = crashes
      /\ \/ UNCHANGED <<pag, dir>>
         \/ Has(p, k) /\ WritePage(b, rest)
  BY DEF Delete, Ready, Return, WriteFails, file
<1>2. faults' = 0 => faults = 0
  BY NextCounted
<1>3. CASE UNCHANGED <<pag, dir>>
  BY <1>1, <1>2, <1>3, FramePlace DEF InStore
<1>4. CASE Has(p, k) /\ WritePage(b, rest)
  <2> SUFFICES ASSUME faults = 0 PROVE Rooted' /\ PagesInv' /\ HalvesInv' /\ StoreInv'
    BY <1>2 DEF PlaceInv
  <2>1. Rooted /\ PagesInv
    BY DEF PlaceInv
  <2>2. b = Home(k) /\ b \in Blocks /\ p = pag[b] /\ p \in Seq(Pair)
    BY <1>1, LoadedHome
  <2>3. PageRight(b)
    BY <2>1, <2>2 DEF PagesInv
  <2> HIDE DEF b, p
  <2>4. Distinct(rest) /\ Pairs(rest) \subseteq Pairs(p)
    BY <1>4, <2>2, <2>3, RestPairs DEF PageRight
  <2> HIDE DEF rest
  <2>5. \A x \in Pairs(rest) : Home(x[1]) = b
    BY <2>2, <2>3, <2>4 DEF PageRight
  <2>6. dir' = dir
    BY <1>4 DEF WritePage
  <2>7. PagesInv'
    BY <1>1, <1>4, <2>1, <2>2, <2>4, <2>5, <2>6, WritePages
  <2> QED BY <1>1, <2>1, <2>6, <2>7 DEF Rooted, HalvesInv, StoreInv, InStore, InSplitting
<1> QED BY <1>1, <1>3, <1>4

LEMMA SameLookups ==
  ASSUME UNCHANGED <<pag, npag, dir>>
  PROVE  \A k : Home(k)' = Home(k) /\ OnDiskMask(k)' = OnDiskMask(k) /\ Lookup(k)' = Lookup(k)
<1> SUFFICES ASSUME NEW k
             PROVE  Home(k)' = Home(k) /\ OnDiskMask(k)' = OnDiskMask(k) /\ Lookup(k)' = Lookup(k)
  OBVIOUS
<1>1. Home(k)' = Home(k) /\ OnDiskMask(k)' = OnDiskMask(k)
  BY SameHomes
<1>2. OnDisk(Home(k))' = OnDisk(Home(k))
  BY <1>1 DEF OnDisk
<1>3. Lookup(k) = Value(OnDisk(Home(k)), k) /\ Lookup(k)' = Value(OnDisk(Home(k))', k)
  BY DEF Lookup, Home
<1> QED BY <1>1, <1>2, <1>3

\* A lookup finds the pair of the key on its page.
LEMMA LookupValue ==
  ASSUME TypeInv, EmptyInv, NEW k \in Keys, PageRight(Home(k))
  PROVE  /\ Lookup(k) \in Vals \cup {NoVal}
         /\ \A v \in Vals : Lookup(k) = v <=> <<k, v>> \in Pairs(pag[Home(k)])
         /\ Lookup(k) = NoVal <=> ~Has(pag[Home(k)], k)
<1>1. Lookup(k) = Value(pag[Home(k)], k) /\ pag[Home(k)] \in Seq(Pair)
  BY LookupHome
<1>2. Distinct(pag[Home(k)])
  BY DEF PageRight
<1> DEFINE p == pag[Home(k)]
<1> HIDE DEF p
<1>3. p \in Seq(Pair) /\ Distinct(p) /\ Lookup(k) = Value(p, k)
  BY <1>1, <1>2 DEF p
<1>4. /\ \A v \in Vals : Value(p, k) = v <=> <<k, v>> \in Pairs(p)
      /\ Value(p, k) = NoVal <=> ~Has(p, k)
      /\ Has(p, k) => Value(p, k) \in Vals
  BY <1>3, ValueFound
<1> QED BY <1>3, <1>4 DEF p

LEMMA StorePlace ==
  ASSUME BufferInv, TypeInv, EmptyInv, PlaceInv,
         NEW k \in Keys, NEW v \in Vals, NEW r \in BOOLEAN, Store(k, v, r)
  PROVE  PlaceInv'
<1>1. /\ pc = "idle" /\ pc' = "access" /\ ~ioerr /\ ioerr' = ioerr
      /\ UNCHANGED <<pag, npag, dir, crashes, faults>>
      /\ st' = [NoStore EXCEPT !.key = k, !.val = v, !.replace = r, !.leaf = OnDiskMask(k)]
      /\ before' = [l \in Keys |-> Lookup(l)]
  BY DEF Store, Ready, file, bounds, Lookups
<1> SUFFICES ASSUME faults = 0 PROVE Rooted' /\ PagesInv' /\ HalvesInv' /\ StoreInv'
  BY <1>1 DEF PlaceInv
<1>2. Rooted /\ PagesInv
  BY DEF PlaceInv
<1>3. \A l : Home(l)' = Home(l) /\ OnDiskMask(l)' = OnDiskMask(l) /\ Lookup(l)' = Lookup(l)
  BY <1>1, SameLookups
<1>4. Rooted' /\ PagesInv' /\ HalvesInv'
  BY <1>1, <1>2, <1>3 DEF Rooted, PagesInv, PageRight, HalvesInv, InSplitting
<1>5. ioerr' = FALSE
  BY <1>1 DEF TypeInv, FlagsTyped
<1>6. \A l \in Keys : Lookup(l) \in Vals \cup {NoVal}
  BY <1>2, LookupValue DEF PagesInv
<1>7. before' \in [Keys -> Vals \cup {NoVal}] /\ \A l \in Keys : before'[l] = Lookup(l)'
  BY <1>1, <1>3, <1>6
<1>8. st'.key = k /\ st'.leaf = OnDiskMask(k)
  BY <1>1 DEF NoStore
<1>9. \E e \in Depths : /\ st'.leaf = 2 ^ e - 1
                        /\ \A c \in Depths : c < e => BitOf(Hash[st'.key], c) \in dir'
  <2>1. PICK e \in Depths : LeafAt(dir, Hash[k], e) /\ OnDiskMask(k) = 2 ^ e - 1
    BY HomeIs
  <2> QED BY <1>1, <1>8, <2>1 DEF LeafAt
<1> QED BY <1>1, <1>4, <1>5, <1>7, <1>8, <1>9 DEF StoreInv

LEMMA AccessPlace ==
  ASSUME BufferInv, DirInv, TypeInv, EmptyInv, Counted, PlaceInv, [Next]_vars, StoreAccess
  PROVE  PlaceInv'
<1> DEFINE k == st.key
           m == LeafMask(st.key)
           b == Blk(st.key, m)
           p == Loaded(b)
           rest == IF Has(p, st.key) THEN Without(p, Place(p, st.key)) ELSE p
           more == Append(rest, <<st.key, st.val>>)
           s == [st EXCEPT !.mask = m, !.blk = b, !.i = 1, !.ovf = << >>]
<1>1. /\ pc = "access" /\ WithinBound(k) /\ crashes' = crashes
      /\ \/ UNCHANGED <<pag, dir>> /\ pc' = "idle"
         \/ WritePage(b, more) /\ pc' = "idle"
         \/ /\ UNCHANGED <<pag, npag, dir, ioerr, before>> /\ pc' = "split"
            /\ (Has(p, k) => st.replace) /\ ~TooBig(k, st.val)
            /\ pagbuf' = rest /\ st' = s
  BY DEF StoreAccess, StoreDone, Return, WriteFails, file
<1>2. faults' = 0 => faults = 0
  BY NextCounted
<1>3. CASE UNCHANGED <<pag, dir>> /\ pc' = "idle"
  BY <1>1, <1>2, <1>3, FramePlace DEF InStore
<1> SUFFICES ASSUME faults = 0, ~(UNCHANGED <<pag, dir>> /\ pc' = "idle")
             PROVE Rooted' /\ PagesInv' /\ HalvesInv' /\ StoreInv'
  BY <1>2, <1>3 DEF PlaceInv
<1>4. Rooted /\ PagesInv /\ StoreInv
  BY DEF PlaceInv
<1>5. k \in Keys /\ st.val \in Vals /\ <<k, st.val>> \in Pair /\ ioerr = FALSE
  BY <1>1, <1>4 DEF TypeInv, StoreTyped, InStore, Pair, StoreInv
<1>6. b = Home(k) /\ m = OnDiskMask(k) /\ b \in Blocks /\ p = pag[b] /\ p \in Seq(Pair)
  BY <1>1, <1>5, LoadedHome
<1>7. PageRight(b)
  BY <1>4, <1>5, <1>6 DEF PagesInv
<1> HIDE DEF b, p, m, k
<1>8. rest \in Seq(Pair) /\ Distinct(rest) /\ Pairs(rest) = {x \in Pairs(p) : x[1] # k} /\ ~Has(rest, k)
  BY <1>6, <1>7, RestPairs DEF k, PageRight
<1> HIDE DEF rest
<1>9. \A x \in Pairs(rest) : Home(x[1]) = b
  BY <1>6, <1>7, <1>8 DEF PageRight
<1>10. CASE WritePage(b, more) /\ pc' = "idle"
  <2>1. Distinct(more) /\ Pairs(more) = Pairs(rest) \cup {<<k, st.val>>}
    BY <1>5, <1>8, AppendPairs DEF k
  <2> HIDE DEF more
  <2>2. \A x \in Pairs(more) : Home(x[1]) = b
    BY <1>6, <1>9, <2>1
  <2>3. dir' = dir
    BY <1>10 DEF WritePage
  <2>4. PagesInv'
    BY <1>1, <1>4, <1>6, <1>10, <2>1, <2>2, <2>3, WritePages
  <2> QED BY <1>4, <1>10, <2>3, <2>4 DEF Rooted, HalvesInv, StoreInv, InStore, InSplitting
<1>11. CASE /\ UNCHANGED <<pag, npag, dir, ioerr, before>> /\ pc' = "split"
            /\ (Has(p, k) => st.replace) /\ ~TooBig(k, st.val)
            /\ pagbuf' = rest /\ st' = s
  <2>1. \A l : Home(l)' = Home(l) /\ OnDiskMask(l)' = OnDiskMask(l) /\ Lookup(l)' = Lookup(l)
    BY <1>11, SameLookups
  <2>2. Rooted' /\ PagesInv'
    BY <1>1, <1>4, <1>11, <2>1 DEF Rooted, PagesInv, PageRight
  <2>3. /\ st'.key = k /\ st'.val = st.val /\ st'.replace = st.replace /\ st'.leaf = st.leaf
        /\ st'.mask = m /\ st'.blk = b /\ st'.i = 1 /\ st'.ovf = << >>
    <3>1. st = [key |-> st.key, val |-> st.val, replace |-> st.replace, mask |-> st.mask,
                blk |-> st.blk, i |-> st.i, ovf |-> st.ovf, leaf |-> st.leaf]
      BY DEF BufferInv, StoreShape
    <3>2. st' = [key |-> st.key, val |-> st.val, replace |-> st.replace, mask |-> m,
                 blk |-> b, i |-> 1, ovf |-> << >>, leaf |-> st.leaf]
      BY <1>11, <3>1
    <3> QED BY <3>2 DEF k
  <2>4. HalvesInv'
    <3>1. st'.mask = OnDiskMask(st.key)' /\ st'.blk = Home(st.key)'
      <4>1. dir' = dir /\ st'.key = k
        BY <1>11, <2>3
      <4>2. OnDiskMask(st.key)' = OnDiskMask(k) /\ Home(st.key)' = Home(k)
        BY <4>1 DEF OnDiskMask, Home
      <4> QED BY <1>6, <2>3, <4>2
    <3>2. Distinct(pagbuf') /\ Distinct(st'.ovf) /\ Pairs(st'.ovf) = {}
      BY <1>8, <1>11, <2>3, EmptyPage
    <3>3. \A x \in Pairs(pagbuf') : Home(x[1])' = st'.blk /\ x[1] # st'.key
      BY <1>8, <1>9, <1>11, <2>1, <2>3
    <3>4. \A i \in DOMAIN pagbuf' : ~(i < st'.i)
      BY <1>8, <1>11, <2>3
    <3>5. pc' = "split"
      BY <1>11
    <3> QED BY <3>1, <3>2, <3>3, <3>4, <3>5 DEF HalvesInv
  <2>5. StoreInv'
    <3>1. ioerr' = FALSE /\ before' \in [Keys -> Vals \cup {NoVal}]
      BY <1>1, <1>4, <1>11 DEF StoreInv, InStore
    <3>2. \E e \in Depths : /\ st'.leaf = 2 ^ e - 1
                            /\ \A c \in Depths : c < e => BitOf(Hash[st'.key], c) \in dir'
      BY <1>1, <1>4, <1>11, <2>3 DEF StoreInv, InStore, k
    <3>3. \A l \in Keys \ {k} : Lookup(l) = before[l]
      BY <1>1, <1>4 DEF StoreInv, InStore, k
    <3>4. ~TooBig(st'.key, st'.val)
      BY <1>11, <2>3
    <3>5. st'.replace \/ before'[st'.key] = NoVal
      <4>1. \/ Lookup(k) = before[k]
            \/ Lookup(k) = NoVal /\ st.replace
        BY <1>1, <1>4 DEF StoreInv, InStore, k
      <4>2. ~Has(p, k) => Lookup(k) = NoVal
        BY <1>5, <1>6, <1>7, LookupValue
      <4> QED BY <1>11, <2>3, <4>1, <4>2
    <3>6. ASSUME NEW l \in Keys \ {k}, Home(l) = b, NEW v \in Vals
          PROVE  before[l] = v <=> <<l, v>> \in Pairs(rest)
      <4>1. Lookup(l) = v <=> <<l, v>> \in Pairs(p)
        BY <1>6, <1>7, <3>6, LookupValue
      <4>2. <<l, v>> \in Pairs(p) <=> <<l, v>> \in Pairs(rest)
        BY <1>8
      <4> QED BY <3>3, <4>1, <4>2
    <3>7. Pairs(pagbuf') \cup Pairs(st'.ovf) = Pairs(rest)
      BY <1>11, <2>3, EmptyPage
    <3>8. \A l \in Keys \ {st'.key} : Lookup(l)' = before'[l]
      BY <1>11, <2>1, <2>3, <3>3
    <3>9. \A l \in Keys \ {st'.key} : Home(l)' = st'.blk =>
            \A v \in Vals : before'[l] = v <=> <<l, v>> \in Pairs(pagbuf') \cup Pairs(st'.ovf)
      BY <1>11, <2>1, <2>3, <3>6, <3>7
    <3>10. pc' # "access"
      BY <1>11
    <3> HIDE <1>11
    <3> QED BY <3>1, <3>2, <3>4, <3>5, <3>8, <3>9, <3>10 DEF StoreInv
  <2> QED BY <2>2, <2>4, <2>5
<1> QED BY <1>1, <1>10, <1>11

\* A pair moves or stays, and the two halves hold what they held together.
LEMMA ItemPlace ==
  ASSUME BufferInv, TypeInv, PlaceInv, SplitItem
  PROVE  PlaceInv'
<1> DEFINE x == pagbuf[st.i]
           less == Without(pagbuf, st.i)
           more == Append(st.ovf, x)
           goes == Hash[x[1]] % (2 * (st.mask + 1)) > st.mask
<1>1. /\ pc = "split" /\ pc' = "split" /\ st.i <= Len(pagbuf)
      /\ UNCHANGED <<pag, npag, dir, ioerr, crashes, faults, before>>
      /\ \/ goes /\ st' = [st EXCEPT !.ovf = Append(@, x)] /\ pagbuf' = less
         \/ ~goes /\ st' = [st EXCEPT !.i = @ + 1] /\ UNCHANGED pagbuf
  BY DEF SplitItem, file, bounds
<1> SUFFICES ASSUME faults = 0 PROVE Rooted' /\ PagesInv' /\ HalvesInv' /\ StoreInv'
  BY <1>1 DEF PlaceInv
<1>2. Rooted /\ PagesInv /\ HalvesInv /\ StoreInv
  BY DEF PlaceInv
<1>3. /\ st.i \in Nat /\ st.i # 0 /\ pagbuf \in Seq(Pair) /\ st.ovf \in Seq(Pair)
      /\ st.key \in Keys /\ st.blk \in Nat
  BY <1>1, Splitting DEF InStore
<1>4. st.i \in 1 .. Len(pagbuf) /\ DOMAIN pagbuf = 1 .. Len(pagbuf) /\ x \in Pair /\ x \in Pairs(pagbuf)
      /\ Len(pagbuf) \in Nat
  BY <1>1, <1>3 DEF Pairs
<1>5. /\ st.mask = OnDiskMask(st.key) /\ st.blk = Home(st.key)
      /\ Distinct(pagbuf) /\ Distinct(st.ovf)
      /\ \A y \in Pairs(pagbuf), z \in Pairs(st.ovf) : y[1] # z[1]
      /\ \A y \in Pairs(pagbuf) \cup Pairs(st.ovf) : Home(y[1]) = st.blk /\ y[1] # st.key
      /\ \A y \in Pairs(st.ovf) : Hash[y[1]] % (2 * (st.mask + 1)) = High
      /\ \A i \in DOMAIN pagbuf : i < st.i => Hash[pagbuf[i][1]] % (2 * (st.mask + 1)) = st.blk
  BY <1>1, <1>2 DEF HalvesInv, InSplitting
<1>6. Hash[x[1]] % (2 * (st.mask + 1)) = IF goes THEN High ELSE st.blk
  <2>1. PICK d \in Depths : LeafAt(dir, Hash[st.key], d) /\ OnDiskMask(st.key) = 2 ^ d - 1
                            /\ Home(st.key) = Hash[st.key] % 2 ^ d
    BY <1>3, HomeIs
  <2>2. x[1] \in Keys /\ Home(x[1]) = st.blk
    BY <1>4, <1>5 DEF Pair
  <2>3. PICK e \in Depths : LeafAt(dir, Hash[x[1]], e) /\ Home(x[1]) = Hash[x[1]] % 2 ^ e
    BY <2>2, HomeIs
  <2>4. Hash[x[1]] \in Nat /\ Hash[st.key] \in Nat
    BY <1>3, <2>2, HashType
  <2>5. d = e
    BY <1>5, <2>1, <2>2, <2>3, <2>4, SameDepth
  <2>6. /\ 2 ^ d \in Nat /\ 2 ^ d > 0 /\ 2 ^ (d + 1) = 2 * 2 ^ d /\ st.mask = 2 ^ d - 1
        /\ Hash[x[1]] % 2 ^ d = st.blk /\ st.blk < 2 ^ d
    BY <1>5, <2>1, <2>2, <2>3, <2>4, <2>5, Powers, PageOf
  <2>7. st.mask + 1 = 2 ^ d /\ High = st.blk + 2 ^ d
    BY <1>3, <2>6 DEF High
  <2>8. 2 * (st.mask + 1) = 2 ^ (d + 1)
    BY <2>6, <2>7
  <2>9. \/ Hash[x[1]] % (2 * (st.mask + 1)) = st.blk
        \/ Hash[x[1]] % (2 * (st.mask + 1)) = High
    BY <2>4, <2>6, <2>7, <2>8, PageDown
  <2> DEFINE t == Hash[x[1]] % (2 * (st.mask + 1))
  <2>10. st.blk <= st.mask /\ High > st.mask
    BY <1>3, <2>6, <2>7
  <2>11. (t = st.blk \/ t = High) /\ (goes <=> t > st.mask)
    BY <2>9
  <2>12. st.mask \in Int /\ High \in Int
    BY <1>3, <2>6, <2>7
  <2> HIDE DEF t, goes
  <2>13. t = IF goes THEN High ELSE st.blk
    BY <1>3, <2>10, <2>11, <2>12
  <2> QED BY <2>13 DEF t
<1>7. st = [key |-> st.key, val |-> st.val, replace |-> st.replace, mask |-> st.mask,
            blk |-> st.blk, i |-> st.i, ovf |-> st.ovf, leaf |-> st.leaf]
  BY DEF BufferInv, StoreShape
<1>8. \A l : Home(l)' = Home(l) /\ OnDiskMask(l)' = OnDiskMask(l) /\ Lookup(l)' = Lookup(l)
  BY <1>1, SameLookups
<1>9. Rooted' /\ PagesInv'
  BY <1>1, <1>2, <1>8 DEF Rooted, PagesInv, PageRight
<1>10. less \in Seq(Pair) /\ Distinct(less) /\ Pairs(less) = Pairs(pagbuf) \ {x}
       /\ Len(less) = Len(pagbuf) - 1
       /\ \A j \in 1 .. Len(pagbuf) - 1 : less[j] = IF j < st.i THEN pagbuf[j] ELSE pagbuf[j + 1]
  BY <1>3, <1>4, <1>5, WithoutType, WithoutPairs
<1>11. more \in Seq(Pair) /\ Pairs(more) = Pairs(st.ovf) \cup {x} /\ Distinct(more)
  <2>1. ~Has(st.ovf, x[1])
    BY <1>4, <1>5, HasPair
  <2> QED BY <1>3, <1>4, <1>5, <2>1, AppendPairs
<1>12. \A y \in Pairs(less) : y[1] # x[1]
  <2>1. \A y \in Pairs(pagbuf) : y[1] = x[1] => y = x
    BY <1>4, <1>5 DEF Pairs, Distinct
  <2> QED BY <1>10, <2>1
<1>13. /\ st'.key = st.key /\ st'.val = st.val /\ st'.replace = st.replace /\ st'.leaf = st.leaf
       /\ st'.mask = st.mask /\ st'.blk = st.blk /\ High' = High
       /\ \/ goes /\ pagbuf' = less /\ st'.ovf = more /\ st'.i = st.i
          \/ ~goes /\ pagbuf' = pagbuf /\ st'.ovf = st.ovf /\ st'.i = st.i + 1
  BY <1>1, <1>7 DEF High
<1> HIDE DEF x, less, more, goes
<1>14. Pairs(pagbuf') \cup Pairs(st'.ovf) = Pairs(pagbuf) \cup Pairs(st.ovf)
  BY <1>4, <1>10, <1>11, <1>13
<1>15. HalvesInv'
  <2>1. st'.mask = OnDiskMask(st.key)' /\ st'.blk = Home(st.key)'
    <3>1. dir' = dir /\ st'.key = st.key
      BY <1>1, <1>13
    <3>2. OnDiskMask(st.key)' = OnDiskMask(st.key) /\ Home(st.key)' = Home(st.key)
      BY <3>1 DEF OnDiskMask, Home
    <3> QED BY <1>5, <1>13, <3>2
  <2>2. Distinct(pagbuf') /\ Distinct(st'.ovf)
    BY <1>5, <1>10, <1>11, <1>13
  <2>3. \A y \in Pairs(pagbuf'), z \in Pairs(st'.ovf) : y[1] # z[1]
    BY <1>5, <1>10, <1>11, <1>12, <1>13
  <2>4. \A y \in Pairs(pagbuf') \cup Pairs(st'.ovf) : Home(y[1])' = st'.blk /\ y[1] # st'.key
    BY <1>5, <1>8, <1>13, <1>14
  <2>5. \A y \in Pairs(st'.ovf) : Hash[y[1]] % (2 * (st'.mask + 1)) = High'
    BY <1>5, <1>6, <1>11, <1>13
  <2>6. \A i \in DOMAIN pagbuf' : i < st'.i => Hash[pagbuf'[i][1]] % (2 * (st'.mask + 1)) = st'.blk
    <3> SUFFICES ASSUME NEW i \in DOMAIN pagbuf', i < st'.i
                 PROVE  Hash[pagbuf'[i][1]] % (2 * (st.mask + 1)) = st.blk
      BY <1>13
    <3>1. CASE goes
      <4>1. pagbuf' = less /\ st'.i = st.i
        BY <1>13, <3>1
      <4>2. i \in 1 .. Len(pagbuf) - 1
        BY <1>10, <4>1
      <4>3. less[i] = pagbuf[i] /\ i \in DOMAIN pagbuf
        BY <1>4, <1>10, <4>1, <4>2
      <4> QED BY <1>5, <4>1, <4>3
    <3>2. CASE ~goes
      <4>1. pagbuf' = pagbuf /\ st'.i = st.i + 1
        BY <1>13, <3>2
      <4>2. i < st.i \/ i = st.i
        BY <1>3, <1>4, <4>1
      <4> QED BY <1>5, <1>6, <3>2, <4>1, <4>2 DEF x
    <3> QED BY <3>1, <3>2
  <2>7. pc' = "split"
    BY <1>1
  <2> QED BY <2>1, <2>2, <2>3, <2>4, <2>5, <2>6, <2>7 DEF HalvesInv
<1>16. StoreInv'
  <2>1. ioerr' = FALSE /\ before' \in [Keys -> Vals \cup {NoVal}] /\ before' = before
    BY <1>1, <1>2 DEF StoreInv, InStore
  <2>2. \E e \in Depths : /\ st'.leaf = 2 ^ e - 1
                          /\ \A c \in Depths : c < e => BitOf(Hash[st'.key], c) \in dir'
    BY <1>1, <1>2, <1>13 DEF StoreInv, InStore
  <2>3. /\ \A l \in Keys \ {st.key} : Lookup(l) = before[l]
        /\ ~TooBig(st.key, st.val) /\ (st.replace \/ before[st.key] = NoVal)
        /\ \A l \in Keys \ {st.key} : Home(l) = st.blk =>
             \A v \in Vals : before[l] = v <=> <<l, v>> \in Pairs(pagbuf) \cup Pairs(st.ovf)
    BY <1>1, <1>2 DEF StoreInv, InStore
  <2>4. \A l \in Keys \ {st'.key} : Lookup(l)' = before'[l]
    BY <1>8, <1>13, <2>1, <2>3
  <2>5. ~TooBig(st'.key, st'.val) /\ (st'.replace \/ before'[st'.key] = NoVal)
    BY <1>13, <2>1, <2>3
  <2>6. \A l \in Keys \ {st'.key} : Home(l)' = st'.blk =>
          \A v \in Vals : before'[l] = v <=> <<l, v>> \in Pairs(pagbuf') \cup Pairs(st'.ovf)
    BY <1>8, <1>13, <1>14, <2>1, <2>3
  <2>7. pc' # "access"
    BY <1>1
  <2> QED BY <2>1, <2>2, <2>4, <2>5, <2>6, <2>7 DEF StoreInv
<1> QED BY <1>9, <1>15, <1>16

\* The page being split, its depth d and its keys.  Its high half is the page of
\* no key yet.
LEMMA Halving ==
  ASSUME BufferInv, TypeInv, HalvesInv, pc \in InSplitting
  PROVE  \E d \in Depths :
           /\ st.mask = 2 ^ d - 1 /\ 2 * (st.mask + 1) = 2 ^ (d + 1)
           /\ LeafAt(dir, Hash[st.key], d)
           /\ st.blk = Hash[st.key] % 2 ^ d
           /\ High = st.blk + 2 ^ d
           /\ st.blk + st.mask = BitOf(Hash[st.key], d)
           /\ \A k \in Keys : Home(k) = st.blk => LeafAt(dir, Hash[k], d) /\ Hash[k] % 2 ^ d = st.blk
           /\ \A k \in Keys : Home(k) # High
<1>1. st.key \in Keys /\ st.blk \in Nat /\ st.mask = OnDiskMask(st.key) /\ st.blk = Home(st.key)
  BY Splitting DEF HalvesInv, InStore, InSplitting
<1>2. PICK d \in Depths : /\ LeafAt(dir, Hash[st.key], d)
                          /\ OnDiskMask(st.key) = 2 ^ d - 1
                          /\ Home(st.key) = Hash[st.key] % 2 ^ d
  BY <1>1, HomeIs
<1>3. /\ 2 ^ d \in Nat /\ 2 ^ d > 0 /\ 2 ^ (d + 1) = 2 * 2 ^ d
      /\ Hash[st.key] \in Nat
  BY <1>1, Powers, HashType
<1>4. st.mask + 1 = 2 ^ d /\ High = st.blk + 2 ^ d /\ st.blk + st.mask = st.blk + 2 ^ d - 1
  BY <1>1, <1>2, <1>3 DEF High
<1>5. 2 * (st.mask + 1) = 2 ^ (d + 1)
  BY <1>3, <1>4
<1>6. st.blk + st.mask = BitOf(Hash[st.key], d)
  BY <1>1, <1>2, <1>4 DEF BitOf
<1>7. ASSUME NEW k \in Keys
      PROVE  /\ Home(k) = st.blk => LeafAt(dir, Hash[k], d) /\ Hash[k] % 2 ^ d = st.blk
             /\ Home(k) # High
  <2>1. PICK e \in Depths : LeafAt(dir, Hash[k], e) /\ Home(k) = Hash[k] % 2 ^ e
    BY HomeIs
  <2>2. Hash[k] \in Nat
    BY HashType
  <2>3. Home(k) = st.blk => d = e
    <3> HAVE Home(k) = st.blk
    <3>1. Hash[st.key] % 2 ^ d = Hash[k] % 2 ^ e
      BY <1>1, <1>2, <2>1
    <3> QED BY <1>2, <1>3, <2>1, <2>2, <3>1, SameDepth
  <2>4. Hash[k] % 2 ^ e # (Hash[st.key] % 2 ^ d) + 2 ^ d
    BY <1>2, <1>3, <2>1, <2>2, HighNoLeaf
  <2> QED BY <1>1, <1>2, <1>4, <2>1, <2>3, <2>4
<1> QED BY <1>1, <1>2, <1>4, <1>5, <1>6, <1>7

LEMMA WriteLookup ==
  ASSUME TypeInv, EmptyInv, NEW b \in Blocks, NEW p, WritePage(b, p), NEW k \in Keys, Home(k) # b
  PROVE  Lookup(k)' = Lookup(k)
<1>1. dir' = dir
  BY DEF WritePage
<1>2. Home(k)' = Home(k) /\ Home(k) \in Blocks
  BY <1>1, SameHomes, HomeIs
<1>3. \A c \in Blocks : OnDisk(c)' = IF c = b THEN p ELSE OnDisk(c)
  BY WriteOnDisk
<1>4. OnDisk(Home(k))' = OnDisk(Home(k))
  <2> DEFINE c == Home(k)
  <2>1. OnDisk(c)' = OnDisk(Home(k))
    BY <1>2, <1>3 DEF OnDisk
  <2> QED BY <1>2, <2>1 DEF OnDisk
<1> QED BY <1>4 DEF Lookup, Home

\* Where the store goes on, it keeps what it knows.
LEMMA KeepHalves ==
  ASSUME BufferInv, TypeInv, EmptyInv, HalvesInv, StoreInv, pc \in InSplitting, pc' \in {"high", "bit"},
         UNCHANGED <<dir, ioerr, st, pagbuf, before>>,
         pc = "split" => st.i > Len(pagbuf),
         NEW b \in {st.blk, High}, b \in Blocks, NEW p, WritePage(b, p),
         pc' = "bit" => pag'[High] = st.ovf
  PROVE  HalvesInv' /\ StoreInv'
<1>1. \A k : Home(k)' = Home(k) /\ OnDiskMask(k)' = OnDiskMask(k)
  BY SameHomes
<1>2. High' = High /\ OnDiskMask(st.key)' = OnDiskMask(st.key) /\ Home(st.key)' = Home(st.key)
  BY DEF High, OnDiskMask, Home
<1>3. pagbuf \in Seq(Pair) /\ st.i \in Nat
  BY Splitting DEF InStore, InSplitting
<1>4. \A x \in Pairs(pagbuf) : Hash[x[1]] % (2 * (st.mask + 1)) = st.blk
  <2>1. CASE pc = "split"
    <3>1. \A i \in DOMAIN pagbuf : i < st.i
      BY <1>3, <2>1
    <3>2. \A i \in DOMAIN pagbuf : Hash[pagbuf[i][1]] % (2 * (st.mask + 1)) = st.blk
      BY <2>1, <3>1 DEF HalvesInv, InSplitting
    <3> QED BY <3>2 DEF Pairs
  <2>2. CASE pc # "split"
    BY <2>2 DEF HalvesInv
  <2> QED BY <2>1, <2>2
<1>5. HalvesInv'
  <2>1. /\ st.mask = OnDiskMask(st.key) /\ st.blk = Home(st.key)
        /\ Distinct(pagbuf) /\ Distinct(st.ovf)
        /\ \A y \in Pairs(pagbuf), z \in Pairs(st.ovf) : y[1] # z[1]
        /\ \A y \in Pairs(pagbuf) \cup Pairs(st.ovf) : Home(y[1]) = st.blk /\ y[1] # st.key
        /\ \A y \in Pairs(st.ovf) : Hash[y[1]] % (2 * (st.mask + 1)) = High
    BY DEF HalvesInv
  <2>2. pc' # "split"
    OBVIOUS
  <2> QED BY <1>1, <1>2, <1>4, <2>1, <2>2 DEF HalvesInv
<1>6. StoreInv'
  <2>1. /\ ioerr = FALSE /\ before \in [Keys -> Vals \cup {NoVal}]
        /\ \E e \in Depths : /\ st.leaf = 2 ^ e - 1
                             /\ \A c \in Depths : c < e => BitOf(Hash[st.key], c) \in dir
        /\ \A k \in Keys \ {st.key} : Home(k) # st.blk => Lookup(k) = before[k]
        /\ ~TooBig(st.key, st.val) /\ (st.replace \/ before[st.key] = NoVal)
        /\ \A k \in Keys \ {st.key} : Home(k) = st.blk =>
             \A v \in Vals : before[k] = v <=> <<k, v>> \in Pairs(pagbuf) \cup Pairs(st.ovf)
    BY DEF StoreInv, InStore, InSplitting
  <2>2. \A k \in Keys : Home(k) # High
    BY Halving
  <2>3. \A k \in Keys : Home(k) # st.blk => Lookup(k)' = Lookup(k)
    BY <2>2, WriteLookup
  <2>4. \A k \in Keys \ {st.key} : Home(k)' # st'.blk => Lookup(k)' = before'[k]
    BY <1>1, <2>1, <2>3
  <2>5. pc' # "access"
    OBVIOUS
  <2> QED BY <1>1, <2>1, <2>4, <2>5 DEF StoreInv
<1> QED BY <1>5, <1>6

LEMMA LowPlace ==
  ASSUME BufferInv, TypeInv, EmptyInv, Counted, PlaceInv, [Next]_vars, SplitLow
  PROVE  PlaceInv'
<1>1. /\ pc = "split" /\ st.i > Len(pagbuf) /\ UNCHANGED <<pagbuf, crashes>>
      /\ \/ WritePage(st.blk, pagbuf) /\ pc' = "high" /\ UNCHANGED <<st, before, ioerr>>
         \/ UNCHANGED <<pag, dir>> /\ pc' = "idle"
  BY DEF SplitLow, StoreDone, Return, WriteWorks, WriteFails, file
<1>2. faults' = 0 => faults = 0
  BY NextCounted
<1>3. CASE UNCHANGED <<pag, dir>> /\ pc' = "idle"
  BY <1>1, <1>2, <1>3, FramePlace DEF InStore
<1>4. CASE WritePage(st.blk, pagbuf) /\ pc' = "high" /\ UNCHANGED <<st, before, ioerr>>
  <2> SUFFICES ASSUME faults = 0 PROVE Rooted' /\ PagesInv' /\ HalvesInv' /\ StoreInv'
    BY <1>2 DEF PlaceInv
  <2>1. Rooted /\ PagesInv /\ HalvesInv /\ StoreInv
    BY DEF PlaceInv
  <2>2. st.blk \in Blocks /\ pc \in InSplitting /\ dir' = dir
    <3>1. st.blk \in Blocks
      BY <1>1, Splitting DEF InStore
    <3> QED BY <1>1, <1>4, <3>1 DEF InSplitting, WritePage
  <2>3. Distinct(pagbuf) /\ \A x \in Pairs(pagbuf) : Home(x[1]) = st.blk
    BY <2>1, <2>2 DEF HalvesInv
  <2>4. PagesInv'
    BY <1>1, <1>4, <2>1, <2>2, <2>3, WritePages
  <2>5. pc' # "bit" /\ pc' \in {"high", "bit"}
    BY <1>4
  <2>6. HalvesInv' /\ StoreInv'
    BY <1>1, <1>4, <2>1, <2>2, <2>5, KeepHalves
  <2> QED BY <2>1, <2>2, <2>4, <2>6 DEF Rooted
<1> QED BY <1>1, <1>3, <1>4

LEMMA HighPlace ==
  ASSUME BufferInv, TypeInv, EmptyInv, Counted, PlaceInv, [Next]_vars, SplitHigh
  PROVE  PlaceInv'
<1>1. /\ pc = "high" /\ High \in Blocks /\ UNCHANGED <<pagbuf, crashes>>
      /\ faults' = 0 => faults = 0
      /\ \/ WritePage(High, st.ovf) /\ pc' = "bit" /\ UNCHANGED <<st, before, ioerr>>
         \/ faults' # 0
  <2>1. faults \in Nat /\ (faults' = 0 => faults = 0)
    BY NextCounted DEF Counted
  <2>2. faults' = faults + 1 => faults' # 0
    BY <2>1
  <2> QED BY <2>1, <2>2 DEF SplitHigh, WriteWorks, WriteFails, pagebuffer
<1> SUFFICES ASSUME faults' = 0 PROVE Rooted' /\ PagesInv' /\ HalvesInv' /\ StoreInv'
  BY DEF PlaceInv
<1>2. Rooted /\ PagesInv /\ HalvesInv /\ StoreInv
  BY <1>1 DEF PlaceInv
<1>3. pc \in InSplitting /\ dir' = dir /\ WritePage(High, st.ovf) /\ pc' = "bit"
      /\ UNCHANGED <<st, before, ioerr>>
  BY <1>1 DEF InSplitting, WritePage
<1>4. \A c \in Blocks : pag'[c] = IF c = High THEN st.ovf ELSE pag[c]
  BY <1>1, <1>3, WriteOnDisk
<1>5. \A k : Home(k)' = Home(k)
  BY <1>3, SameHomes
<1>6. \A k \in Keys : Home(k) \in Blocks /\ Home(k) # High
  BY <1>2, <1>3, Halving, HomeIs
<1>7. PagesInv'
  <2>1. High' = High
    BY <1>3 DEF High
  <2>2. \A c \in Blocks : PageRight(c) /\ c # High => PageRight(c)'
    BY <1>4, <1>5 DEF PageRight
  <2>3. \A k \in Keys : PageRight(Home(k))'
    BY <1>2, <1>5, <1>6, <2>2 DEF PagesInv, PageRight
  <2>4. crashes' = 0 => \A c \in Blocks : PageRight(c)' \/ c = High'
    BY <1>1, <1>2, <2>1, <2>2 DEF PagesInv
  <2> QED BY <1>3, <2>3, <2>4 DEF PagesInv, PageRight
<1>8. pag'[High] = st.ovf /\ pc # "split" /\ pc' \in {"high", "bit"} /\ High \in {st.blk, High}
  BY <1>1, <1>3, <1>4
<1>9. HalvesInv' /\ StoreInv'
  BY <1>1, <1>2, <1>3, <1>8, KeepHalves
<1> QED BY <1>2, <1>3, <1>7, <1>9 DEF Rooted

\* The bit sends the keys of the page to its halves, and no other key elsewhere.
LEMMA BitHomes ==
  ASSUME BufferInv, TypeInv, TypeInv', Rooted, HalvesInv, pc = "bit",
         dir' = dir \cup {st.blk + st.mask}, NEW k \in Keys
  PROVE  /\ Home(k) # st.blk => Home(k)' = Home(k)
         /\ Home(k) = st.blk => /\ Home(k)' = Hash[k] % (2 * (st.mask + 1))
                                /\ Home(k)' = st.blk \/ Home(k)' = High
<1>1. PICK d \in Depths :
           /\ st.mask = 2 ^ d - 1 /\ 2 * (st.mask + 1) = 2 ^ (d + 1)
           /\ LeafAt(dir, Hash[st.key], d)
           /\ st.blk = Hash[st.key] % 2 ^ d
           /\ High = st.blk + 2 ^ d
           /\ st.blk + st.mask = BitOf(Hash[st.key], d)
           /\ \A l \in Keys : Home(l) = st.blk => LeafAt(dir, Hash[l], d) /\ Hash[l] % 2 ^ d = st.blk
           /\ \A l \in Keys : Home(l) # High
  BY Halving DEF InSplitting
<1> DEFINE n == st.blk + st.mask
<1>2. st.key \in Keys /\ Hash[st.key] \in Nat /\ Hash[k] \in Nat
  <2>1. st.key \in Keys
    BY Splitting DEF InStore
  <2> QED BY <2>1, HashType
<1>3. n = BitOf(Hash[st.key], d) /\ dir' = dir \cup {n}
  BY <1>1
<1> HIDE DEF n
<1>4. BitOf(Hash[k], MaxDepth) \notin dir'
  <2>1. MaxDepth \in Depths /\ ~(MaxDepth < MaxDepth)
    BY Deepest
  <2>2. \A h \in Nat, c \in Depths : BitOf(h, c) \in dir' => c < MaxDepth
    BY DEF TypeInv, BitsTyped
  <2> QED BY <1>2, <2>1, <2>2
<1>5. PICK e \in Depths : LeafAt(dir', Hash[k], e) /\ Blk(k, MaskIn(dir', k)) = Hash[k] % 2 ^ e
  BY <1>4, LeafExists
<1>6. Home(k)' = Hash[k] % 2 ^ e
  BY <1>5 DEF Home, OnDiskMask
<1>7. CASE Home(k) # st.blk
  <2>1. PICK c \in Depths : LeafAt(dir, Hash[k], c) /\ Home(k) = Hash[k] % 2 ^ c
    BY HomeIs
  <2>2. BitOf(Hash[k], c) # n
    <3> SUFFICES ASSUME BitOf(Hash[k], c) = n PROVE FALSE
      OBVIOUS
    <3>1. c = d /\ Hash[k] % 2 ^ c = Hash[st.key] % 2 ^ d
      BY <1>2, <1>3, SameBit
    <3> QED BY <1>1, <1>7, <2>1, <3>1
  <2>3. LeafAt(dir', Hash[k], c)
    BY <1>3, <2>1, <2>2 DEF LeafAt
  <2>4. c = e
    BY <1>5, <2>3, LeafUnique
  <2> QED BY <1>6, <1>7, <2>1, <2>4
<1>8. CASE Home(k) = st.blk
  <2>1. LeafAt(dir, Hash[k], d) /\ Hash[k] % 2 ^ d = st.blk
    BY <1>1, <1>8
  <2>2. BitOf(Hash[k], d) = n
    BY <1>1, <1>3, <2>1 DEF BitOf
  <2>3. d < MaxDepth
    <3>1. BitOf(Hash[k], d) \in dir'
      BY <1>3, <2>2
    <3> QED BY <1>2, <3>1 DEF TypeInv, BitsTyped
  <2>4. d + 1 \in Depths /\ d + 1 > 0 /\ d + 1 # d /\ (d + 1) - 1 = d
    BY <2>3, Deepest DEF Depths
  <2>5. BitOf(Hash[k], d + 1) \notin dir
    <3>1. \A c \in Depths : c > 0 /\ BitOf(Hash[k], c) \in dir => BitOf(Hash[k], c - 1) \in dir
      BY <1>2 DEF Rooted
    <3>2. BitOf(Hash[k], d) \notin dir
      BY <2>1 DEF LeafAt
    <3> QED BY <2>4, <3>1, <3>2
  <2>6. BitOf(Hash[k], d + 1) # n
    BY <1>2, <1>3, <2>4, SameBit
  <2>7. \A c \in Depths : c < d + 1 => c < d \/ c = d
    BY DEF Depths
  <2>8. LeafAt(dir', Hash[k], d + 1)
    BY <1>3, <2>1, <2>2, <2>5, <2>6, <2>7 DEF LeafAt
  <2>9. e = d + 1
    BY <1>5, <2>4, <2>8, LeafUnique
  <2>10. \/ Hash[k] % 2 ^ (d + 1) = Hash[k] % 2 ^ d
         \/ Hash[k] % 2 ^ (d + 1) = (Hash[k] % 2 ^ d) + 2 ^ d
    BY <1>2, PageDown
  <2> QED BY <1>1, <1>6, <1>8, <2>1, <2>9, <2>10
<1> QED BY <1>7, <1>8

LEMMA BitPlace ==
  ASSUME BufferInv, DirInv, TypeInv, TypeInv', EmptyInv, Counted, PlaceInv, [Next]_vars, SplitBit
  PROVE  PlaceInv'
<1> DEFINE n == st.blk + st.mask
           c == n \div DBLKBITS
           bits == (IF c = dirbno THEN dirbuf ELSE InBlock(dir, c)) \cup {n}
<1>1. /\ pc = "bit" /\ pc' = "access" /\ UNCHANGED <<pag, npag, pagbno, pagbuf, st, crashes, before>>
      /\ faults' = 0 => faults = 0
      /\ \/ dir' = (dir \ InBlock(dir, c)) \cup bits /\ ioerr' = ioerr
         \/ faults' # 0
  <2>1. faults \in Nat /\ (faults' = 0 => faults = 0)
    BY NextCounted DEF Counted
  <2>2. faults' = faults + 1 => faults' # 0
    BY <2>1
  <2> QED BY <2>1, <2>2 DEF SplitBit, WriteWorks, WriteFails, pagebuffer, file
<1> SUFFICES ASSUME faults' = 0 PROVE Rooted' /\ PagesInv' /\ HalvesInv' /\ StoreInv'
  BY DEF PlaceInv
<1>2. Rooted /\ PagesInv /\ HalvesInv /\ StoreInv /\ pc \in InSplitting
  BY <1>1 DEF PlaceInv, InSplitting
<1>3. ioerr = FALSE /\ ioerr' = FALSE
  BY <1>1, <1>2 DEF StoreInv, InStore
<1>4. dir' = dir \cup {n}
  <2>1. c \in Nat
    BY <1>1, BlockIsNat DEF BufferInv, InStore
  <2>2. c = dirbno => dirbuf = InBlock(dir, c)
    BY <1>1, <1>3, <2>1 DEF DirInv, None
  <2>3. dir' = (dir \ InBlock(dir, c)) \cup bits
    BY <1>1
  <2> HIDE DEF c
  <2> QED BY <2>2, <2>3 DEF InBlock
<1> HIDE DEF c, bits
<1>5. PICK d \in Depths :
           /\ LeafAt(dir, Hash[st.key], d)
           /\ st.blk = Hash[st.key] % 2 ^ d
           /\ High = st.blk + 2 ^ d
           /\ n = BitOf(Hash[st.key], d)
           /\ \A l \in Keys : Home(l) # High
  BY <1>2, Halving
<1>6. \A k \in Keys :
        /\ Home(k) # st.blk => Home(k)' = Home(k)
        /\ Home(k) = st.blk => /\ Home(k)' = Hash[k] % (2 * (st.mask + 1))
                               /\ Home(k)' = st.blk \/ Home(k)' = High
  BY <1>1, <1>2, <1>4, BitHomes
<1> HIDE DEF n
<1>7. st.key \in Keys /\ Hash[st.key] \in Nat /\ pagbuf \in Seq(Pair) /\ st.ovf \in Seq(Pair)
      /\ st.blk \in Nat /\ st.blk \in Blocks
  <2>1. st.key \in Keys /\ pagbuf \in Seq(Pair) /\ st.ovf \in Seq(Pair) /\ st.blk \in Nat /\ st.blk \in Blocks
    BY <1>1, Splitting DEF InStore
  <2> QED BY <2>1, HashType
<1>8. High \in Blocks /\ High \in Nat /\ st.blk # High /\ st.blk < npag
  <2>1. High \in Blocks /\ High < npag /\ npag \in Nat
    BY <1>1 DEF TypeInv, StoreTyped, PagesTyped
  <2>2. 2 ^ d \in Nat /\ 2 ^ d > 0
    BY Powers
  <2> QED BY <1>5, <1>7, <2>1, <2>2
<1>9. pag[st.blk] = pagbuf /\ pag[High] = st.ovf
  <2>1. pagbno = st.blk /\ pc # "split"
    BY <1>1, Splitting DEF InStore
  <2> QED BY <1>1, <1>2, <1>3, <1>7, <1>8, <2>1 DEF BufferInv, HalvesInv
<1>10. /\ Distinct(pagbuf) /\ Distinct(st.ovf)
       /\ \A x \in Pairs(pagbuf) \cup Pairs(st.ovf) : Home(x[1]) = st.blk /\ x[1] # st.key /\ x[1] \in Keys
       /\ \A x \in Pairs(st.ovf) : Hash[x[1]] % (2 * (st.mask + 1)) = High
       /\ \A x \in Pairs(pagbuf) : Hash[x[1]] % (2 * (st.mask + 1)) = st.blk
  <2>1. \A x \in Pairs(pagbuf) \cup Pairs(st.ovf) : x[1] \in Keys
    BY <1>7, PairsType
  <2>2. pc # "split"
    BY <1>1
  <2> QED BY <1>2, <2>1, <2>2 DEF HalvesInv
<1>11. Rooted'
  <2> SUFFICES ASSUME NEW h \in Nat, NEW e \in Depths, e > 0, BitOf(h, e) \in dir'
               PROVE  BitOf(h, e - 1) \in dir'
    BY DEF Rooted
  <2>1. CASE BitOf(h, e) \in dir
    BY <1>2, <1>4, <2>1 DEF Rooted
  <2>2. CASE BitOf(h, e) = n
    <3>1. e = d /\ h % 2 ^ e = Hash[st.key] % 2 ^ d
      BY <1>5, <1>7, <2>2, SameBit
    <3>2. e - 1 \in Depths /\ e - 1 <= e /\ e - 1 < e
      BY Deepest DEF Depths
    <3>3. h % 2 ^ (e - 1) = Hash[st.key] % 2 ^ (e - 1)
      BY <1>7, <3>1, <3>2, SamePageUp
    <3>4. BitOf(Hash[st.key], e - 1) \in dir
      BY <1>5, <3>1, <3>2 DEF LeafAt
    <3> QED BY <1>4, <3>3, <3>4 DEF BitOf
  <2> QED BY <1>4, <2>1, <2>2
<1>12. PageRight(st.blk)' /\ PageRight(High)'
  <2>1. \A x \in Pairs(pag[st.blk]) : Home(x[1])' = st.blk
    BY <1>6, <1>9, <1>10
  <2>2. \A x \in Pairs(pag[High]) : Home(x[1])' = High
    BY <1>6, <1>9, <1>10
  <2>3. UNCHANGED <<pag, st>> /\ High' = High
    BY <1>1 DEF High
  <2> QED BY <1>9, <1>10, <2>1, <2>2, <2>3 DEF PageRight
<1>13. ASSUME NEW b \in Blocks, b # st.blk, PageRight(b) PROVE PageRight(b)'
  <2>1. \A x \in Pairs(pag[b]) : x[1] \in Keys
    BY PairsType DEF TypeInv, PagesTyped
  <2>2. \A x \in Pairs(pag[b]) : Home(x[1])' = b
    BY <1>6, <1>13, <2>1 DEF PageRight
  <2> QED BY <1>1, <1>13, <2>2 DEF PageRight
<1>14. \A k \in Keys : Home(k) \in Blocks
  BY HomeIs
<1>15. ASSUME NEW k \in Keys PROVE Home(k)' \in Blocks /\ PageRight(Home(k))'
  <2>1. CASE Home(k) # st.blk
    <3>1. PageRight(Home(k)) /\ Home(k) \in Blocks /\ Home(k)' = Home(k)
      BY <1>2, <1>6, <1>14, <2>1 DEF PagesInv
    <3>2. \A b \in Blocks : b = Home(k) => PageRight(b)'
      BY <1>13, <2>1, <3>1
    <3> QED BY <3>1, <3>2 DEF PageRight
  <2>2. CASE Home(k) = st.blk
    <3>1. Home(k)' = st.blk \/ Home(k)' = High
      BY <1>6, <2>2
    <3>2. st' = st /\ High' = High
      BY <1>1 DEF High
    <3> QED BY <1>7, <1>8, <1>12, <3>1, <3>2 DEF PageRight
  <2> QED BY <2>1, <2>2
<1>16. PagesInv'
  <2>1. ASSUME crashes' = 0, NEW b \in Blocks PROVE PageRight(b)'
    <3>1. PageRight(b) \/ b = High
      BY <1>1, <1>2, <2>1 DEF PagesInv
    <3>2. st' = st /\ High' = High
      BY <1>1 DEF High
    <3>3. b = st.blk \/ b = High => PageRight(b)'
      BY <1>12, <3>2 DEF PageRight
    <3> QED BY <1>13, <3>1, <3>3
  <2> QED BY <1>15, <2>1 DEF PagesInv
<1>17. HalvesInv'
  BY <1>1 DEF HalvesInv, InSplitting
<1>18. /\ before \in [Keys -> Vals \cup {NoVal}]
       /\ \E e \in Depths : /\ st.leaf = 2 ^ e - 1
                            /\ \A a \in Depths : a < e => BitOf(Hash[st.key], a) \in dir
       /\ \A k \in Keys \ {st.key} : Home(k) # st.blk => Lookup(k) = before[k]
       /\ ~TooBig(st.key, st.val) /\ (st.replace \/ before[st.key] = NoVal)
       /\ \A k \in Keys \ {st.key} : Home(k) = st.blk =>
            \A v \in Vals : before[k] = v <=> <<k, v>> \in Pairs(pagbuf) \cup Pairs(st.ovf)
  BY <1>1, <1>2 DEF StoreInv, InStore
<1>19. ASSUME NEW k \in Keys PROVE Lookup(k)' = Value(pag[Home(k)'], k)
  <2>1. Lookup(k)' = Value(OnDisk(Home(k))', k)
    BY DEF Lookup, Home
  <2>2. OnDisk(Home(k))' = IF Home(k)' < npag THEN pag[Home(k)'] ELSE << >>
    BY <1>1 DEF OnDisk
  <2>3. Home(k)' \in Blocks /\ \A b \in Blocks : b \in Nat
    BY <1>15, Deepest DEF Blocks
  <2>4. npag \in Nat /\ \A b \in Blocks : b >= npag => pag[b] = << >>
    BY DEF TypeInv, PagesTyped, EmptyInv
  <2> DEFINE b == Home(k)'
  <2>5. b \in Blocks /\ b \in Nat /\ OnDisk(Home(k))' = IF b < npag THEN pag[b] ELSE << >>
    BY <2>2, <2>3
  <2> HIDE DEF b
  <2>6. OnDisk(Home(k))' = pag[b]
    BY <2>4, <2>5
  <2> QED BY <2>1, <2>6 DEF b
<1>20. ASSUME NEW k \in Keys \ {st.key} PROVE Lookup(k)' = before[k]
  <2>1. CASE Home(k) # st.blk
    <3>1. Lookup(k) = Value(pag[Home(k)], k)
      BY LookupHome
    <3> QED BY <1>6, <1>18, <1>19, <2>1, <3>1
  <2>2. CASE Home(k) = st.blk
    <3> DEFINE q == pag[Home(k)']
    <3>1. /\ q = pagbuf \/ q = st.ovf
          /\ \A v \in Vals : <<k, v>> \in Pairs(q) <=> <<k, v>> \in Pairs(pagbuf) \cup Pairs(st.ovf)
      <4>1. \A v \in Vals : /\ <<k, v>> \in Pairs(st.ovf) => Hash[k] % (2 * (st.mask + 1)) = High
                            /\ <<k, v>> \in Pairs(pagbuf) => Hash[k] % (2 * (st.mask + 1)) = st.blk
        <5> SUFFICES ASSUME NEW v \in Vals
                     PROVE  /\ <<k, v>> \in Pairs(st.ovf) => Hash[k] % (2 * (st.mask + 1)) = High
                            /\ <<k, v>> \in Pairs(pagbuf) => Hash[k] % (2 * (st.mask + 1)) = st.blk
          OBVIOUS
        <5>1. <<k, v>>[1] = k
          OBVIOUS
        <5> QED BY <1>10, <5>1
      <4>2. CASE Home(k)' = st.blk
        <5>1. q = pagbuf /\ Hash[k] % (2 * (st.mask + 1)) = st.blk
          BY <1>6, <1>9, <2>2, <4>2
        <5> QED BY <1>8, <4>1, <5>1
      <4>3. CASE Home(k)' = High
        <5>1. q = st.ovf /\ Hash[k] % (2 * (st.mask + 1)) = High
          BY <1>6, <1>9, <2>2, <4>3
        <5> QED BY <1>8, <4>1, <5>1
      <4> QED BY <1>6, <2>2, <4>2, <4>3
    <3> HIDE DEF q
    <3>2. q \in Seq(Pair) /\ Distinct(q)
      BY <1>7, <1>10, <3>1
    <3>3. \A v \in Vals : Value(q, k) = v <=> before[k] = v
      BY <1>18, <2>2, <3>1, <3>2, ValueFound
    <3>4. Value(q, k) \in Vals \cup {NoVal} /\ before[k] \in Vals \cup {NoVal}
      BY <1>18, <3>2, ValueFound
    <3>5. Value(q, k) = before[k]
      BY <3>3, <3>4
    <3> QED BY <1>19, <3>5 DEF q
  <2> QED BY <2>1, <2>2
<1>21. ASSUME NEW k \in Keys, k = st.key PROVE Lookup(k)' = NoVal
  <2>1. Home(k) = st.blk
    BY <1>2, <1>21 DEF HalvesInv
  <2> DEFINE q == pag[Home(k)']
  <2>2. q = pagbuf \/ q = st.ovf
    BY <1>6, <1>9, <2>1
  <2> HIDE DEF q
  <2>3. ~Has(q, k)
    BY <1>10, <1>21, <2>2, HasPair
  <2>4. Value(q, k) = NoVal
    BY <2>3 DEF Value
  <2> QED BY <1>19, <2>4 DEF q
<1>22. StoreInv'
  <2>1. ioerr' = FALSE /\ before' \in [Keys -> Vals \cup {NoVal}]
    BY <1>1, <1>3, <1>18
  <2>2. \E e \in Depths : /\ st'.leaf = 2 ^ e - 1
                          /\ \A a \in Depths : a < e => BitOf(Hash[st'.key], a) \in dir'
    BY <1>1, <1>4, <1>18
  <2>3. \A k \in Keys \ {st'.key} : Lookup(k)' = before'[k]
    BY <1>1, <1>20
  <2>4. \/ Lookup(st.key)' = before'[st'.key]
        \/ /\ Lookup(st.key)' = NoVal
           /\ st'.replace /\ ~TooBig(st'.key, st'.val)
    <3>1. st'.key = st.key /\ st' = st /\ before' = before
      BY <1>1
    <3>2. Lookup(st.key)' = NoVal
      <4>1. \A k \in Keys : k = st.key => Lookup(k)' = NoVal
        BY <1>21
      <4>2. \A k : k = st'.key => Lookup(st.key)' = Lookup(k)'
        BY DEF Lookup
      <4> QED BY <1>7, <3>1, <4>1, <4>2
    <3> QED BY <1>18, <3>1, <3>2
  <2>5. pc' = "access"
    BY <1>1
  <2> QED BY <2>1, <2>2, <2>3, <2>4, <2>5 DEF StoreInv
<1> QED BY <1>11, <1>16, <1>17, <1>22

LEMMA NextPlace ==
  ASSUME BufferInv, DirInv, TypeInv, TypeInv', EmptyInv, Counted, PlaceInv, [Next]_vars
  PROVE  PlaceInv'
<1>1. (faults' = 0 => faults = 0) /\ (crashes' = 0 => crashes = 0) /\ crashes \in Nat
  BY NextCounted DEF Counted
<1>2. CASE (\E ro \in Modes : Open(ro)) \/ Close \/ Crash
  <2>1. /\ UNCHANGED <<pag, dir>> /\ pc' \notin InStore
        /\ pc \notin {"high", "bit"} \/ crashes' = crashes + 1
    BY <1>2 DEF Open, Close, Crash, Forget, file, InStore
  <2>2. crashes' = crashes + 1 => crashes' # 0
    BY <1>1
  <2> QED BY <1>1, <2>1, <2>2, FramePlace
<1>3. CASE \/ \E k \in Keys : Fetch(k)
           \/ Refused \/ RefusedWrite \/ FirstKey \/ NextKey \/ NextKeyStep
  <2>1. UNCHANGED <<pag, dir>> /\ pc' \notin InStore /\ pc \notin {"high", "bit"}
    BY <1>3 DEF Fetch, Refused, RefusedWrite, FirstKey, NextKey, NextKeyStep, Ready, Return, file, InStore
  <2> QED BY <1>1, <2>1, FramePlace
<1>4. CASE UNCHANGED vars
  <2>1. UNCHANGED <<pag, npag, dir, pagbuf, ioerr, pc, st, faults, crashes, before>>
    BY <1>4 DEF vars, file, pagebuffer, bounds
  <2>2. \A l : Home(l)' = Home(l) /\ OnDiskMask(l)' = OnDiskMask(l) /\ Lookup(l)' = Lookup(l)
    BY <2>1, SameLookups
  <2>3. High' = High /\ Home(st.key)' = Home(st.key) /\ OnDiskMask(st.key)' = OnDiskMask(st.key)
        /\ Lookup(st.key)' = Lookup(st.key)
    BY <2>1 DEF High, Home, OnDiskMask, Lookup, OnDisk
  <2>4. Rooted => Rooted'
    BY <2>1 DEF Rooted
  <2>5. PagesInv => PagesInv'
    BY <2>1, <2>2, <2>3 DEF PagesInv, PageRight
  <2>6. HalvesInv => HalvesInv'
    BY <2>1, <2>2, <2>3 DEF HalvesInv
  <2>7. StoreInv => StoreInv'
    BY <2>1, <2>2, <2>3 DEF StoreInv
  <2> QED BY <2>1, <2>4, <2>5, <2>6, <2>7 DEF PlaceInv
<1>5. CASE \E k \in Keys : Delete(k)
  BY <1>5, DeletePlace
<1>6. CASE \E k \in Keys, v \in Vals, r \in BOOLEAN : Store(k, v, r)
  BY <1>6, StorePlace
<1>7. CASE StoreAccess \/ SplitItem \/ SplitLow \/ SplitHigh \/ SplitBit
  BY <1>7, AccessPlace, ItemPlace, LowPlace, HighPlace, BitPlace
<1> QED BY <1>2, <1>3, <1>4, <1>5, <1>6, <1>7 DEF Next

\* The two halves of a page being split always fit; and where no write failed and
\* no split was stopped, every pair lies on the page that the hash of its key
\* leads to, and no key has two (dbm_store in ndbm.c).
THEOREM PairsStay ==
  ASSUME NoEmptyScan
  PROVE  Spec => []HalvesFit /\ [](faults = 0 /\ crashes = 0 => PairsInPlace)
<1>1. TypeInv /\ RoomInv => HalvesFit
  <2> SUFFICES ASSUME TypeInv, RoomInv PROVE HalvesFit
    OBVIOUS
  <2>1. pagbno = None => pagbuf \in {<< >>, Junk}
    BY NoBlock, Deepest DEF TypeInv, BufferTyped, Blocks, None
  <2> QED BY <2>1, RoomEmpty DEF RoomInv, HalvesFit
<1>2. TypeInv /\ RoomInv /\ PlaceInv => (faults = 0 /\ crashes = 0 => PairsInPlace)
  <2> SUFFICES ASSUME TypeInv, RoomInv, PlaceInv, faults = 0, crashes = 0, pc \in {"closed", "idle"},
                      NEW b \in 0 .. npag - 1, NEW i \in DOMAIN pag[b]
               PROVE  /\ Blk(pag[b][i][1], OnDiskMask(pag[b][i][1])) = b
                      /\ \A j \in 1 .. i - 1 : pag[b][j][1] # pag[b][i][1]
    BY <1>1 DEF PairsInPlace
  <2>1. b \in Blocks
    BY Deepest DEF TypeInv, PagesTyped, Blocks
  <2>2. PageRight(b)
    BY <2>1 DEF PlaceInv, PagesInv
  <2>3. pag[b] \in Seq(Pair)
    BY <2>1 DEF TypeInv, PagesTyped
  <2>4. pag[b][i] \in Pairs(pag[b])
    BY DEF Pairs
  <2>5. \A j \in 1 .. i - 1 : j \in DOMAIN pag[b] /\ j # i
    BY <2>3
  <2> QED BY <2>2, <2>4, <2>5 DEF PageRight, Distinct, Home
<1> QED BY <1>1, <1>2, InitBuffer, NextBuffer, InitDir, NextDir, InitTypes, NextTypes, InitRoom, NextRoom,
           InitEmpty, NextEmpty, InitCounted, NextCounted, InitPlace, NextPlace, PTL DEF Spec

-----------------------------------------------------------------------------
(***************************************************************************)
(* The data base as a map.                                                 *)
(***************************************************************************)

\* The write of a key's page changes what is found of the pairs that changed.
LEMMA WriteKey ==
  ASSUME TypeInv, EmptyInv, PagesInv, NEW k \in Keys, NEW p \in Seq(Pair), Distinct(p),
         WritePage(Home(k), p),
         \A x \in Pair : x[1] # k => (x \in Pairs(p) <=> x \in Pairs(pag[Home(k)]))
  PROVE  \A l \in Keys : Lookup(l)' = IF l = k THEN Value(p, k) ELSE Lookup(l)
<1> SUFFICES ASSUME NEW l \in Keys
             PROVE  Lookup(l)' = IF l = k THEN Value(p, k) ELSE Lookup(l)
  OBVIOUS
<1>1. Home(k) \in Blocks /\ dir' = dir
  BY HomeIs DEF WritePage
<1>2. CASE Home(l) # Home(k)
  <2>1. Lookup(l)' = Lookup(l)
    BY <1>1, <1>2, WriteLookup
  <2> QED BY <1>2, <2>1
<1>3. CASE Home(l) = Home(k)
  <2>1. Home(l)' = Home(k)
    BY <1>1, <1>3, SameHomes
  <2>2. \A c \in Blocks : OnDisk(c)' = IF c = Home(k) THEN p ELSE OnDisk(c)
    BY <1>1, WriteOnDisk
  <2>3. OnDisk(Home(l))' = p
    <3>1. \A c \in Blocks :
            (IF c < npag' THEN pag'[c] ELSE << >>) = IF c = Home(k) THEN p ELSE OnDisk(c)
      BY <2>2 DEF OnDisk
    <3>2. OnDisk(Home(l))' = IF Home(l)' < npag' THEN pag'[Home(l)'] ELSE << >>
      BY DEF OnDisk
    <3> QED BY <1>1, <2>1, <3>1, <3>2
  <2>4. Lookup(l)' = Value(p, l)
    BY <2>3 DEF Lookup, Home
  <2>5. CASE l # k
    <3> DEFINE q == pag[Home(k)]
    <3>1. Lookup(l) = Value(q, l) /\ q \in Seq(Pair)
      BY <1>3, LookupHome
    <3>2. Distinct(q)
      BY DEF PagesInv, PageRight
    <3> HIDE DEF q
    <3>3. \A v \in Vals : <<l, v>> \in Pairs(p) <=> <<l, v>> \in Pairs(q)
      <4> SUFFICES ASSUME NEW v \in Vals PROVE <<l, v>> \in Pairs(p) <=> <<l, v>> \in Pairs(q)
        OBVIOUS
      <4>1. <<l, v>> \in Pair /\ <<l, v>>[1] # k
        BY <2>5 DEF Pair
      <4> QED BY <4>1 DEF q
    <3>4. Value(p, l) = Value(q, l)
      BY <3>1, <3>2, <3>3, SameValue
    <3> QED BY <2>4, <2>5, <3>1, <3>4
  <2>6. CASE l = k
    BY <2>4, <2>6
  <2> QED BY <2>5, <2>6
<1> QED BY <1>2, <1>3

\* A pair that fits is not too big.
LEMMA FitsSmall ==
  ASSUME NEW p \in Seq(Pair), NEW k \in Keys, NEW v \in Vals, Room(Append(p, <<k, v>>))
  PROVE  ~TooBig(k, v)
<1>1. <<k, v>> \in Pair
  BY DEF Pair
<1> DEFINE more == Append(p, <<k, v>>)
           s == Size[<<k, v>>]
<1>2. Bytes(more) = Bytes(p) + s + 4 /\ Bytes(p) \in Nat /\ s \in Nat
  BY <1>1, BytesAppend, BytesType, SizeType
<1>3. Bytes(more) + 2 < PBLKSIZ /\ PBLKSIZ \in Nat
  BY NdbmAssumption DEF Room, NdbmAssumption
<1> HIDE DEF more, s
<1>4. ~(s + 6 >= PBLKSIZ)
  BY <1>2, <1>3
<1> QED BY <1>4 DEF TooBig, s

\* What one access of a store does, no write failing.
LEMMA Accessed ==
  ASSUME BufferInv, DirInv, TypeInv, EmptyInv, Counted, PlaceInv, [Next]_vars, StoreAccess,
         faults = 0, faults' = 0
  PROVE  /\ pc = "access" /\ rdonly' = rdonly /\ rdonly = FALSE /\ ioerr = FALSE
         /\ st.key \in Keys /\ st.val \in Vals
         /\ \/ /\ pc' = "idle" /\ ret' = "exists" /\ ioerr' = ioerr
               /\ UNCHANGED <<pag, npag, dir>> /\ Lookup(st.key) # NoVal /\ ~st.replace
            \/ /\ pc' = "idle" /\ ret' = "ok" /\ ioerr' = ioerr
               /\ Lookup(st.key) = NoVal \/ st.replace
               /\ ~TooBig(st.key, st.val)
               /\ \A l \in Keys : Lookup(l)' = IF l = st.key THEN st.val ELSE Lookup(l)
            \/ /\ pc' = "idle" /\ ret' = "fail" /\ ioerr' = TRUE /\ UNCHANGED <<pag, npag, dir>>
               /\ Lookup(st.key) = NoVal \/ st.replace
               /\ TooBig(st.key, st.val)
            \/ pc' = "split" /\ ioerr' = ioerr /\ before' = before
<1> DEFINE k == st.key
           v == st.val
           m == LeafMask(st.key)
           b == Blk(st.key, m)
           p == Loaded(b)
           rest == IF Has(p, st.key) THEN Without(p, Place(p, st.key)) ELSE p
           more == Append(rest, <<st.key, st.val>>)
           s == [st EXCEPT !.mask = m, !.blk = b, !.i = 1, !.ovf = << >>]
<1>1. /\ pc = "access" /\ WithinBound(k) /\ rdonly' = rdonly
      /\ \/ /\ pc' = "idle" /\ ret' = "exists" /\ UNCHANGED <<pag, npag, dir, ioerr>>
            /\ Has(p, k) /\ ~st.replace
         \/ /\ pc' = "idle" /\ ret' = "ok" /\ ioerr' = ioerr
            /\ (Has(p, k) => st.replace) /\ Room(more) /\ WritePage(b, more)
         \/ faults' = faults + 1
         \/ /\ pc' = "idle" /\ ret' = "fail" /\ ioerr' = TRUE /\ UNCHANGED <<pag, npag, dir>>
            /\ (Has(p, k) => st.replace) /\ TooBig(k, v)
         \/ pc' = "split" /\ UNCHANGED <<ioerr, before>> /\ st' = s
  BY DEF StoreAccess, StoreDone, Return, WriteWorks, WriteFails, file, Fits
<1>2. faults' # faults + 1
  OBVIOUS
<1>3. PagesInv /\ StoreInv
  BY DEF PlaceInv
<1>4. /\ k \in Keys /\ v \in Vals /\ <<k, v>> \in Pair /\ ioerr = FALSE /\ rdonly = FALSE
  BY <1>1, <1>3 DEF TypeInv, StoreTyped, InStore, Pair, StoreInv
<1>5. b = Home(k) /\ b \in Blocks /\ p = pag[b] /\ p \in Seq(Pair)
  BY <1>1, <1>4, LoadedHome
<1>6. PageRight(b)
  BY <1>3, <1>4, <1>5 DEF PagesInv
<1> HIDE DEF b, p, m, k, v, s
<1>8. rest \in Seq(Pair) /\ Distinct(rest) /\ Pairs(rest) = {x \in Pairs(p) : x[1] # k} /\ ~Has(rest, k)
  BY <1>5, <1>6, RestPairs DEF k, PageRight
<1> HIDE DEF rest
<1>9. more \in Seq(Pair) /\ Distinct(more) /\ Pairs(more) = Pairs(rest) \cup {<<k, v>>}
  BY <1>4, <1>8, AppendPairs DEF k, v
<1>10. Lookup(k) = NoVal <=> ~Has(p, k)
  BY <1>4, <1>5, <1>6, LookupValue
<1>11. Room(more) => ~TooBig(k, v)
  BY <1>4, <1>8, FitsSmall DEF k, v
<1> HIDE DEF more
<1>12. WritePage(b, more) => \A l \in Keys : Lookup(l)' = IF l = k THEN v ELSE Lookup(l)
  <2> HAVE WritePage(b, more)
  <2>1. \A x \in Pair : x[1] # k => (x \in Pairs(more) <=> x \in Pairs(pag[Home(k)]))
    BY <1>5, <1>8, <1>9
  <2>2. \A l \in Keys : Lookup(l)' = IF l = k THEN Value(more, k) ELSE Lookup(l)
    BY <1>3, <1>4, <1>5, <1>9, <2>1, WriteKey
  <2>3. Value(more, k) = v
    BY <1>4, <1>9, ValueFound
  <2> QED BY <2>2, <2>3
<1> QED BY <1>1, <1>2, <1>4, <1>10, <1>11, <1>12 DEF k, v

\* What the calls return is none of the keys that a scan returns.
ResultsApart == \A r \in Vals \cup {NoVal, "ok", "fail", "exists"} : r \notin Keys \cup {"end"}

MapBar == IF pc \in {"closed", "idle", "next"} THEN Lookups ELSE before
RetBar == IF pc # "idle" \/ ret \in Keys \cup {"end"} THEN "none" ELSE ret

\* A step that returns nothing and leaves the map alone.
LEMMA OtherStep ==
  ASSUME MapBar' = MapBar, RetBar' = "none", ioerr' \in {ioerr, FALSE}, rdonly' \in BOOLEAN
  PROVE  Map!Next
BY DEF MapBar, RetBar, Map!Next, Map!Other

\* What the calls return is what the map's operations return.
LEMMA RetIs ==
  ASSUME ResultsApart, pc' = "idle", NEW r \in Vals \cup {NoVal, "ok", "fail", "exists"}, ret' = r
  PROVE  RetBar' = r
BY DEF ResultsApart, RetBar

LEMMA LookupsSame ==
  ASSUME UNCHANGED <<pag, npag, dir>>
  PROVE  Lookups' = Lookups
<1>1. \A k \in Keys : Lookup(k)' = Lookup(k)
  BY SameLookups
<1> QED BY <1>1 DEF Lookups

LEMMA MapBarIs ==
  /\ pc \in {"closed", "idle", "next"} => MapBar = Lookups
  /\ pc \in InStore => MapBar = before
BY DEF MapBar, InStore

LEMMA MapBarNow ==
  /\ pc' \in {"closed", "idle", "next"} => MapBar' = Lookups'
  /\ pc' \in InStore => MapBar' = before'
BY DEF MapBar, InStore

LEMMA FetchMaps ==
  ASSUME ResultsApart, BufferInv, DirInv, TypeInv, EmptyInv, PlaceInv, faults = 0,
         NEW k \in Keys, Fetch(k)
  PROVE  Map!Next
<1> DEFINE b == Blk(k, LeafMask(k))
<1>1. /\ pc = "idle" /\ ~ioerr /\ WithinBound(k) /\ pc' = "idle" /\ ret' = Value(Loaded(b), k)
      /\ UNCHANGED <<pag, npag, dir, ioerr, rdonly>>
  BY DEF Fetch, Ready, Return, file
<1>2. b = Home(k) /\ Loaded(b) = pag[Home(k)]
  BY <1>1, LoadedHome
<1>3. ret' = Lookup(k)
  BY <1>1, <1>2, LookupHome
<1>4. PageRight(Home(k))
  BY DEF PlaceInv, PagesInv
<1>5. Lookup(k) \in Vals \cup {NoVal}
  BY <1>4, LookupValue
<1>6. RetBar' = Lookup(k)
  BY <1>1, <1>3, <1>5, RetIs
<1>7. MapBar = Lookups /\ MapBar' = Lookups
  BY <1>1, LookupsSame, MapBarIs, MapBarNow
<1>8. RetBar' = MapBar[k] /\ MapBar' = MapBar
  BY <1>6, <1>7 DEF Lookups
<1>9. Map!Fetch(k)
  BY <1>1, <1>8 DEF Map!Fetch, Map!Keep, MapBar, RetBar
<1> QED BY <1>9 DEF Map!Next

LEMMA DeleteMaps ==
  ASSUME ResultsApart, BufferInv, DirInv, TypeInv, EmptyInv, PlaceInv, Counted, [Next]_vars,
         faults = 0, faults' = 0, NEW k \in Keys, Delete(k)
  PROVE  Map!Next
<1> DEFINE b == Blk(k, LeafMask(k))
           p == Loaded(b)
           rest == Without(p, Place(p, k))
<1>1. /\ pc = "idle" /\ ~ioerr /\ ~rdonly /\ WithinBound(k) /\ pc' = "idle" /\ rdonly' = rdonly
      /\ \/ ~Has(p, k) /\ ret' = "fail" /\ UNCHANGED <<pag, npag, dir, ioerr>>
         \/ Has(p, k) /\ ret' = "ok" /\ WritePage(b, rest) /\ ioerr' = ioerr
  <2>1. faults' # faults + 1
    OBVIOUS
  <2> QED BY <2>1 DEF Delete, Ready, Return, WriteWorks, WriteFails, file
<1>2. b = Home(k) /\ p = pag[Home(k)] /\ Home(k) \in Blocks /\ p \in Seq(Pair)
  BY <1>1, LoadedHome
<1>3. PagesInv /\ PageRight(Home(k)) /\ Distinct(p)
  BY <1>2 DEF PlaceInv, PagesInv, PageRight
<1>4. Lookup(k) = NoVal <=> ~Has(p, k)
  BY <1>2, <1>3, LookupValue
<1> HIDE DEF b, p
<1>5. MapBar = Lookups /\ MapBar' = Lookups'
  BY <1>1, MapBarIs, MapBarNow
<1>6. Lookups' = [Lookups EXCEPT ![k] = NoVal]
  <2>1. CASE ~Has(p, k) /\ UNCHANGED <<pag, npag, dir>>
    <3>1. Lookups' = Lookups
      BY <2>1, LookupsSame
    <3>2. Lookups[k] = NoVal /\ Lookups = [l \in Keys |-> Lookups[l]]
      BY <1>4, <2>1 DEF Lookups
    <3> QED BY <3>1, <3>2
  <2>2. CASE Has(p, k) /\ WritePage(b, rest)
    <3>1. /\ rest \in Seq(Pair) /\ Distinct(rest) /\ ~Has(rest, k)
          /\ Pairs(rest) = {x \in Pairs(p) : x[1] # k}
      BY <1>2, <1>3, <2>2, RestPairs
    <3> HIDE DEF rest
    <3>2. \A x \in Pair : x[1] # k => (x \in Pairs(rest) <=> x \in Pairs(pag[Home(k)]))
      BY <1>2, <3>1
    <3>3. \A l \in Keys : Lookup(l)' = IF l = k THEN Value(rest, k) ELSE Lookup(l)
      BY <1>2, <1>3, <2>2, <3>1, <3>2, WriteKey
    <3>4. Value(rest, k) = NoVal
      BY <3>1 DEF Value
    <3> QED BY <3>3, <3>4 DEF Lookups
  <2> QED BY <1>1, <2>1, <2>2
<1>7. RetBar' = IF Lookups[k] = NoVal THEN "fail" ELSE "ok"
  <2>1. Lookups[k] = NoVal <=> ~Has(p, k)
    BY <1>4 DEF Lookups
  <2>2. ret' = IF Lookups[k] = NoVal THEN "fail" ELSE "ok"
    BY <1>1, <2>1
  <2> QED BY <1>1, <2>2, RetIs
<1>8. ioerr' = ioerr
  BY <1>1
<1>9. Map!Delete(k)
  BY <1>1, <1>5, <1>6, <1>7, <1>8 DEF Map!Delete, MapBar, RetBar
<1> QED BY <1>9 DEF Map!Next

LEMMA AccessMaps ==
  ASSUME ResultsApart, BufferInv, DirInv, TypeInv, EmptyInv, PlaceInv, Counted, [Next]_vars,
         faults = 0, faults' = 0, StoreAccess
  PROVE  Map!Next
<1> DEFINE k == st.key
           v == st.val
<1>1. /\ pc = "access" /\ rdonly' = rdonly /\ rdonly = FALSE /\ ioerr = FALSE
      /\ k \in Keys /\ v \in Vals
      /\ \/ /\ pc' = "idle" /\ ret' = "exists" /\ ioerr' = ioerr
            /\ UNCHANGED <<pag, npag, dir>> /\ Lookup(k) # NoVal /\ ~st.replace
         \/ /\ pc' = "idle" /\ ret' = "ok" /\ ioerr' = ioerr
            /\ Lookup(k) = NoVal \/ st.replace
            /\ ~TooBig(k, v)
            /\ \A l \in Keys : Lookup(l)' = IF l = k THEN v ELSE Lookup(l)
         \/ /\ pc' = "idle" /\ ret' = "fail" /\ ioerr' = TRUE /\ UNCHANGED <<pag, npag, dir>>
            /\ Lookup(k) = NoVal \/ st.replace
            /\ TooBig(k, v)
         \/ pc' = "split" /\ ioerr' = ioerr /\ before' = before
  BY Accessed
<1>2. /\ before \in [Keys -> Vals \cup {NoVal}]
      /\ \A l \in Keys \ {k} : Lookup(l) = before[l]
      /\ \/ Lookup(k) = before[k]
         \/ Lookup(k) = NoVal /\ st.replace /\ ~TooBig(k, v)
  BY <1>1 DEF PlaceInv, StoreInv, InStore
<1>3. MapBar = before
  BY <1>1, MapBarIs DEF InStore
<1> HIDE DEF k, v
<1>4. Lookup(k) = before[k] => Lookups = before
  <2> HAVE Lookup(k) = before[k]
  <2>1. \A l \in Keys : Lookup(l) = before[l]
    BY <1>2
  <2> QED BY <1>2, <2>1 DEF Lookups
<1>5. CASE /\ pc' = "idle" /\ ret' = "exists" /\ ioerr' = ioerr
           /\ UNCHANGED <<pag, npag, dir>> /\ Lookup(k) # NoVal /\ ~st.replace
  <2>1. Lookups = before
    BY <1>2, <1>4, <1>5
  <2>2. MapBar' = MapBar
    BY <1>3, <1>5, <2>1, LookupsSame, MapBarNow
  <2>3. RetBar' = "exists"
    BY <1>5, RetIs
  <2>4. MapBar[k] # NoVal
    BY <1>1, <1>3, <1>5, <2>1 DEF Lookups
  <2>5. Map!Insert(k, v)
    BY <1>1, <1>5, <2>2, <2>3, <2>4 DEF Map!Insert, Map!Keep, MapBar, RetBar
  <2> QED BY <1>1, <2>5 DEF Map!Next
<1>6. CASE /\ pc' = "idle" /\ ret' = "ok" /\ ioerr' = ioerr
           /\ Lookup(k) = NoVal \/ st.replace
           /\ ~TooBig(k, v)
           /\ \A l \in Keys : Lookup(l)' = IF l = k THEN v ELSE Lookup(l)
  <2>1. Lookups' = [before EXCEPT ![k] = v]
    <3>1. \A l \in Keys : Lookup(l)' = IF l = k THEN v ELSE before[l]
      BY <1>2, <1>6
    <3> QED BY <1>2, <3>1 DEF Lookups
  <2>2. MapBar' = [MapBar EXCEPT ![k] = v]
    BY <1>3, <1>6, <2>1, MapBarNow
  <2>3. RetBar' = "ok"
    BY <1>6, RetIs
  <2>4. Map!Set(k, v)
    BY <1>1, <1>6, <2>2, <2>3 DEF Map!Set, MapBar, RetBar
  <2>5. st.replace \/ MapBar[k] = NoVal
    BY <1>2, <1>3, <1>6
  <2>6. Map!Insert(k, v) \/ Map!Replace(k, v)
    BY <1>1, <1>6, <2>4, <2>5 DEF Map!Insert, Map!Replace, MapBar
  <2> QED BY <1>1, <2>6 DEF Map!Next
<1>7. CASE /\ pc' = "idle" /\ ret' = "fail" /\ ioerr' = TRUE /\ UNCHANGED <<pag, npag, dir>>
           /\ Lookup(k) = NoVal \/ st.replace
           /\ TooBig(k, v)
  <2>1. Lookups = before
    BY <1>2, <1>4, <1>7
  <2>2. MapBar' = MapBar
    BY <1>3, <1>7, <2>1, LookupsSame, MapBarNow
  <2>3. RetBar' = "fail"
    BY <1>7, RetIs
  <2>4. Map!Refuse
    BY <1>1, <1>7, <2>2, <2>3 DEF Map!Refuse, MapBar, RetBar
  <2>5. st.replace \/ MapBar[k] = NoVal
    BY <1>1, <1>3, <1>7, <2>1 DEF Lookups
  <2>6. Map!Insert(k, v) \/ Map!Replace(k, v)
    BY <1>1, <1>7, <2>4, <2>5 DEF Map!Insert, Map!Replace, MapBar
  <2> QED BY <1>1, <2>6 DEF Map!Next
<1>8. CASE pc' = "split" /\ ioerr' = ioerr /\ before' = before
  <2>1. MapBar' = MapBar
    BY <1>3, <1>8, MapBarNow DEF InStore
  <2>2. RetBar' = "none"
    BY <1>8 DEF RetBar
  <2> QED BY <1>1, <1>8, <2>1, <2>2, OtherStep
<1> QED BY <1>1, <1>5, <1>6, <1>7, <1>8

LEMMA NextMaps ==
  ASSUME ResultsApart, NoEmptyScan, BufferInv, DirInv, TypeInv, TypeInv', EmptyInv, PlaceInv, Counted,
         faults = 0, faults' = 0, crashes = 0, crashes' = 0, [Next]_vars
  PROVE  [Map!Next]_(Map!vars)
<1> USE DEF InStore
<1>1. ioerr \in BOOLEAN /\ rdonly \in BOOLEAN /\ ioerr' \in BOOLEAN /\ rdonly' \in BOOLEAN
  BY DEF TypeInv, FlagsTyped
<1>2. crashes' # crashes + 1 /\ faults' # faults + 1
  OBVIOUS
<1>3. CASE (\E ro \in Modes : Open(ro)) \/ Close
  <2>1. /\ pc \in {"closed", "idle"} /\ pc' \in {"closed", "idle"} /\ ret' = "none" /\ ioerr' = FALSE
        /\ UNCHANGED <<pag, npag, dir>>
    BY <1>3 DEF Open, Close, Forget, file
  <2>2. MapBar' = MapBar
    BY <2>1, LookupsSame, MapBarIs, MapBarNow
  <2>3. RetBar' = "none"
    BY <2>1 DEF RetBar
  <2> QED BY <1>1, <2>1, <2>2, <2>3, OtherStep
<1>4. CASE FirstKey \/ NextKey
  <2>1. pc = "idle" /\ pc' = "next" /\ UNCHANGED <<pag, npag, dir, ioerr>>
    BY <1>4 DEF FirstKey, NextKey, Ready, file
  <2>2. MapBar' = MapBar
    BY <2>1, LookupsSame, MapBarIs, MapBarNow
  <2>3. RetBar' = "none"
    BY <2>1 DEF RetBar
  <2> QED BY <1>1, <2>1, <2>2, <2>3, OtherStep
<1>5. CASE NextKeyStep
  <2> DEFINE p == IF blkptr # pagbno THEN OnDisk(blkptr) ELSE pagbuf
  <2>1. /\ pc = "next" /\ UNCHANGED <<pag, npag, dir, ioerr>>
        /\ \/ pc' = "idle" /\ ret' = "end"
           \/ /\ pc' = "idle" /\ keyptr < Len(p) /\ ret' = p[keyptr + 1][1]
              /\ ~(blkptr # pagbno /\ blkptr >= npag)
           \/ pc' = "next"
    BY <1>5 DEF NextKeyStep, Return, file
  <2>2. MapBar' = MapBar
    BY <2>1, LookupsSame, MapBarIs, MapBarNow
  <2>3. ASSUME keyptr < Len(p), ~(blkptr # pagbno /\ blkptr >= npag) PROVE p[keyptr + 1][1] \in Keys
    <3>1. /\ keyptr \in Nat /\ blkptr \in 0 .. 2 ^ MaxDepth /\ npag \in 0 .. 2 ^ MaxDepth
          /\ blkptr = pagbno => blkptr < npag
      BY <2>1 DEF TypeInv, ScanTyped, PagesTyped
    <3>2. blkptr \in Blocks /\ blkptr # None
      BY <2>3, <3>1, Deepest DEF Blocks, None
    <3>3. OnDisk(blkptr) \in Seq(Pair)
      BY <3>2, EmptyPage DEF OnDisk, TypeInv, PagesTyped
    <3>4. p \in Seq(Pair)
      BY <3>2, <3>3 DEF TypeInv, BufferTyped
    <3> HIDE DEF p
    <3>5. keyptr + 1 \in 1 .. Len(p)
      BY <2>3, <3>1, <3>4
    <3>6. p[keyptr + 1] \in Pair
      BY <3>4, <3>5
    <3> QED BY <3>6 DEF Pair
  <2> HIDE DEF p
  <2>4. RetBar' = "none"
    BY <2>1, <2>3 DEF RetBar
  <2> QED BY <1>1, <2>1, <2>2, <2>4, OtherStep
<1>6. CASE SplitItem \/ SplitLow \/ SplitHigh \/ SplitBit
  <2>1. /\ pc \in InStore /\ pc' \in InStore /\ UNCHANGED <<ioerr, before>>
    BY <1>2, <1>6 DEF SplitItem, SplitLow, SplitHigh, SplitBit, WriteWorks, WriteFails
  <2>2. MapBar' = MapBar
    BY <2>1, MapBarIs, MapBarNow
  <2>3. RetBar' = "none"
    BY <2>1 DEF RetBar
  <2> QED BY <1>1, <2>1, <2>2, <2>3, OtherStep
<1>7. CASE \E k \in Keys, v \in Vals, r \in BOOLEAN : Store(k, v, r)
  <2>1. pc = "idle" /\ pc' = "access" /\ before' = Lookups /\ UNCHANGED ioerr
    BY <1>7 DEF Store, Ready
  <2>2. MapBar' = MapBar
    BY <2>1, MapBarIs, MapBarNow
  <2>3. RetBar' = "none"
    BY <2>1 DEF RetBar
  <2> QED BY <1>1, <2>1, <2>2, <2>3, OtherStep
<1>8. CASE Refused
  <2>1. /\ pc = "idle" /\ pc' = "idle" /\ ret' = "fail" /\ ioerr
        /\ UNCHANGED <<pag, npag, dir, ioerr, rdonly>>
    BY <1>8 DEF Refused, Return, file
  <2>2. MapBar' = MapBar
    BY <2>1, LookupsSame, MapBarIs, MapBarNow
  <2>3. RetBar' = "fail"
    BY <2>1, RetIs
  <2>4. ioerr' = TRUE
    BY <1>1, <2>1
  <2>5. Map!Refuse
    BY <2>1, <2>2, <2>3, <2>4 DEF Map!Refuse, MapBar, RetBar
  <2> QED BY <2>1, <2>5 DEF Map!Next, Map!RefuseAll
<1>9. CASE RefusedWrite
  <2>1. /\ pc = "idle" /\ pc' = "idle" /\ ret' = "fail" /\ rdonly
        /\ UNCHANGED <<pag, npag, dir, ioerr, rdonly>>
    BY <1>9 DEF RefusedWrite, Ready, Return, file
  <2>2. MapBar' = MapBar
    BY <2>1, LookupsSame, MapBarIs, MapBarNow
  <2>3. RetBar' = "fail"
    BY <2>1, RetIs
  <2>4. Map!RefuseChange
    BY <2>1, <2>2, <2>3 DEF Map!RefuseChange, Map!Keep, MapBar, RetBar
  <2> QED BY <2>4 DEF Map!Next
<1>10. CASE \E k \in Keys : Fetch(k) \/ Delete(k)
  BY <1>10, FetchMaps, DeleteMaps
<1>11. CASE StoreAccess
  BY <1>11, AccessMaps
<1>12. CASE Crash
  BY <1>2, <1>12 DEF Crash
<1>13. CASE UNCHANGED vars
  <2>1. UNCHANGED <<pag, npag, dir, pc, before, ret, ioerr, rdonly>>
    BY <1>13 DEF vars, file
  <2>2. Lookups' = Lookups
    BY <2>1, LookupsSame
  <2> QED BY <2>1, <2>2 DEF Map!vars
<1> QED BY <1>3, <1>4, <1>5, <1>6, <1>7, <1>8, <1>9, <1>10, <1>11, <1>12, <1>13 DEF Next

LEMMA InitMaps == ASSUME TypeInv, EmptyInv, PlaceInv, Init PROVE Map!Init
<1>1. faults = 0 /\ pc = "closed" /\ ret = "none" /\ ioerr = FALSE /\ rdonly = FALSE
  BY DEF Init
<1>2. PagesInv
  BY <1>1 DEF PlaceInv
<1>3. \A k \in Keys : Lookup(k) \in Vals \cup {NoVal}
  BY <1>2, LookupValue DEF PagesInv
<1>4. Lookups \in [Keys -> Vals \cup {NoVal}]
  BY <1>3 DEF Lookups
<1> QED BY <1>1, <1>4 DEF Map!Init

\* The data base is a map (ndbm.h: dbm_fetch, dbm_store, dbm_delete, dbm_firstkey
\* and dbm_nextkey): as long as no write fails and the program is not stopped in a
\* store, every call returns what it would of a map and changes it in the same
\* way, across splits, buffers, closing and opening again.
THEOREM MapKept ==
  ASSUME NoEmptyScan, ResultsApart
  PROVE  Spec /\ [](faults = 0 /\ crashes = 0) => IsMap
<1>1. ASSUME BufferInv, DirInv, TypeInv, TypeInv', EmptyInv, PlaceInv, Counted,
             faults = 0 /\ crashes = 0, (faults = 0 /\ crashes = 0)', [Next]_vars
      PROVE  [Map!Next]_(Map!vars)
  <2>1. faults = 0 /\ faults' = 0 /\ crashes = 0 /\ crashes' = 0
    BY <1>1
  <2> QED BY <1>1, <2>1, NextMaps
<1>2. Init => Map!Init
  BY InitTypes, InitEmpty, InitPlace, InitMaps
<1> QED BY <1>1, <1>2, InitBuffer, NextBuffer, InitDir, NextDir, InitTypes, NextTypes,
           InitEmpty, NextEmpty, InitCounted, NextCounted, InitPlace, NextPlace, PTL
        DEF Spec, IsMap, Map!Spec

-----------------------------------------------------------------------------
(***************************************************************************)
(* A store that is stopped.                                                *)
(***************************************************************************)

\* Between the writes of a split a key is found as before, or it is one of the
\* page's and is not found.
LEMMA LostInSplit ==
  ASSUME BufferInv, TypeInv, EmptyInv, PlaceInv, faults = 0, pc \in InStore, NEW k \in Keys \ {st.key}
  PROVE  Lookup(k) = before[k] \/ (Lookup(k) = NoVal /\ InSplit(k))
<1>1. PagesInv /\ HalvesInv /\ StoreInv
  BY DEF PlaceInv
<1>2. CASE pc \in {"high", "bit"} => Home(k) # st.blk
  BY <1>1, <1>2 DEF StoreInv
<1>3. CASE pc \in {"high", "bit"} /\ Home(k) = st.blk
  <2>1. /\ pc \in InSplitting /\ pc # "split" /\ ioerr = FALSE
        /\ before \in [Keys -> Vals \cup {NoVal}]
        /\ \A v \in Vals : before[k] = v <=> <<k, v>> \in Pairs(pagbuf) \cup Pairs(st.ovf)
    BY <1>1, <1>3 DEF StoreInv, InStore, InSplitting
  <2>2. PICK d \in Depths : /\ LeafAt(dir, Hash[st.key], d)
                            /\ st.blk = Hash[st.key] % 2 ^ d
                            /\ High = st.blk + 2 ^ d
                            /\ LeafAt(dir, Hash[k], d) /\ Hash[k] % 2 ^ d = st.blk
    BY <1>1, <1>3, <2>1, Halving
  <2>3. st.key \in Keys /\ pagbno = st.blk /\ st.blk \in Blocks /\ st.blk \in Nat /\ pagbuf \in Seq(Pair)
    BY <1>3, Splitting DEF InStore
  <2>4. st.blk < npag
    <3>1. npag \in Nat /\ 2 ^ d \in Nat
      BY Powers DEF TypeInv, PagesTyped
    <3>2. pc = "bit" => High < npag
      BY DEF TypeInv, StoreTyped
    <3>3. pc = "high" => npag > st.blk
      BY DEF BufferInv
    <3> QED BY <1>3, <2>2, <2>3, <3>1, <3>2, <3>3
  <2>5. pag[Home(k)] = pagbuf
    BY <1>3, <2>1, <2>3, <2>4 DEF BufferInv
  <2>6. Lookup(k) \in Vals \cup {NoVal} /\ \A v \in Vals : Lookup(k) = v => <<k, v>> \in Pairs(pagbuf)
    BY <1>1, <2>5, LookupValue DEF PagesInv
  <2>7. Lookup(k) \in Vals => Lookup(k) = before[k]
    BY <2>1, <2>6
  <2>8. InSplit(k)
    <3>1. PICK e \in Depths : /\ st.leaf = 2 ^ e - 1
                              /\ \A c \in Depths : c < e => BitOf(Hash[st.key], c) \in dir
      BY <1>1 DEF StoreInv
    <3>2. e <= d
      <4>1. ~(d < e)
        BY <2>2, <3>1 DEF LeafAt
      <4> QED BY <4>1 DEF Depths
    <3>3. Hash[k] \in Nat /\ Hash[st.key] \in Nat
      BY <2>3, HashType
    <3>4. Hash[k] % 2 ^ e = Hash[st.key] % 2 ^ e
      BY <2>2, <3>2, <3>3, SamePageUp
    <3>5. Blk(k, 2 ^ e - 1) = Hash[k] % 2 ^ e /\ Blk(st.key, 2 ^ e - 1) = Hash[st.key] % 2 ^ e
      BY <2>3, MaskOfDepth
    <3> QED BY <3>1, <3>4, <3>5 DEF InSplit
  <2> QED BY <2>6, <2>7, <2>8
<1> QED BY <1>2, <1>3

LEMMA NextLocal ==
  ASSUME BufferInv, DirInv, TypeInv, EmptyInv, Counted, PlaceInv, [Next]_vars,
         faults = 0, faults' = 0, st # NoStore, st' = NoStore, pc' \in {"idle", "closed"},
         NEW k \in Keys \ {st.key}
  PROVE  Lookup(k)' = before[k] \/ (Lookup(k)' = NoVal /\ InSplit(k))
<1>1. pc \in InStore
  BY DEF TypeInv, StoreTyped
<1>2. faults' # faults + 1
  OBVIOUS
<1>3. UNCHANGED <<pag, npag, dir>> => Lookup(k)' = Lookup(k)
  BY SameLookups
<1>4. Lookup(k) = before[k] \/ (Lookup(k) = NoVal /\ InSplit(k))
  BY <1>1, LostInSplit
<1>5. CASE Crash
  <2>1. UNCHANGED <<pag, npag, dir>>
    BY <1>5 DEF Crash, Forget, file
  <2> QED BY <1>3, <1>4, <2>1
<1>6. CASE StoreAccess
  <2>1. /\ pc = "access"
        /\ \/ UNCHANGED <<pag, npag, dir>>
           \/ \A l \in Keys : Lookup(l)' = IF l = st.key THEN st.val ELSE Lookup(l)
    BY <1>6, Accessed
  <2>2. Lookup(k)' = Lookup(k)
    BY <1>3, <2>1
  <2> QED BY <1>4, <2>2
<1>7. CASE SplitItem \/ SplitLow \/ SplitHigh \/ SplitBit
  <2>1. pc' \in InStore
    BY <1>2, <1>7 DEF SplitItem, SplitLow, SplitHigh, SplitBit, WriteWorks, WriteFails, InStore
  <2> QED BY <2>1 DEF InStore
<1>8. CASE UNCHANGED vars
  BY <1>8 DEF vars
<1>9. CASE \/ \E ro \in Modes : Open(ro)
           \/ Close \/ Refused \/ RefusedWrite \/ FirstKey \/ NextKey \/ NextKeyStep
  <2>1. pc \in {"closed", "idle", "next"}
    BY <1>9 DEF Open, Close, Refused, RefusedWrite, FirstKey, NextKey, NextKeyStep, Ready
  <2> QED BY <1>1, <2>1 DEF InStore
<1>10. CASE \/ \E l \in Keys : Fetch(l) \/ Delete(l)
            \/ \E l \in Keys, v \in Vals, r \in BOOLEAN : Store(l, v, r)
  <2>1. pc = "idle"
    BY <1>10 DEF Fetch, Delete, Store, Ready
  <2> QED BY <1>1, <2>1 DEF InStore
<1> QED BY <1>5, <1>6, <1>7, <1>8, <1>9, <1>10 DEF Next

\* A store that is done, refused or stopped between its writes touches no key of
\* another page, and turns no value into another or a deleted one into a value
\* (dbm_store in ndbm.c), also after any number of stores that were stopped.
THEOREM DamageStaysLocal ==
  ASSUME NoEmptyScan
  PROVE  Spec => DamageIsLocal
<1>1. BufferInv /\ DirInv /\ TypeInv /\ EmptyInv /\ Counted /\ PlaceInv /\ [Next]_vars
      => (faults = 0 /\ faults' = 0 /\ st # NoStore /\ st' = NoStore /\ pc' \in {"idle", "closed"} =>
            \A k \in Keys \ {st.key} :
              Lookup(k)' = before[k] \/ (Lookup(k)' = NoVal /\ InSplit(k)))
  BY NextLocal
<1> QED BY <1>1, InitBuffer, NextBuffer, InitDir, NextDir, InitTypes, NextTypes,
           InitEmpty, NextEmpty, InitCounted, NextCounted, InitPlace, NextPlace, PTL
        DEF Spec, DamageIsLocal
-----------------------------------------------------------------------------
(***************************************************************************)
(* A traversal.                                                            *)
(***************************************************************************)

\* dbm_nextkey's end, a key without data, is none of the keys.
EndApart == "end" \notin Keys

Seen == ToSet(scan.seen)

\* A deletion has moved the pairs of page b under the traversal, or emptied it
\* and those behind it, up to page b.
Emptied(b) == \E c \in scan.moved : c <= b /\ \A d \in c .. b - 1 : OnDisk(d) = << >>

\* No key that was returned lies ahead.
Behind ==
  \A k \in Seen :
    /\ Home(k) <= blkptr
    /\ \A i \in DOMAIN OnDisk(blkptr) : OnDisk(blkptr)[i][1] = k => i <= keyptr

\* The pairs of the pages left and those of this page up to keyptr were returned,
\* or they may be missed.
Covered ==
  /\ \A b \in 0 .. blkptr - 1 : Emptied(b) \/ \A i \in DOMAIN OnDisk(b) : OnDisk(b)[i][1] \in Seen
  /\ \/ Emptied(blkptr)
     \/ /\ keyptr <= Len(OnDisk(blkptr))
        /\ \A i \in 1 .. keyptr : OnDisk(blkptr)[i][1] \in Seen

ScanInv ==
  faults = 0 /\ crashes = 0 /\ scan.clean =>
    /\ scan.on /\ ~ioerr /\ pc \in {"idle", "next"}
    /\ scan.seen \in Seq(Keys) /\ scan.moved \subseteq Nat
    /\ Behind /\ Covered

LEMMA OnDiskPage ==
  ASSUME TypeInv, EmptyInv, NEW b \in Nat
  PROVE  OnDisk(b) \in Seq(Pair) /\ (b \in Blocks => OnDisk(b) = pag[b])
         /\ (OnDisk(b) # << >> => b \in Blocks /\ b < npag)
<1>1. b < npag => b \in Blocks
  BY Deepest DEF TypeInv, PagesTyped, Blocks
<1> QED BY <1>1, EmptyPage DEF TypeInv, PagesTyped, EmptyInv, OnDisk

\* Every page is right when no store is under way and none was stopped.
LEMMA PagesRight ==
  ASSUME TypeInv, EmptyInv, PlaceInv, faults = 0, crashes = 0, pc \in {"idle", "next"},
         NEW b \in Nat
  PROVE  /\ Distinct(OnDisk(b)) /\ OnDisk(b) \in Seq(Pair)
         /\ \A i \in DOMAIN OnDisk(b) : OnDisk(b)[i][1] \in Keys /\ Home(OnDisk(b)[i][1]) = b
<1>1. CASE OnDisk(b) = << >>
  BY <1>1, EmptyPage
<1>2. CASE OnDisk(b) # << >>
  <2>1. b \in Blocks /\ OnDisk(b) = pag[b] /\ OnDisk(b) \in Seq(Pair)
    BY <1>2, OnDiskPage
  <2>2. PageRight(b)
    BY <2>1 DEF PlaceInv, PagesInv
  <2>3. \A i \in DOMAIN OnDisk(b) : OnDisk(b)[i] \in Pairs(OnDisk(b))
    BY DEF Pairs
  <2>4. \A i \in DOMAIN OnDisk(b) : OnDisk(b)[i][1] \in Keys
    BY <2>1, <2>3, PairsType
  <2> QED BY <2>1, <2>2, <2>3, <2>4 DEF PageRight
<1> QED BY <1>1, <1>2

LEMMA InitScan == Init => ScanInv
BY DEF Init, NoScan, ScanInv

\* A step that leaves the files and the traversal alone.
LEMMA FrameScan ==
  ASSUME ScanInv, UNCHANGED <<pag, npag, dir, position, ioerr, faults, crashes>>, pc' \in {"idle", "next"}
  PROVE  ScanInv'
<1>1. \A k : Home(k)' = Home(k)
  BY SameHomes
<1>2. \A b : OnDisk(b)' = OnDisk(b)
  BY DEF OnDisk
<1>3. UNCHANGED <<scan, blkptr, keyptr>>
  BY DEF position
<1>4. \A b : Emptied(b)' = Emptied(b)
  BY <1>2, <1>3 DEF Emptied
<1>5. OnDisk(blkptr)' = OnDisk(blkptr) /\ Emptied(blkptr)' = Emptied(blkptr)
  BY <1>2, <1>3, <1>4 DEF OnDisk, Emptied
<1>6. Behind => Behind'
  BY <1>1, <1>3, <1>5 DEF Behind, Seen
<1>7. Covered => Covered'
  BY <1>2, <1>3, <1>4, <1>5 DEF Covered, Seen
<1> QED BY <1>3, <1>6, <1>7 DEF ScanInv

LEMMA FirstScan == ASSUME TypeInv, EmptyInv, FirstKey PROVE ScanInv'
<1>1. /\ ~ioerr' /\ pc' = "next" /\ blkptr' = 0 /\ keyptr' = 0
      /\ scan'.on /\ scan'.seen = << >> /\ scan'.moved = {}
      /\ UNCHANGED <<pag, npag>>
  BY DEF FirstKey, Ready, NoScan, file
<1>2. Seen' = {}
  BY <1>1 DEF Seen, ToSet
<1>3. OnDisk(0) \in Seq(Pair) /\ OnDisk(blkptr)' = OnDisk(0)
  BY <1>1, OnDiskPage DEF OnDisk
<1>4. Behind' /\ Covered'
  <2>1. 0 <= Len(OnDisk(0)) /\ 0 .. 0 - 1 = {} /\ 1 .. 0 = {}
    BY <1>3
  <2> QED BY <1>1, <1>2, <1>3, <2>1 DEF Behind, Covered
<1> QED BY <1>1, <1>4 DEF ScanInv

\* A pair is deleted: on the page of the traversal the pairs behind it move up.
LEMMA DeleteScan ==
  ASSUME BufferInv, DirInv, TypeInv, NoEmptyScan, EmptyInv, Counted, PlaceInv, ScanInv, [Next]_vars,
         NEW k \in Keys, Delete(k)
  PROVE  ScanInv'
<1> SUFFICES ASSUME faults' = 0, crashes' = 0, scan'.clean PROVE ScanInv'
  BY DEF ScanInv
<1> DEFINE b == Blk(k, LeafMask(k))
           p == Loaded(b)
           r == Place(p, k)
           rest == Without(p, r)
<1>1. /\ pc = "idle" /\ ~ioerr /\ WithinBound(k) /\ pc' = "idle" /\ crashes' = crashes
      /\ UNCHANGED <<blkptr, keyptr>>
      /\ \/ UNCHANGED <<pag, npag, dir, faults, ioerr, scan>>
         \/ /\ Has(p, k) /\ WritePage(b, rest) /\ UNCHANGED <<faults, ioerr>>
            /\ scan' = MovedOn(b)
         \/ faults' = faults + 1
  BY DEF Delete, Ready, Return, WriteFails, WriteWorks, file
<1>2. faults = 0 /\ crashes = 0 /\ faults' # faults + 1
  BY <1>1, NextCounted DEF Counted
<1>3. CASE UNCHANGED <<pag, npag, dir, faults, ioerr, scan>>
  BY <1>1, <1>3, FrameScan DEF position
<1>4. CASE Has(p, k) /\ WritePage(b, rest) /\ UNCHANGED <<faults, ioerr>> /\ scan' = MovedOn(b)
  <2>1. scan = [on |-> scan.on, clean |-> scan.clean, seen |-> scan.seen, moved |-> scan.moved]
    BY DEF TypeInv, ScanTyped
  <2>2. /\ scan.clean /\ scan'.on = scan.on /\ scan'.seen = scan.seen
        /\ scan'.moved = IF b = blkptr THEN scan.moved \cup {b} ELSE scan.moved
    BY <1>4, <2>1 DEF MovedOn
  <2>3. /\ scan.on /\ ~ioerr /\ scan.seen \in Seq(Keys) /\ scan.moved \subseteq Nat
        /\ Behind /\ Covered
    BY <1>2, <2>2 DEF ScanInv
  <2>4. b = Home(k) /\ b \in Blocks /\ b \in Nat /\ p = pag[b] /\ p \in Seq(Pair)
    BY <1>1, LoadedHome, HomeIs
  <2>5. b < npag
    <3>1. Len(InitPages) \in Nat /\ Len(InitPages) # 0
      BY <2>3, NdbmAssumption DEF NoEmptyScan, NdbmAssumption, TypeInv, ScanTyped
    <3>2. Len(InitPages) <= npag /\ npag \in Nat
      BY DEF TypeInv, PagesTyped
    <3> QED BY <1>1, <3>1, <3>2, WalkInFile
  <2>6. p = OnDisk(b)
    BY <2>4, <2>5 DEF OnDisk
  <2> HIDE DEF b, p
  <2>7. r \in 1 .. Len(p) /\ Len(p) \in Nat
    BY <1>4, <2>4, PlaceFound
  <2> HIDE DEF r
  <2>8. /\ rest \in Seq(Pair) /\ Len(rest) = Len(p) - 1
        /\ \A j \in 1 .. Len(p) - 1 : rest[j] = IF j < r THEN p[j] ELSE p[j + 1]
    BY <2>4, <2>7, WithoutType
  <2> HIDE DEF rest
  <2>9. /\ dir' = dir /\ npag' = npag
        /\ \A c \in Nat : OnDisk(c)' = IF c = b THEN rest ELSE OnDisk(c)
    <3>1. dir' = dir /\ npag' = npag /\ pag' = [pag EXCEPT ![b] = rest] /\ DOMAIN pag = Blocks
      BY <1>4, <2>5 DEF WritePage, TypeInv, PagesTyped
    <3>2. \A c \in Nat : c < npag => c \in Blocks
      BY Deepest DEF TypeInv, PagesTyped, Blocks
    <3> QED BY <2>4, <2>5, <3>1, <3>2 DEF OnDisk
  <2>10. \A l : Home(l)' = Home(l)
    BY <2>9, SameHomes
  <2>11. \A c \in Nat : \A j \in DOMAIN OnDisk(c)' : \E i \in DOMAIN OnDisk(c) :
           j <= i /\ OnDisk(c)'[j] = OnDisk(c)[i]
    <3> TAKE c \in Nat
    <3>1. CASE c = b
      <4> TAKE j \in DOMAIN OnDisk(c)'
      <4>1. j \in 1 .. Len(p) - 1 /\ OnDisk(c)'[j] = rest[j] /\ DOMAIN p = 1 .. Len(p)
        BY <2>4, <2>8, <2>9, <3>1
      <4>2. j \in DOMAIN p /\ j + 1 \in DOMAIN p /\ j <= j /\ j <= j + 1
        BY <2>7, <4>1
      <4> QED BY <2>6, <2>7, <2>8, <3>1, <4>1, <4>2
    <3>2. CASE c # b
      <4>1. OnDisk(c)' = OnDisk(c) /\ OnDisk(c) \in Seq(Pair)
        BY <2>9, <3>2, OnDiskPage
      <4>2. \A j \in DOMAIN OnDisk(c) : j \in Int
        BY <4>1
      <4> QED BY <4>1, <4>2
    <3> QED BY <3>1, <3>2
  <2>12. \A c \in Nat : Emptied(c) => Emptied(c)'
    <3> SUFFICES ASSUME NEW c \in Nat, Emptied(c) PROVE Emptied(c)'
      OBVIOUS
    <3>1. PICK a \in scan.moved : a <= c /\ \A d \in a .. c - 1 : OnDisk(d) = << >>
      BY DEF Emptied
    <3>2. a \in Nat /\ a \in scan'.moved
      BY <2>2, <2>3, <3>1
    <3>3. p # << >>
      BY <2>7
    <3>4. \A d \in a .. c - 1 : OnDisk(d)' = << >>
      BY <2>6, <2>9, <3>1, <3>2, <3>3
    <3> QED BY <3>1, <3>2, <3>4 DEF Emptied
  <2>13. blkptr \in Nat /\ keyptr \in Nat /\ Seen' = Seen
    BY <2>2, Deepest DEF TypeInv, ScanTyped, Seen
  <2>14. /\ \A j \in DOMAIN OnDisk(blkptr)' : \E i \in DOMAIN OnDisk(blkptr) :
              j <= i /\ OnDisk(blkptr)'[j] = OnDisk(blkptr)[i]
         /\ blkptr # b => OnDisk(blkptr)' = OnDisk(blkptr)
         /\ Emptied(blkptr) => Emptied(blkptr)'
    <3> DEFINE B == blkptr
    <3>1. B \in Nat /\ blkptr = B /\ blkptr' = B
      BY <1>1, <2>13
    <3>2. OnDisk(blkptr)' = OnDisk(B)'
      BY <1>1 DEF OnDisk
    <3>3. Emptied(B)' = Emptied(blkptr)'
      BY <1>1 DEF Emptied
    <3> QED BY <2>9, <2>11, <2>12, <3>1, <3>2, <3>3
  <2>15. Behind'
    <3> SUFFICES ASSUME NEW l \in Seen
                 PROVE  /\ Home(l)' <= blkptr'
                        /\ \A j \in DOMAIN OnDisk(blkptr)' : OnDisk(blkptr)'[j][1] = l => j <= keyptr'
      BY <2>13 DEF Behind
    <3>1. Home(l) <= blkptr /\ \A i \in DOMAIN OnDisk(blkptr) : OnDisk(blkptr)[i][1] = l => i <= keyptr
      BY <2>3 DEF Behind
    <3>2. ASSUME NEW j \in DOMAIN OnDisk(blkptr)', OnDisk(blkptr)'[j][1] = l
          PROVE  j <= keyptr'
      <4>1. PICK i \in DOMAIN OnDisk(blkptr) : j <= i /\ OnDisk(blkptr)'[j] = OnDisk(blkptr)[i]
        BY <2>14
      <4>2. i <= keyptr
        BY <3>1, <3>2, <4>1
      <4>3. i \in Nat /\ j \in Nat
        <5>1. OnDisk(blkptr) \in Seq(Pair)
          BY <2>13, OnDiskPage
        <5>2. OnDisk(blkptr)' \in Seq(Pair)
          <6>1. CASE blkptr = b
            <7>1. OnDisk(blkptr)' = rest
              BY <1>1, <2>4, <2>9, <6>1 DEF OnDisk
            <7> QED BY <2>8, <7>1
          <6>2. CASE blkptr # b
            BY <2>14, <5>1, <6>2
          <6> QED BY <6>1, <6>2
        <5> QED BY <5>1, <5>2
      <4> QED BY <1>1, <2>13, <4>1, <4>2, <4>3
    <3> QED BY <1>1, <2>10, <3>1, <3>2
  <2>16. Covered'
    <3>1. ASSUME NEW c \in 0 .. blkptr' - 1
          PROVE  Emptied(c)' \/ \A i \in DOMAIN OnDisk(c)' : OnDisk(c)'[i][1] \in Seen
      <4>1. c \in 0 .. blkptr - 1 /\ c \in Nat
        BY <1>1, <2>13
      <4>2. Emptied(c) \/ \A i \in DOMAIN OnDisk(c) : OnDisk(c)[i][1] \in Seen
        BY <2>3, <4>1 DEF Covered
      <4> QED BY <2>11, <2>12, <4>1, <4>2
    <3>2. CASE blkptr = b
      <4>1. b \in scan'.moved /\ b <= b /\ b .. b - 1 = {}
        BY <2>2, <2>4, <3>2
      <4>2. Emptied(blkptr)'
        BY <1>1, <3>2, <4>1 DEF Emptied
      <4> QED BY <2>13, <3>1, <4>2 DEF Covered
    <3>3. CASE blkptr # b
      <4>1. \/ Emptied(blkptr)
            \/ /\ keyptr <= Len(OnDisk(blkptr))
               /\ \A i \in 1 .. keyptr : OnDisk(blkptr)[i][1] \in Seen
        BY <2>3 DEF Covered
      <4>2. OnDisk(blkptr)' = OnDisk(blkptr)
        BY <2>14, <3>3
      <4> QED BY <1>1, <2>13, <2>14, <3>1, <4>1, <4>2 DEF Covered
    <3> QED BY <3>2, <3>3
  <2>17. scan'.moved \subseteq Nat /\ scan'.seen \in Seq(Keys) /\ scan'.on
    BY <2>2, <2>3, <2>4
  <2> QED BY <1>1, <1>4, <2>3, <2>15, <2>16, <2>17 DEF ScanInv
<1> QED BY <1>1, <1>2, <1>3, <1>4

\* One turn of dbm_nextkey's loop: a pair of the page is returned, or the page is
\* left, or there is no other page.
LEMMA ScanTurn ==
  ASSUME BufferInv, TypeInv, NoEmptyScan, EmptyInv, PlaceInv, ScanInv, NextKeyStep,
         faults = 0, crashes = 0, scan.clean
  PROVE  LET p == OnDisk(blkptr) IN
           /\ UNCHANGED <<pag, npag, dir, faults, crashes, ioerr>>
           /\ \/ /\ blkptr >= npag /\ scan' = NoScan /\ ret' = "end"
              \/ /\ keyptr < Len(p) /\ keyptr' = keyptr + 1 /\ blkptr' = blkptr
                 /\ pc' = "idle" /\ ret' = p[keyptr + 1][1]
                 /\ scan'.on = scan.on /\ scan'.moved = scan.moved
                 /\ scan'.seen = Append(scan.seen, p[keyptr + 1][1])
              \/ /\ keyptr >= Len(p) /\ blkptr' = blkptr + 1 /\ pc' = "next"
                 /\ keyptr' = IF p = << >> THEN keyptr ELSE 0
                 /\ scan' = scan
<1>1. ~ioerr /\ scan.on /\ pc = "next"
  BY DEF ScanInv, NextKeyStep
<1>2. /\ scan = [on |-> scan.on, clean |-> scan.clean, seen |-> scan.seen, moved |-> scan.moved]
      /\ blkptr \in Nat /\ (blkptr = pagbno => blkptr < npag) /\ npag \in Nat
  BY <1>1, Deepest DEF TypeInv, ScanTyped, PagesTyped
<1>3. blkptr = pagbno => pagbuf = OnDisk(blkptr)
  <2> HAVE blkptr = pagbno
  <2>1. blkptr < npag /\ blkptr \in Blocks
    BY <1>2, Deepest DEF TypeInv, PagesTyped, Blocks
  <2> QED BY <1>1, <2>1 DEF BufferInv, OnDisk
<1> DEFINE load == blkptr # pagbno
           q == IF load THEN OnDisk(blkptr) ELSE pagbuf
<1>4. q = OnDisk(blkptr)
  BY <1>3
<1>5. /\ UNCHANGED <<pag, npag, dir, faults, crashes, ioerr>>
      /\ \/ /\ load /\ blkptr >= npag
            /\ scan' = NoScan /\ pc' = "idle" /\ ret' = "end"
         \/ /\ keyptr < Len(q) /\ keyptr' = keyptr + 1
            /\ scan' = [scan EXCEPT !.seen = IF scan.clean THEN Append(@, q[keyptr + 1][1]) ELSE @]
            /\ pc' = "idle" /\ ret' = q[keyptr + 1][1]
            /\ UNCHANGED blkptr
         \/ /\ keyptr >= Len(q) /\ blkptr' = blkptr + 1
            /\ keyptr' = IF q = << >> THEN keyptr ELSE 0
            /\ UNCHANGED <<pc, ret, scan>>
  BY DEF NextKeyStep, Return, file, bounds
<1> HIDE DEF load, q
<1> QED BY <1>1, <1>2, <1>4, <1>5

\* The key returned was not returned before, and it is found; and when there are
\* no more, each key that is found was returned or may be missed.
LEMMA TurnIsExact ==
  ASSUME BufferInv, TypeInv, NoEmptyScan, EndApart, EmptyInv, PlaceInv, ScanInv, NextKeyStep,
         faults = 0, crashes = 0, scan.clean, pc' = "idle"
  PROVE  /\ ret' \in Keys => ret' \notin ToSet(scan.seen) /\ Lookup(ret') # NoVal
         /\ ret' = "end" => \A k \in Keys \ ToSet(scan.seen) :
                              Lookup(k) # NoVal => MayBeMissed(k)
<1> DEFINE p == OnDisk(blkptr)
<1>1. pc = "next" /\ Behind /\ Covered
  BY DEF ScanInv, NextKeyStep
<1>2. \/ blkptr >= npag /\ ret' = "end"
      \/ keyptr < Len(p) /\ ret' = p[keyptr + 1][1]
  BY ScanTurn
<1>3. blkptr \in Nat /\ keyptr \in Nat /\ npag \in Nat
  BY Deepest DEF TypeInv, ScanTyped, PagesTyped
<1>4. CASE blkptr >= npag /\ ret' = "end"
  <2> SUFFICES ASSUME NEW k \in Keys, k \notin Seen, Lookup(k) # NoVal PROVE MayBeMissed(k)
    BY <1>4 DEF EndApart, Seen
  <2>1. Home(k) \in Nat /\ Home(k) \in Blocks
    BY HomeIs
  <2>2. Has(OnDisk(Home(k)), k)
    BY DEF Lookup, Home, Value
  <2>3. PICK i \in DOMAIN OnDisk(Home(k)) : OnDisk(Home(k))[i][1] = k
    BY <2>2 DEF Has
  <2>4. Home(k) < npag
    <3>1. OnDisk(Home(k)) # << >>
      BY <2>3
    <3> QED BY <2>1, <3>1, OnDiskPage
  <2>5. Home(k) \in 0 .. blkptr - 1
    BY <1>3, <1>4, <2>1, <2>4
  <2>6. Emptied(Home(k))
    BY <1>1, <2>3, <2>5 DEF Covered
  <2> QED BY <2>6 DEF Emptied, MayBeMissed, Home
<1>5. CASE keyptr < Len(p) /\ ret' = p[keyptr + 1][1]
  <2>1. /\ Distinct(p) /\ p \in Seq(Pair)
        /\ \A i \in DOMAIN p : p[i][1] \in Keys /\ Home(p[i][1]) = blkptr
    BY <1>1, <1>3, PagesRight
  <2>2. keyptr + 1 \in DOMAIN p /\ ~(keyptr + 1 <= keyptr)
    BY <1>3, <1>5, <2>1
  <2> DEFINE k == p[keyptr + 1][1]
  <2>3. k \in Keys /\ Home(k) = blkptr /\ ret' = k
    BY <1>5, <2>1, <2>2
  <2>4. k \notin Seen
    BY <1>1, <2>2 DEF Behind
  <2>5. Lookup(k) # NoVal
    <3>1. Has(p, k)
      BY <2>2 DEF Has
    <3>2. Value(p, k) # NoVal
      BY <2>1, <2>3, <3>1, ValueFound
    <3>3. Lookup(k) = Value(p, k)
      BY <2>3 DEF Lookup, Home
    <3> QED BY <3>2, <3>3
  <2> HIDE DEF k
  <2>6. ret' # "end"
    BY <2>3 DEF EndApart
  <2>7. Lookup(ret') = Lookup(k)
    BY <2>3
  <2> QED BY <2>3, <2>4, <2>5, <2>6, <2>7 DEF Seen
<1> QED BY <1>2, <1>4, <1>5

LEMMA TurnScan ==
  ASSUME BufferInv, TypeInv, NoEmptyScan, EmptyInv, PlaceInv, ScanInv, NextKeyStep
  PROVE  ScanInv'
<1> SUFFICES ASSUME faults' = 0, crashes' = 0, scan'.clean PROVE ScanInv'
  BY DEF ScanInv
<1> DEFINE B == blkptr
           p == OnDisk(B)
<1>1. pc = "next" /\ pc' \in {"idle", "next"} /\ faults = 0 /\ crashes = 0 /\ scan.clean
  BY DEF NextKeyStep, Return, bounds, NoScan, TypeInv, ScanTyped
<1>2. /\ scan.on /\ ~ioerr /\ scan.seen \in Seq(Keys) /\ scan.moved \subseteq Nat
      /\ Behind /\ Covered
  BY <1>1 DEF ScanInv
<1>3. /\ UNCHANGED <<pag, npag, dir, faults, crashes, ioerr>>
      /\ \/ /\ keyptr < Len(p) /\ keyptr' = keyptr + 1 /\ blkptr' = B
            /\ scan'.on = scan.on /\ scan'.moved = scan.moved
            /\ scan'.seen = Append(scan.seen, p[keyptr + 1][1])
         \/ /\ keyptr >= Len(p) /\ blkptr' = B + 1
            /\ keyptr' = IF p = << >> THEN keyptr ELSE 0
            /\ scan' = scan
  <2>1. scan' # NoScan
    BY DEF NoScan
  <2> QED BY <1>1, <2>1, ScanTurn
<1>4. /\ B \in Nat /\ keyptr \in Nat /\ p \in Seq(Pair) /\ Distinct(p)
      /\ \A i \in DOMAIN p : p[i][1] \in Keys /\ Home(p[i][1]) = B
  <2>1. B \in Nat /\ keyptr \in Nat
    BY Deepest DEF TypeInv, ScanTyped
  <2> QED BY <1>1, <2>1, PagesRight
<1>5. DOMAIN p = 1 .. Len(p) /\ Len(p) \in Nat
  BY <1>4
<1>6. \A k : Home(k)' = Home(k)
  BY <1>3, SameHomes
<1>7. \A c : OnDisk(c)' = OnDisk(c)
  BY <1>3 DEF OnDisk
<1>8. scan'.moved = scan.moved
  BY <1>3
<1>9. \A c : Emptied(c)' = Emptied(c)
  BY <1>7, <1>8 DEF Emptied
<1>10. /\ \A k \in Seen : Home(k) <= B /\ \A i \in DOMAIN p : p[i][1] = k => i <= keyptr
       /\ \A c \in 0 .. B - 1 : Emptied(c) \/ \A i \in DOMAIN OnDisk(c) : OnDisk(c)[i][1] \in Seen
       /\ Emptied(B) \/ (keyptr <= Len(p) /\ \A i \in 1 .. keyptr : p[i][1] \in Seen)
  BY <1>2 DEF Behind, Covered
<1>11. CASE /\ keyptr < Len(p) /\ keyptr' = keyptr + 1 /\ blkptr' = B
            /\ scan'.on = scan.on /\ scan'.moved = scan.moved
            /\ scan'.seen = Append(scan.seen, p[keyptr + 1][1])
  <2> DEFINE k == p[keyptr + 1][1]
  <2>1. keyptr + 1 \in DOMAIN p /\ k \in Keys /\ Home(k) = B
    BY <1>4, <1>5, <1>11
  <2>2. OnDisk(blkptr)' = p /\ Emptied(blkptr)' = Emptied(B)
    BY <1>7, <1>8, <1>11 DEF OnDisk, Emptied
  <2>3. \A i \in DOMAIN p : p[i][1] = k => i = keyptr + 1
    BY <1>4, <2>1 DEF Distinct
  <2> HIDE DEF p, k
  <2>4. Seen' = Seen \cup {k} /\ scan'.seen \in Seq(Keys)
    <3>1. scan.seen \in Seq(Keys) /\ scan'.seen = Append(scan.seen, k)
      BY <1>2, <1>11 DEF k
    <3>2. /\ Len(scan.seen) \in Nat /\ DOMAIN scan.seen = 1 .. Len(scan.seen)
          /\ DOMAIN scan'.seen = 1 .. Len(scan.seen) + 1
          /\ \A i \in 1 .. Len(scan.seen) : scan'.seen[i] = scan.seen[i]
          /\ scan'.seen[Len(scan.seen) + 1] = k
      BY <2>1, <3>1
    <3>3. \A i \in 1 .. Len(scan.seen) + 1 : i \in 1 .. Len(scan.seen) \/ i = Len(scan.seen) + 1
      BY <3>2
    <3> QED BY <2>1, <3>1, <3>2, <3>3 DEF Seen, ToSet
  <2>5. Behind'
    <3> SUFFICES ASSUME NEW l \in Seen \cup {k}
                 PROVE  Home(l) <= B /\ \A i \in DOMAIN p : p[i][1] = l => i <= keyptr + 1
      BY <1>6, <1>11, <2>2, <2>4 DEF Behind
    <3>1. CASE l = k
      BY <1>4, <1>5, <2>1, <2>3, <3>1
    <3>2. CASE l \in Seen
      BY <1>4, <1>5, <1>10, <3>2
    <3> QED BY <3>1, <3>2
  <2>6. Covered'
    <3>1. \A c \in 0 .. B - 1 : Emptied(c)' \/ \A i \in DOMAIN OnDisk(c)' : OnDisk(c)'[i][1] \in Seen'
      BY <1>7, <1>9, <1>10, <2>4
    <3>2. \/ Emptied(blkptr)'
          \/ keyptr + 1 <= Len(p) /\ \A i \in 1 .. keyptr + 1 : p[i][1] \in Seen'
      <4>1. \A i \in 1 .. keyptr + 1 : i \in 1 .. keyptr \/ i = keyptr + 1
        BY <1>4
      <4> QED BY <1>4, <1>5, <1>10, <1>11, <2>2, <2>4, <4>1 DEF k
    <3> QED BY <1>11, <2>2, <3>1, <3>2 DEF Covered
  <2> QED BY <1>1, <1>2, <1>3, <1>11, <2>4, <2>5, <2>6 DEF ScanInv
<1>12. CASE /\ keyptr >= Len(p) /\ blkptr' = B + 1
            /\ keyptr' = IF p = << >> THEN keyptr ELSE 0
            /\ scan' = scan
  <2> DEFINE q == OnDisk(B + 1)
  <2>1. /\ q \in Seq(Pair)
        /\ \A i \in DOMAIN q : Home(q[i][1]) = B + 1
    BY <1>1, <1>4, PagesRight
  <2>2. OnDisk(blkptr)' = q /\ Emptied(blkptr)' = Emptied(B + 1) /\ Seen' = Seen
    BY <1>7, <1>8, <1>12 DEF OnDisk, Emptied, Seen
  <2> HIDE DEF p, q
  <2>3. Behind'
    <3> SUFFICES ASSUME NEW l \in Seen
                 PROVE  Home(l) <= B + 1 /\ \A i \in DOMAIN q : q[i][1] = l => i <= keyptr'
      BY <1>6, <1>12, <2>2 DEF Behind
    <3>1. l \in Keys
      BY <1>2 DEF Seen, ToSet
    <3>2. Home(l) \in Nat /\ Home(l) <= B
      BY <1>10, <3>1, HomeIs
    <3>3. ~(B + 1 <= B)
      BY <1>4
    <3> QED BY <1>4, <2>1, <3>2, <3>3
  <2>4. Emptied(B) \/ \A i \in DOMAIN p : p[i][1] \in Seen
    <3>1. \A i \in 1 .. Len(p) : keyptr <= Len(p) => i \in 1 .. keyptr
      BY <1>4, <1>5, <1>12
    <3> QED BY <1>5, <1>10, <3>1
  <2>5. \A c \in 0 .. (B + 1) - 1 :
          Emptied(c)' \/ \A i \in DOMAIN OnDisk(c)' : OnDisk(c)'[i][1] \in Seen'
    <3>1. \A c \in 0 .. (B + 1) - 1 : c \in 0 .. B - 1 \/ c = B
      BY <1>4
    <3> QED BY <1>7, <1>9, <1>10, <2>2, <2>4, <3>1 DEF p
  <2>6. Emptied(B) /\ p = << >> => Emptied(B + 1)
    <3> SUFFICES ASSUME Emptied(B), p = << >> PROVE Emptied(B + 1)
      OBVIOUS
    <3>1. PICK a \in scan.moved : a <= B /\ \A d \in a .. B - 1 : OnDisk(d) = << >>
      BY DEF Emptied
    <3>2. a \in Nat
      BY <1>2, <3>1
    <3>3. a <= B + 1 /\ \A d \in a .. (B + 1) - 1 : d \in a .. B - 1 \/ d = B
      BY <1>4, <3>1, <3>2
    <3> QED BY <3>1, <3>3 DEF Emptied, p
  <2>7. Emptied(B + 1) \/ keyptr' = 0
    <3>1. CASE p # << >>
      BY <1>12, <3>1
    <3>2. CASE p = << >>
      <4>1. Emptied(B) \/ keyptr <= 0
        BY <1>10, <3>2
      <4> QED BY <1>4, <1>12, <2>6, <3>2, <4>1
    <3> QED BY <3>1, <3>2
  <2>8. Len(q) >= 0 /\ 1 .. 0 = {}
    BY <2>1
  <2>9. Covered'
    <3>1. Emptied(blkptr)' \/ (keyptr' <= Len(q) /\ \A i \in 1 .. keyptr' : q[i][1] \in Seen')
      BY <2>2, <2>7, <2>8
    <3> QED BY <1>12, <2>2, <2>5, <3>1 DEF Covered
  <2> QED BY <1>1, <1>2, <1>3, <1>12, <2>3, <2>9 DEF ScanInv
<1> QED BY <1>3, <1>11, <1>12

LEMMA NextScan ==
  ASSUME BufferInv, DirInv, TypeInv, NoEmptyScan, EmptyInv, Counted, PlaceInv, ScanInv, [Next]_vars
  PROVE  ScanInv'
<1>1. CASE (\E ro \in Modes : Open(ro)) \/ Close \/ Crash
  <2>1. ~scan'.clean
    BY <1>1 DEF Open, Close, Crash, Forget, NoScan
  <2> QED BY <2>1 DEF ScanInv
<1>2. CASE \E k \in Keys, v \in Vals, r \in BOOLEAN : Store(k, v, r)
  <2>1. scan' = Unclean
    BY <1>2 DEF Store
  <2>2. ~scan'.clean
    BY <2>1 DEF Unclean, TypeInv, ScanTyped
  <2> QED BY <2>2 DEF ScanInv
<1>3. CASE StoreAccess \/ SplitItem \/ SplitLow \/ SplitHigh \/ SplitBit
  <2>1. scan' = scan /\ pc \in InStore
    BY <1>3 DEF StoreAccess, SplitItem, SplitLow, SplitHigh, SplitBit, position, InStore
  <2>2. (faults' = 0 => faults = 0) /\ (crashes' = 0 => crashes = 0)
    BY NextCounted
  <2> QED BY <2>1, <2>2 DEF ScanInv, InStore
<1>4. CASE (\E k \in Keys : Fetch(k)) \/ Refused \/ RefusedWrite \/ NextKey
  <2>1. UNCHANGED <<pag, npag, dir, position, ioerr, faults, crashes>> /\ pc' \in {"idle", "next"}
    BY <1>4 DEF Fetch, Refused, RefusedWrite, NextKey, Return, file, bounds
  <2> QED BY <2>1, FrameScan
<1>5. CASE UNCHANGED vars
  <2>1. UNCHANGED <<pag, npag, dir, position, ioerr, faults, crashes, pc>>
    BY <1>5 DEF vars, file, bounds
  <2>2. CASE pc \in {"idle", "next"}
    BY <2>1, <2>2, FrameScan
  <2>3. CASE pc \notin {"idle", "next"}
    BY <2>1, <2>3 DEF ScanInv, position
  <2> QED BY <2>2, <2>3
<1>6. CASE \E k \in Keys : Delete(k)
  BY <1>6, DeleteScan
<1> QED BY <1>1, <1>2, <1>3, <1>4, <1>5, <1>6, FirstScan, TurnScan DEF Next

\* dbm_firstkey and dbm_nextkey return no key twice and none that is not there,
\* and leave out only keys that deletions have moved, with any number of fetches
\* and deletions in between, as long as nothing is stored and no write failed and
\* no store was stopped before.
THEOREM TraversalExact ==
  ASSUME NoEmptyScan, EndApart
  PROVE  Spec /\ [](faults = 0 /\ crashes = 0) => ScanIsExact
<1>1. ASSUME BufferInv, DirInv, TypeInv, EmptyInv, PlaceInv, ScanInv,
             faults = 0 /\ crashes = 0, [Next]_vars
      PROVE  pc = "next" /\ pc' = "idle" /\ scan.clean =>
               /\ ret' \in Keys => ret' \notin ToSet(scan.seen) /\ Lookup(ret') # NoVal
               /\ ret' = "end" => \A k \in Keys \ ToSet(scan.seen) :
                                    Lookup(k) # NoVal => MayBeMissed(k)
  <2> SUFFICES ASSUME pc = "next", pc' = "idle", scan.clean
               PROVE  /\ ret' \in Keys => ret' \notin ToSet(scan.seen) /\ Lookup(ret') # NoVal
                      /\ ret' = "end" => \A k \in Keys \ ToSet(scan.seen) :
                                           Lookup(k) # NoVal => MayBeMissed(k)
    OBVIOUS
  <2>1. NextKeyStep
    BY <1>1 DEF Next, vars, Open, Close, Crash, Forget, Refused, RefusedWrite, Fetch, Delete, Store,
                StoreAccess, SplitItem, SplitLow, SplitHigh, SplitBit, FirstKey, NextKey, Ready
  <2> QED BY <1>1, <2>1, TurnIsExact
<1> QED BY <1>1, InitBuffer, NextBuffer, InitDir, NextDir, InitTypes, NextTypes,
           InitEmpty, NextEmpty, InitCounted, NextCounted, InitPlace, NextPlace,
           InitScan, NextScan, PTL
        DEF Spec, ScanIsExact
===============================================================================
