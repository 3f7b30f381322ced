--------------------------------- MODULE Ndbm ---------------------------------
(***************************************************************************)
(* The hashed data base library ndbm/ndbm.c: extendible hashing in a page  *)
(* file (.pag) and a file of bits (.dir), with one page and one directory  *)
(* block buffered in memory.                                               *)
(*                                                                         *)
(* A bit says that a page has been split.  The page of a key is found by   *)
(* taking more and more low bits of the key's hash until a bit is clear.   *)
(* dbm_store writes one page, or splits the page first: the low half, the  *)
(* high half, then the bit, three writes between which the program may     *)
(* fail or be stopped.  A page is a sequence of <<key, value>> pairs.      *)
(***************************************************************************)
EXTENDS Integers, Sequences, FiniteSets, SequencesExt

CONSTANTS
  Keys, Vals,
  NoVal,       \* no value: makdatum's NULL pointer
  Hash,        \* dcalchash of each key
  Size,        \* Size[k, v]: bytes of key and value
  PBLKSIZ,     \* bytes of a page (1024)
  DBLKBITS,    \* bits of a directory block (8192)
  MaxDepth,    \* bound: hash bits that may be looked at
  InitPages,   \* pages of the file when it is first opened
  InitBits,    \* its directory
  Modes,       \* how the data base may be opened: TRUE for reading only
  Scans,       \* whether the program calls dbm_firstkey and dbm_nextkey
  MaxFaults,   \* bound: writes that fail
  MaxCrashes   \* bound: stops of the program in the middle of an operation

Masks == {2 ^ d - 1 : d \in 0 .. MaxDepth}
Blocks == 0 .. 2 ^ MaxDepth - 1
Pair == Keys \X Vals

\* What the proofs need to know of 2 ^ d.
ASSUME PowerAssumption ==
  /\ 2 ^ 0 = 1
  /\ \A d \in 0 .. MaxDepth : 2 ^ d \in Nat \ {0} /\ 2 ^ (d + 1) = 2 * 2 ^ d

ASSUME NdbmAssumption ==
  /\ Hash \in [Keys -> Nat]
  /\ Size \in [Keys \X Vals -> Nat]
  /\ NoVal \notin Vals
  /\ PBLKSIZ \in Nat /\ PBLKSIZ > 2 /\ DBLKBITS \in Nat \ {0} /\ MaxDepth \in Nat
  /\ InitPages \in Seq(Seq(Pair)) /\ Len(InitPages) <= 2 ^ MaxDepth
  /\ InitBits \subseteq Nat
  /\ InitBits # {} => \E n \in InitBits : \A m \in InitBits : m <= n
  /\ Scans \in BOOLEAN /\ Modes \subseteq BOOLEAN
  /\ MaxFaults \in Nat /\ MaxCrashes \in Nat

VARIABLES
  pag, npag,    \* the .pag file: its blocks, and how many it has
  dir, ndir,    \* the .dir file: bits set, and how many blocks it has
  pagbno, pagbuf,           \* the buffered page and its number
  dirbno, dirbuf, maxbno,   \* the buffered directory block, the last bit
  ioerr,        \* _DBM_IOERR
  rdonly,       \* _DBM_RDONLY
  blkptr, keyptr,           \* position of dbm_nextkey
  pc,           \* where the library is
  st,           \* the store under way
  ret,          \* what the last call returned
  faults, crashes,          \* what has been used of the bounds
  before,       \* history: what lookups found when the store began (and
                \* st.leaf the mask of its page)
  scan          \* history: keys returned by the scan since dbm_firstkey, and
                \* pages that lost a pair while the scan stood on them

file == <<pag, npag, dir, ndir>>
pagebuffer == <<pagbno, pagbuf>>
dirbuffer == <<dirbno, dirbuf, maxbno>>
position == <<blkptr, keyptr, scan>>
bounds == <<faults, crashes>>
vars == <<file, pagebuffer, dirbuffer, ioerr, rdonly, position, pc, st, ret, bounds, before>>

None == -1

\* What dbm_open leaves in pagbuf, the name of the .dir file, read as a page.
Junk == <<<<"path", "path">>>>

NoStore == [key |-> None, val |-> None, replace |-> FALSE, mask |-> 0, blk |-> 0,
            i |-> 1, ovf |-> << >>, leaf |-> 0]
NoScan == [on |-> FALSE, clean |-> FALSE, seen |-> << >>, moved |-> {}]

\* A store makes a scan unclean; a deletion moves the pairs of its page.
Unclean == [scan EXCEPT !.clean = FALSE, !.seen = << >>, !.moved = {}]
MovedOn(b) == IF scan.clean /\ b = blkptr THEN [scan EXCEPT !.moved = @ \cup {b}] ELSE scan

-----------------------------------------------------------------------------
(***************************************************************************)
(* Pages.                                                                  *)
(***************************************************************************)

\* finddatum: the place of key k in page p, if it has one.
Has(p, k) == \E i \in DOMAIN p : p[i][1] = k
Place(p, k) == CHOOSE i \in DOMAIN p : p[i][1] = k /\ \A j \in 1 .. i - 1 : p[j][1] # k
Value(p, k) == IF Has(p, k) THEN p[Place(p, k)][2] ELSE NoVal

\* delitem
Without(p, i) == [j \in 1 .. Len(p) - 1 |-> IF j < i THEN p[j] ELSE p[j + 1]]

\* additem finds room: two offsets of two bytes for each pair, the count, and
\* at least one byte to spare.
Bytes(p) ==
  LET upto[n \in 0 .. Len(p)] == IF n = 0 THEN 0 ELSE upto[n - 1] + Size[p[n]] + 4
  IN  upto[Len(p)]
Room(p) == Bytes(p) + 2 < PBLKSIZ

Fits(p) == Room(p)

\* dbm_store: no page will ever hold this pair.
TooBig(k, v) == Size[<<k, v>>] + 6 >= PBLKSIZ

\* What is read from the page file: short reads leave zeros, an empty page.
OnDisk(b) == IF b < npag THEN pag[b] ELSE << >>

-----------------------------------------------------------------------------
(***************************************************************************)
(* The directory and the way to a page.                                    *)
(***************************************************************************)

Blk(k, m) == Hash[k] % (m + 1)
Bit(k, m) == Blk(k, m) + m

\* The bits of directory block b.
InBlock(bits, b) == {n \in bits : n \div DBLKBITS = b}

\* getbit, in a walk, which begins in block 0: only that block can still be the buffered
\* one; any other is read from the file, a buffered one too.
BitIsSet(n) ==
  n <= maxbno /\ IF dirbno = 0 /\ n \div DBLKBITS = 0 THEN n \in dirbuf ELSE n \in dir

\* The mask at which dbm_access stops for key k.
LeafMask(k) ==
  CHOOSE m \in Masks : /\ ~BitIsSet(Bit(k, m))
                       /\ \A l \in Masks : l < m => BitIsSet(Bit(k, l))

\* The walk stops within the bits the bounds allow.
WithinBound(k) ==
  \E m \in Masks : ~BitIsSet(Bit(k, m)) /\ \A l \in Masks : l < m => BitIsSet(Bit(k, l))

\* getbit leaves the last block it had to look at in the directory buffer.
DirWalk(k) ==
  LET looked == {Bit(k, m) : m \in {l \in Masks : l <= LeafMask(k)}} \cap 0 .. maxbno
      b == CHOOSE c \in {n \div DBLKBITS : n \in looked} :
             \A n \in looked : n \div DBLKBITS <= c
  IN IF looked = {} \/ (b = 0 /\ dirbno = 0)
     THEN UNCHANGED dirbuffer
     ELSE /\ dirbno' = b /\ dirbuf' = InBlock(dir, b)
          /\ UNCHANGED maxbno

\* (faulty form of Loaded: the buffer is taken whatever page it holds)
LoadedAnyway(b) == IF pagbno # None THEN pagbuf ELSE OnDisk(b)

\* The page dbm_access leaves in the buffer.
Loaded(b) == IF b = pagbno THEN pagbuf ELSE OnDisk(b)

\* What a program finds that opens the files as they are.
MaskIn(bits, k) ==
  CHOOSE m \in Masks : /\ Bit(k, m) \notin bits
                       /\ \A l \in Masks : l < m => Bit(k, l) \in bits
OnDiskMask(k) == MaskIn(dir, k)
Lookup(k) == Value(OnDisk(Blk(k, OnDiskMask(k))), k)
Lookups == [k \in Keys |-> Lookup(k)]

\* The files that are opened first were made by dbm_store: a bit is set only in
\* a page that its parent's bit leads to and after both halves were written, and
\* every page holds what its keys' hashes lead to, a key once.
ASSUME FileAssumption ==
  /\ \A n \in InitBits : \E d \in 0 .. MaxDepth - 1 : \E i \in 0 .. 2 ^ d - 1 :
       /\ n = i + 2 ^ d - 1
       /\ i + 2 ^ d < Len(InitPages)
       /\ d > 0 => (i % 2 ^ (d - 1)) + 2 ^ (d - 1) - 1 \in InitBits
  /\ \A b \in 1 .. Len(InitPages) :
       /\ Room(InitPages[b])
       /\ \A i \in DOMAIN InitPages[b] :
            /\ Blk(InitPages[b][i][1], MaskIn(InitBits, InitPages[b][i][1])) = b - 1
            /\ \A j \in 1 .. i - 1 : InitPages[b][j][1] # InitPages[b][i][1]
Nothing == [k \in Keys |-> NoVal]

-----------------------------------------------------------------------------
(***************************************************************************)
(* Writes.                                                                 *)
(***************************************************************************)

\* (faulty form of WritePage: no seek, the page goes to the end of the file)
WritePageAtEnd(b, p) ==
  /\ pag' = [pag EXCEPT ![npag] = p]
  /\ npag' = npag + 1
  /\ UNCHANGED <<dir, ndir>>

\* Block b becomes page p.
WritePage(b, p) ==
  /\ pag' = [pag EXCEPT ![b] = p]
  /\ npag' = IF b < npag THEN npag ELSE b + 1
  /\ UNCHANGED <<dir, ndir>>

\* A write fails, and the error flag is set.
WriteFails ==
  /\ faults < MaxFaults /\ faults' = faults + 1
  /\ ioerr' = TRUE
  /\ UNCHANGED file

WriteWorks == UNCHANGED <<ioerr, faults>>

Return(r) == pc' = "idle" /\ ret' = r

-----------------------------------------------------------------------------
Init ==
  /\ pag = [b \in Blocks |-> IF b < Len(InitPages) THEN InitPages[b + 1] ELSE << >>]
  /\ npag = Len(InitPages)
  /\ dir = InitBits
  /\ ndir = IF InitBits = {} THEN 0
            ELSE (CHOOSE n \in InitBits : \A m \in InitBits : m <= n) \div DBLKBITS + 1
  /\ pagbno = None /\ pagbuf = << >>
  /\ dirbno = None /\ dirbuf = {} /\ maxbno = None
  /\ ioerr = FALSE /\ rdonly = FALSE
  /\ blkptr = 0 /\ keyptr = 0 /\ scan = NoScan
  /\ pc = "closed" /\ st = NoStore /\ ret = "none"
  /\ faults = 0 /\ crashes = 0
  /\ before = Nothing

\* dbm_open
Open(ro) ==
  /\ pc = "closed" /\ pc' = "idle" /\ ret' = "none"
  /\ pagbno' = None /\ pagbuf' = Junk
  /\ dirbno' = None /\ dirbuf' = {}
  /\ maxbno' = ndir * DBLKBITS - 1
  /\ ioerr' = FALSE /\ rdonly' = ro
  /\ scan' = NoScan
  /\ UNCHANGED <<file, blkptr, keyptr, st, bounds, before>>

\* The handle and what it holds in memory are gone.
Forget ==
  /\ pc' = "closed" /\ st' = NoStore /\ ret' = "none"
  /\ pagbno' = None /\ pagbuf' = << >> /\ dirbno' = None /\ dirbuf' = {} /\ maxbno' = None
  /\ ioerr' = FALSE /\ rdonly' = FALSE /\ blkptr' = 0 /\ keyptr' = 0 /\ scan' = NoScan
  /\ before' = Nothing
  /\ UNCHANGED <<file, faults>>

\* dbm_close
Close == pc = "idle" /\ Forget /\ UNCHANGED crashes

\* The program is stopped in the middle of dbm_store.
Crash ==
  /\ pc \notin {"closed", "idle"}
  /\ crashes < MaxCrashes /\ crashes' = crashes + 1
  /\ Forget

\* After an error every call but dbm_close is refused.
Refused ==
  /\ pc = "idle" /\ ioerr /\ Return("fail")
  /\ UNCHANGED <<file, pagebuffer, dirbuffer, ioerr, position, st, bounds, before, rdonly>>

Ready == pc = "idle" /\ ~ioerr

\* dbm_store and dbm_delete with a handle that only reads.
RefusedWrite ==
  /\ Ready /\ rdonly /\ Return("fail")
  /\ UNCHANGED <<file, pagebuffer, dirbuffer, ioerr, rdonly, position, st, bounds, before>>

\* dbm_fetch
Fetch(k) ==
  /\ Ready /\ WithinBound(k)
  /\ LET b == Blk(k, LeafMask(k)) IN
       /\ DirWalk(k)
       /\ pagbno' = b /\ pagbuf' = Loaded(b)
       /\ Return(Value(Loaded(b), k))
  /\ UNCHANGED <<file, ioerr, position, st, bounds, before, rdonly>>

\* (faulty form of Delete: the page is not written back)
DeleteInBuffer(k) ==
  /\ Ready /\ ~rdonly /\ WithinBound(k)
  /\ LET b == Blk(k, LeafMask(k))
         p == Loaded(b)
     IN /\ DirWalk(k)
        /\ pagbno' = b
        /\ pagbuf' = IF Has(p, k) THEN Without(p, Place(p, k)) ELSE p
        /\ Return(IF Has(p, k) THEN "ok" ELSE "fail")
  /\ UNCHANGED <<file, ioerr, position, st, bounds, before, rdonly>>

\* dbm_delete
Delete(k) ==
  /\ Ready /\ ~rdonly /\ WithinBound(k)
  /\ LET b == Blk(k, LeafMask(k))
         p == Loaded(b)
         rest == Without(p, Place(p, k))
     IN /\ DirWalk(k)
        /\ pagbno' = b
        /\ \/ /\ ~Has(p, k)
              /\ pagbuf' = p /\ Return("fail")
              /\ UNCHANGED <<file, faults, ioerr, scan>>
           \/ /\ Has(p, k)
              /\ pagbuf' = rest /\ scan' = MovedOn(b)
              /\ \/ WritePage(b, rest) /\ WriteWorks /\ Return("ok")
                 \/ WriteFails /\ Return("fail")
  /\ UNCHANGED <<blkptr, keyptr, st, crashes, before, rdonly>>

\* dbm_store is called.
Store(k, v, replace) ==
  /\ Ready /\ ~rdonly
  /\ pc' = "access"
  /\ st' = [NoStore EXCEPT !.key = k, !.val = v, !.replace = replace,
                              !.leaf = OnDiskMask(k)]
  /\ before' = Lookups
  /\ scan' = Unclean
  /\ UNCHANGED <<file, pagebuffer, dirbuffer, ioerr, blkptr, keyptr, ret, bounds, rdonly>>

StoreDone(r) == Return(r) /\ st' = NoStore /\ before' = Nothing

\* From "loop" to the write of the page or to "split".
StoreAccess ==
  /\ pc = "access" /\ WithinBound(st.key)
  /\ LET m == LeafMask(st.key)
         b == Blk(st.key, m)
         p == Loaded(b)
         rest == IF Has(p, st.key) THEN Without(p, Place(p, st.key)) ELSE p
         more == Append(rest, <<st.key, st.val>>)
     IN /\ DirWalk(st.key)
        /\ pagbno' = b
        /\ \/ /\ Has(p, st.key) /\ ~st.replace
              /\ pagbuf' = p /\ StoreDone("exists")
              /\ UNCHANGED <<file, faults, ioerr>>
           \/ /\ Has(p, st.key) => st.replace
              /\ Fits(more)
              /\ pagbuf' = more
              /\ \/ WritePage(b, more) /\ WriteWorks /\ StoreDone("ok")
                 \/ WriteFails /\ StoreDone("fail")
           \/ /\ Has(p, st.key) => st.replace
              /\ ~Fits(more) /\ TooBig(st.key, st.val)
              /\ pagbuf' = rest /\ ioerr' = TRUE /\ StoreDone("fail")
              /\ UNCHANGED <<file, faults>>
           \/ /\ Has(p, st.key) => st.replace
              /\ ~Fits(more) /\ ~TooBig(st.key, st.val)
              /\ pagbuf' = rest /\ pc' = "split"
              /\ st' = [st EXCEPT !.mask = m, !.blk = b, !.i = 1, !.ovf = << >>]
              /\ UNCHANGED <<file, ret, faults, ioerr, before>>
  /\ UNCHANGED <<position, crashes, rdonly>>

\* (faulty form of SplitItem: the pair that moves into the freed place is skipped)
SplitItemSkips ==
  /\ pc = "split" /\ st.i <= Len(pagbuf)
  /\ IF Hash[pagbuf[st.i][1]] % (2 * (st.mask + 1)) > st.mask
     THEN /\ st' = [st EXCEPT !.ovf = Append(@, pagbuf[st.i]), !.i = @ + 1]
          /\ pagbuf' = Without(pagbuf, st.i)
     ELSE st' = [st EXCEPT !.i = @ + 1] /\ UNCHANGED pagbuf
  /\ UNCHANGED <<file, pagbno, dirbuffer, ioerr, position, pc, ret, bounds, before, rdonly>>

\* One turn of the loop over the page: a pair whose next hash bit is set moves.
SplitItem ==
  /\ pc = "split" /\ st.i <= Len(pagbuf)
  /\ IF Hash[pagbuf[st.i][1]] % (2 * (st.mask + 1)) > st.mask
     THEN /\ st' = [st EXCEPT !.ovf = Append(@, pagbuf[st.i])]
          /\ pagbuf' = Without(pagbuf, st.i)
     ELSE st' = [st EXCEPT !.i = @ + 1] /\ UNCHANGED pagbuf
  /\ UNCHANGED <<file, pagbno, dirbuffer, ioerr, position, pc, ret, bounds, before, rdonly>>

\* The low half is written in place.
SplitLow ==
  /\ pc = "split" /\ st.i > Len(pagbuf)
  /\ \/ WritePage(st.blk, pagbuf) /\ WriteWorks /\ pc' = "high" /\ UNCHANGED <<st, ret, before>>
     \/ WriteFails /\ StoreDone("fail")
  /\ pagbno' = st.blk
  /\ UNCHANGED <<pagbuf, dirbuffer, position, crashes, rdonly>>

High == st.blk + st.mask + 1

\* (faulty form of SplitHigh: an empty high half is not written)
SplitHighLazy ==
  /\ pc = "high" /\ pc' = "bit"
  /\ IF st.ovf = << >> THEN UNCHANGED file ELSE WritePage(High, st.ovf)
  /\ WriteWorks
  /\ UNCHANGED <<pagebuffer, dirbuffer, position, st, ret, crashes, before, rdonly>>

\* The high half is written, also when it is empty: the block may hold what a
\* stopped split left there.
SplitHigh ==
  /\ pc = "high" /\ High \in Blocks
  /\ \/ /\ WritePage(High, st.ovf) /\ WriteWorks
        /\ pc' = "bit" /\ UNCHANGED <<st, ret, before>>
     \/ WriteFails /\ StoreDone("fail")
  /\ UNCHANGED <<pagebuffer, dirbuffer, position, crashes, rdonly>>

\* (faulty form of SplitBit: the last bit is not remembered)
SplitBitNoMax ==
  /\ pc = "bit" /\ pc' = "access"
  /\ LET n == st.blk + st.mask
         b == n \div DBLKBITS
         bits == (IF b = dirbno THEN dirbuf ELSE InBlock(dir, b)) \cup {n}
     IN /\ dirbno' = b /\ dirbuf' = bits /\ dir' = dir \cup bits
        /\ ndir' = IF b < ndir THEN ndir ELSE b + 1
  /\ WriteWorks
  /\ UNCHANGED <<pag, npag, maxbno, pagebuffer, position, st, ret, crashes, before, rdonly>>

\* setbit; and back to "loop", also when the bit could not be written.
SplitBit ==
  /\ pc = "bit" /\ pc' = "access"
  /\ LET n == st.blk + st.mask
         b == n \div DBLKBITS
         bits == (IF b = dirbno THEN dirbuf ELSE InBlock(dir, b)) \cup {n}
     IN /\ maxbno' = IF n > maxbno THEN n ELSE maxbno
        /\ dirbno' = b /\ dirbuf' = bits
        /\ \/ /\ dir' = (dir \ InBlock(dir, b)) \cup bits
              /\ ndir' = IF b < ndir THEN ndir ELSE b + 1
              /\ WriteWorks /\ UNCHANGED <<pag, npag>>
           \/ WriteFails
  /\ UNCHANGED <<pagebuffer, position, st, ret, crashes, before, rdonly>>

\* dbm_firstkey, and dbm_nextkey while the scan has not ended.
FirstKey ==
  /\ Scans /\ Ready /\ pc' = "next"
  /\ blkptr' = 0 /\ keyptr' = 0
  /\ scan' = [NoScan EXCEPT !.on = TRUE, !.clean = TRUE]
  /\ UNCHANGED <<file, pagebuffer, dirbuffer, ioerr, st, ret, bounds, before, rdonly>>

NextKey ==
  /\ Ready /\ scan.on /\ pc' = "next"
  /\ UNCHANGED <<file, pagebuffer, dirbuffer, ioerr, position, st, ret, bounds, before, rdonly>>

\* (faulty form of NextKeyStep: a block in the buffer has been dealt with)
NextKeyStepBuffered ==
  /\ pc = "next"
  /\ LET p == OnDisk(blkptr) IN
       \/ /\ blkptr >= npag
          /\ scan' = NoScan /\ Return("end")
          /\ UNCHANGED <<blkptr, keyptr, pagebuffer>>
       \/ /\ blkptr < npag /\ blkptr # pagbno /\ keyptr < Len(p)
          /\ pagbno' = blkptr /\ pagbuf' = p
          /\ keyptr' = keyptr + 1
          /\ scan' = [scan EXCEPT !.seen = IF scan.clean THEN Append(@, p[keyptr + 1][1]) ELSE @]
          /\ Return(p[keyptr + 1][1])
          /\ UNCHANGED blkptr
       \/ /\ blkptr < npag /\ (blkptr = pagbno \/ keyptr >= Len(p))
          /\ blkptr' = blkptr + 1 /\ keyptr' = 0
          /\ UNCHANGED <<pc, ret, scan, pagebuffer>>
  /\ UNCHANGED <<file, dirbuffer, ioerr, st, bounds, before, rdonly>>

\* One turn of dbm_nextkey's loop.  At the end of the file the buffer gets the
\* number of a block that was not read; and leaving an empty page does not
\* reset keyptr.
NextKeyStep ==
  /\ pc = "next"
  /\ LET load == blkptr # pagbno
         p == IF load THEN OnDisk(blkptr) ELSE pagbuf
     IN /\ pagbno' = blkptr
        /\ \/ /\ load /\ blkptr >= npag
              /\ scan' = NoScan /\ Return("end")
              /\ UNCHANGED <<blkptr, keyptr, pagbuf>>
           \/ /\ ~(load /\ blkptr >= npag) /\ keyptr < Len(p)
              /\ pagbuf' = p /\ keyptr' = keyptr + 1
              /\ scan' = [scan EXCEPT !.seen = IF scan.clean THEN Append(@, p[keyptr + 1][1]) ELSE @]
              /\ Return(p[keyptr + 1][1])
              /\ UNCHANGED blkptr
           \/ /\ ~(load /\ blkptr >= npag) /\ keyptr >= Len(p)
              /\ pagbuf' = p /\ blkptr' = blkptr + 1
              /\ keyptr' = IF p = << >> THEN keyptr ELSE 0
              /\ UNCHANGED <<pc, ret, scan>>
  /\ UNCHANGED <<file, dirbuffer, ioerr, st, bounds, before, rdonly>>

-----------------------------------------------------------------------------
Next ==
  \/ Close \/ Crash \/ Refused \/ RefusedWrite
  \/ \E ro \in Modes : Open(ro)
  \/ \E k \in Keys : Fetch(k) \/ Delete(k)
  \/ \E k \in Keys, v \in Vals, r \in BOOLEAN : Store(k, v, r)
  \/ StoreAccess \/ SplitItem \/ SplitLow \/ SplitHigh \/ SplitBit
  \/ FirstKey \/ NextKey \/ NextKeyStep

Spec == Init /\ [][Next]_vars

-----------------------------------------------------------------------------
(***************************************************************************)
(* Properties.                                                             *)
(***************************************************************************)

TypeOK ==
  /\ pag \in [Blocks -> Seq(Pair)] /\ npag \in 0 .. Cardinality(Blocks)
  /\ dir \subseteq Nat /\ ndir \in Nat
  /\ pagbno \in Blocks \cup {None, Cardinality(Blocks)}
  /\ pagbuf \in Seq(Pair) \cup {Junk}
  /\ dirbno \in Nat \cup {None} /\ dirbuf \subseteq Nat /\ maxbno \in Nat \cup {None}
  /\ ioerr \in BOOLEAN /\ rdonly \in BOOLEAN
  /\ blkptr \in 0 .. Cardinality(Blocks) /\ keyptr \in Nat
  /\ pc \in {"closed", "idle", "access", "split", "high", "bit", "next"}

\* Where the library rests without an error, the buffered page is the page of
\* the file: no lookup is answered from a page that was since rewritten, and
\* no write carries an old page back (dbm_pagbno).
BufferIsPage ==
  pc = "idle" /\ ~ioerr /\ pagbno \in Blocks /\ pagbno < npag => pagbuf = pag[pagbno]

\* Every bit in use is one the buffer and the file agree on.
DirectoryAgrees ==
  pc # "closed" /\ ~ioerr => \A n \in 0 .. 2 * Cardinality(Blocks) :
    (n <= maxbno /\ IF n \div DBLKBITS = dirbno THEN n \in dirbuf ELSE n \in dir) <=> n \in dir

\* Both halves of a split fit, so that the error returns for a half that does not
\* (and the message "split not paired") are never reached.
HalvesFit == Room(st.ovf) /\ (pagbuf # Junk => Room(pagbuf))

\* Every pair lies on the page its hash leads to, so no key is out of reach and
\* none has two values; and while pairs are moved each half of a split fits.
PairsInPlace ==
  /\ HalvesFit
  /\ pc \in {"closed", "idle"} => \A b \in 0 .. npag - 1 : \A i \in DOMAIN pag[b] :
       /\ Blk(pag[b][i][1], OnDiskMask(pag[b][i][1])) = b
       /\ \A j \in 1 .. i - 1 : pag[b][j][1] # pag[b][i][1]

\* The data base is a map: INSERT, REPLACE, delete, fetch, close and reopen do
\* what they do to a map, across splits.
Map == INSTANCE NdbmMap WITH
  map <- IF pc \in {"closed", "idle", "next"} THEN Lookups ELSE before,
  ret <- IF pc # "idle" \/ ret \in Keys \cup {"end"} THEN "none" ELSE ret,
  bad <- ioerr,
  ro <- rdonly
IsMap == Map!Spec

\* When the store began, key k and the key stored led to the same page.
InSplit(k) == Blk(k, st.leaf) = Blk(st.key, st.leaf)

\* However a store ends - done, refused or stopped between its writes, now or
\* on an earlier page, no write having failed - it touches no key of another
\* page, and turns no value into another or a deleted one into a value: a key
\* of the page being split is found as before, or not at all.
DamageIsLocal ==
  [][faults = 0 /\ faults' = 0 /\ st # NoStore /\ st' = NoStore /\ pc' \in {"idle", "closed"} =>
       \A k \in Keys \ {st.key} :
         Lookup(k)' = before[k] \/ (Lookup(k)' = NoVal /\ InSplit(k))]_vars

\* A key that a scan may pass over: a deletion moved the pairs of its page under
\* the scan, or emptied the last page before it that was not empty (leaving an
\* empty page, dbm_nextkey does not reset dbm_keyptr).
MayBeMissed(k) ==
  LET b == Blk(k, OnDiskMask(k)) IN
    \E c \in scan.moved : c <= b /\ \A d \in c .. b - 1 : OnDisk(d) = << >>

\* A scan returns no key twice and none that is not there, and it misses only
\* such keys, with any fetches and deletions in between ("keydb list" fetches
\* each key); so a scan without deletions is exact.  Nothing is said of a scan
\* during which something is stored.
ScanIsExact ==
  [][pc = "next" /\ pc' = "idle" /\ scan.clean =>
       /\ ret' \in Keys => ret' \notin ToSet(scan.seen) /\ Lookup(ret') # NoVal
       /\ ret' = "end" => \A k \in Keys \ ToSet(scan.seen) :
                            Lookup(k) # NoVal => MayBeMissed(k)]_vars

===============================================================================
