----------------------------- MODULE LbrLibrary -----------------------------
(***************************************************************************)
(* lbr/lu86.c: a library, a file whose first sectors are its directory,    *)
(* under update, delete and reorganisation, and lbr/delbr.c, which takes   *)
(* it apart.  A command reads what it needs, and its writes then reach the *)
(* disk one sector, one removal or one renaming at a time; it may stop     *)
(* between any two of them, at a failing write or with the machine, and    *)
(* what a buffer still holds may be lost where the flush is not checked.   *)
(***************************************************************************)
EXTENDS Integers, Sequences, FiniteSets, FiniteSetsExt, SequencesExt

CONSTANTS
  Names,        \* the files there are: sequences of characters with a "."
  STEM, EXT,    \* the characters of a name and of its type in the directory; the code has 8 and 3
  Size,         \* Size[name][version], in sectors
  Slots,        \* the values of -n, 0 for none
  SLOTS_SEC,    \* the entries of a sector of the directory
  MAXFILES,     \* the entries there is room for; -n takes no more
  MAXDIRENT,    \* the files delbr takes out
  Lists,        \* the lists of names on the command line, which may have "*" and "?"
  MaxCommands   \* how many commands run

VARIABLES
  disk,      \* the sectors of "lib" and "tmp", <<>> of one that is empty
  there,     \* which of the two exist
  host,      \* the version of each file on the disk
  cmd,       \* the writes to come, the names they may change, the errors
  before,    \* what the library held when the command began
  count,     \* the commands so far
  harm       \* "flush": a buffer was lost unnoticed; "entry": the directory's own entry is deleted
lbrvars == <<disk, there, host, cmd, before, count, harm>>

(* Names.  tofcb: the form of a name, or of a pattern, in the directory.    *)
Blanks(n) == [i \in 1 .. n |-> " "]
Filled(s, n) ==
  LET star == {i \in DOMAIN s : s[i] = "*"}
      all  == IF star = {} THEN s \o Blanks(n)
              ELSE SubSeq(s, 1, Min(star) - 1) \o [i \in 1 .. n |-> "?"]
  IN SubSeq(all, 1, n)
Stem(name) == SelectInSeq(name, LAMBDA c : c = ".") - 1
Tofcb(name) ==
  IF Stem(name) < 0 THEN Filled(name, STEM) \o Blanks(EXT)
  ELSE Filled(SubSeq(name, 1, Stem(name)), STEM) \o Filled(SubSeq(name, Stem(name) + 2, Len(name)), EXT)
Match(name, pat) ==
  LET nf == Tofcb(name)
      pf == Tofcb(pat)
  IN \A i \in 1 .. STEM + EXT : pf[i] = "?" \/ pf[i] = nf[i]
Wild(pat) == \E i \in DOMAIN pat : pat[i] \in {"*", "?"}
Trim(s) == SelectSeq(s, LAMBDA c : c # " ")
Getname(fcb) == Trim(SubSeq(fcb, 1, STEM)) \o <<".">> \o Trim(SubSeq(fcb, STEM + 1, STEM + EXT))
\* putname goes to the type at the ".": what the entry held behind a short name stays.
Putname(old, name) ==
  [i \in 1 .. STEM + EXT |->
     LET new == IF i <= STEM THEN IF i <= Stem(name) THEN name[i] ELSE old[i]
                ELSE IF Stem(name) + 1 + i - STEM <= Len(name) THEN name[Stem(name) + 1 + i - STEM] ELSE " "
     IN new]

\* name: as the directory has it; the entry of the directory itself has blanks.
Entry(stat, name, off, len) == [stat |-> stat, name |-> name, off |-> off, len |-> len]
Unused == Entry("unused", Blanks(STEM + EXT), 0, 0)
Data(name, ver) == [k \in 1 .. Size[name][ver] |-> [dir |-> <<>>, name |-> name, ver |-> ver, k |-> k]]
DirSector(entries) == [dir |-> entries, name |-> <<>>, ver |-> 0, k |-> 0]

(* getdir and putdir: entries from and to the first sectors.               *)
Readable(s) == s # <<>> /\ s[1].dir # <<>> /\ Len(s) >= s[1].dir[1].len /\
               \A i \in 1 .. s[1].dir[1].len : s[i].dir # <<>>
Getdir(s) == FlattenSeq([i \in 1 .. s[1].dir[1].len |-> s[i].dir])
Sectors(ldir) == [i \in 1 .. Len(ldir) \div SLOTS_SEC |->
                    DirSector(SubSeq(ldir, (i - 1) * SLOTS_SEC + 1, i * SLOTS_SEC))]
\* behind: how many sectors are written after this one before the next seek, rewind or close.
Write(file, at, sector, behind) == [op |-> "write", file |-> file, at |-> at, sector |-> sector, behind |-> behind]
Writes(file, off, sectors) == [i \in DOMAIN sectors |-> Write(file, off + i, sectors[i], Len(sectors) - i)]
Putdir(file, ldir) == Writes(file, 0, Sectors(ldir))

Initdir(n) ==
  LET numsecs == (n + 1 + SLOTS_SEC - 1) \div SLOTS_SEC
  IN [i \in 1 .. numsecs * SLOTS_SEC |-> IF i = 1 THEN Entry("active", Blanks(STEM + EXT), 0, numsecs) ELSE Unused]

Active(ldir) == {i \in DOMAIN ldir : ldir[i].stat = "active"}
Libend(ldir) == Max({0} \cup {ldir[i].off + ldir[i].len : i \in Active(ldir)})

(* getfiles: the members a list asks for, each written to its name.        *)
\* A sector behind the end of the library is nothing's, as one nobody wrote.
Gap == DirSector(<<>>)
Read(s, e) == [k \in 1 .. e.len |-> IF e.off + k <= Len(s) THEN s[e.off + k] ELSE Gap]
Extracted(s) ==
  IF ~Readable(s) THEN [x \in {} |-> <<>>]
  ELSE LET ldir == Getdir(s)
           at(x) == {i \in Active(ldir) \ {1} : Getname(ldir[i].name) = x}
       IN [x \in {Getname(ldir[i].name) : i \in Active(ldir) \ {1}} |-> Read(s, ldir[Max(at(x))])]
\* delbr: getldir takes the first MAXDIRENT members, and main writes them.
Getldir(s) ==
  LET ldir == Getdir(s)
      live == SelectSeq([i \in 1 .. Len(ldir) - 1 |-> ldir[i + 1]], LAMBDA e : e.stat = "active")
  IN SubSeq(live, 1, Min({MAXDIRENT, Len(live)}))
Delbr(s) ==
  LET got == Getldir(s)
  IN [x \in {Getname(got[i].name) : i \in DOMAIN got} |->
        Read(s, got[Max({i \in DOMAIN got : Getname(got[i].name) = x})])]

(* addfil: the first entry that is free or has the name.  st: the entries, *)
(* the end of the library, the errors, and the writes so far.              *)
Addfil(st, name) ==
  LET fits == {i \in DOMAIN st.ldir \ {1} : st.ldir[i].stat # "active" \/ Match(Getname(st.ldir[i].name), name)}
      size == Size[name][host[name]]
  IN IF name \notin Names \/ host[name] = 0 \/ fits = {} THEN [st EXCEPT !.err = @ + 1]
     ELSE [st EXCEPT !.ldir[Min(fits)] = Entry("active", Putname(@.name, name), st.endsec, size),
                     !.todo = @ \o Writes("lib", st.endsec, Data(name, host[name])),
                     !.endsec = @ + size]

\* A pattern stands for the files that match it, and is an error if there are none.
Expand(list) ==
  FlattenSeq([i \in DOMAIN list |-> IF ~Wild(list[i]) THEN <<list[i]>>
                                   ELSE LET all == {x \in Names : host[x] > 0 /\ Match(x, list[i])}
                                        IN IF all = {} THEN <<list[i]>> ELSE SetToSeq(all)])

\* The command that is running, with nothing to do when there is none.
Idle == [op |-> "none", args |-> {}, todo |-> <<>>, err |-> 0]
Ready == cmd.todo = <<>> /\ count < MaxCommands
Begin(op, args, todo, err) ==
  /\ cmd' = [op |-> op, args |-> args, todo |-> todo, err |-> err]
  /\ before' = Extracted(disk["lib"])
  /\ count' = count + 1
  /\ harm' = IF op = "delete" /\ err = 0 /\ todo[1].sector.dir[1].stat = "deleted" THEN harm \cup {"entry"} ELSE harm
  /\ UNCHANGED host

DirLast(st) == IF st.err = 0 THEN st.todo \o Putdir("lib", st.ldir) ELSE st.todo
\* update: a library that is not there is made first, which takes -n.
Update(list, n) ==
  LET old  == "lib" \in there
      ldir == IF old THEN Getdir(disk["lib"]) ELSE Initdir(n)
      st   == FoldLeft(Addfil, [ldir |-> ldir, endsec |-> Libend(ldir), err |-> 0, todo |-> <<>>], Expand(list))
  IN /\ Ready
     /\ there' = there \cup {"lib"}
     /\ disk' = IF old THEN disk ELSE [disk EXCEPT !["lib"] = <<>>]
     /\ IF (old /\ ~Readable(disk["lib"])) \/ (~old /\ n = 0) THEN Begin("update", {}, <<>>, 1)
        ELSE Begin("update", ToSet(Expand(list)), (IF old THEN <<>> ELSE Putdir("lib", ldir)) \o DirLast(st), st.err)

(* delete: every entry whose name matches, the directory's too, and those  *)
(* deleted before; nothing at all if a name of the list matches none.      *)
Delete(list) ==
  LET ldir == Getdir(disk["lib"])
      \* filarg: the first of the list that matches is the one that is touched
      hits(i)  == {k \in DOMAIN list : Match(Getname(ldir[i].name), list[k])}
      touched  == {Min(hits(i)) : i \in {i \in DOMAIN ldir : hits(i) # {}}}
      err      == Len(list) - Cardinality(touched)
      new      == [i \in DOMAIN ldir |-> IF hits(i) # {} THEN [ldir[i] EXCEPT !.stat = "deleted"] ELSE ldir[i]]
  IN /\ Ready
     /\ "lib" \in there
     /\ UNCHANGED <<disk, there>>
     /\ IF ~Readable(disk["lib"]) THEN Begin("delete", {}, <<>>, 1)
        ELSE Begin("delete", {x \in Names : \E k \in DOMAIN list : Match(x, list[k])},
                   IF err = 0 THEN Putdir("lib", new) ELSE <<>>, err)

(* reorg: the active entries and their sectors to a new library, which     *)
(* then takes the place of the old.  An entry whose sectors are not all    *)
(* there ends the program.                                                 *)
Copyentry(st, e) ==
  IF st.short \/ st.j > Len(st.ldir) THEN [st EXCEPT !.err = 1]
  ELSE LET there_are == Min({e.len, Max({0, Len(disk["lib"]) - e.off})})
       IN [st EXCEPT !.ldir[st.j] = Entry("active", e.name, st.endsec, e.len),
                     !.todo = @ \o Writes("tmp", st.endsec, SubSeq(disk["lib"], e.off + 1, e.off + there_are)),
                     !.endsec = @ + e.len, !.j = @ + 1, !.short = there_are < e.len]
Op(op, file) == [op |-> op, file |-> file, at |-> 0, sector |-> <<>>, behind |-> 0]
SwapTidy == <<Op("unlink", "lib"), Op("unlink", "tmp"), Op("rename", "tmp")>>
Swap == <<Op("unlink", "lib"), Op("rename", "tmp"), Op("unlink", "tmp")>>
Reorg(n) ==
  LET odir == Getdir(disk["lib"])
      ldir == Initdir(n)
      live == SelectSeq([i \in 1 .. Len(odir) - 1 |-> odir[i + 1]], LAMBDA e : e.stat = "active")
      st   == FoldLeft(Copyentry, [ldir |-> ldir, j |-> 2, endsec |-> Libend(ldir), err |-> 0, todo |-> <<>>, short |-> FALSE], live)
  IN /\ Ready
     /\ "lib" \in there
     /\ there' = there \cup {"tmp"}
     /\ disk' = [disk EXCEPT !["tmp"] = <<>>]
     /\ IF n = 0 \/ ~Readable(disk["lib"]) THEN Begin("reorg", {}, <<>>, 1)
        ELSE Begin("reorg", {}, Putdir("tmp", ldir) \o st.todo \o
                     (IF st.short THEN <<>>
                      ELSE Putdir("tmp", st.ldir) \o IF st.err = 0 THEN Swap ELSE <<Op("unlink", "tmp")>>), st.err)

(* The disk: a write past the end leaves what it skips unwritten.  stdio    *)
(* holds sectors back: they are written in order, each at the latest where *)
(* its run ends.  At fseek, rewind and fclose nobody looks whether they    *)
(* were, and what was still held is lost; the command goes on.             *)
Put(s, at, sector) == [i \in 1 .. Max({Len(s), at}) |->
                         IF i = at THEN sector ELSE IF i <= Len(s) THEN s[i] ELSE Gap]
Done(rest) == cmd' = (IF rest = <<>> THEN [cmd EXCEPT !.op = "none", !.todo = <<>>] ELSE [cmd EXCEPT !.todo = rest])
WriteSector ==
  /\ cmd.todo # <<>> /\ Head(cmd.todo).op = "write"
  /\ LET w == Head(cmd.todo) IN disk' = [disk EXCEPT ![w.file] = Put(@, w.at, w.sector)]
  /\ Done(Tail(cmd.todo))
  /\ UNCHANGED <<there, host, before, count, harm>>
FlushFails ==
  /\ cmd.todo # <<>> /\ Head(cmd.todo).op = "write"
  /\ Done(SubSeq(cmd.todo, Head(cmd.todo).behind + 2, Len(cmd.todo)))
  /\ harm' = harm \cup {"flush"}
  /\ UNCHANGED <<disk, there, host, before, count>>
Unlink ==
  /\ cmd.todo # <<>> /\ Head(cmd.todo).op = "unlink"
  /\ disk' = [disk EXCEPT ![Head(cmd.todo).file] = <<>>]
  /\ there' = there \ {Head(cmd.todo).file}
  /\ Done(Tail(cmd.todo))
  /\ UNCHANGED <<host, before, count, harm>>
Rename ==
  /\ cmd.todo # <<>> /\ Head(cmd.todo).op = "rename"
  /\ disk' = [disk EXCEPT !["lib"] = disk["tmp"], !["tmp"] = <<>>]
  /\ there' = (there \ {"tmp"}) \cup {"lib"}
  /\ Done(Tail(cmd.todo))
  /\ UNCHANGED <<host, before, count, harm>>
\* The removal of the old library fails, or the renaming, which ends the program: the new one is removed.
SwapFails ==
  /\ cmd.todo # <<>> /\ Tail(cmd.todo) # <<>>
  /\ Head(cmd.todo).op = "rename" \/ Head(cmd.todo) = Op("unlink", "lib")
  /\ disk' = [disk EXCEPT !["tmp"] = <<>>]
  /\ there' = there \ {"tmp"}
  /\ cmd' = [cmd EXCEPT !.todo = <<>>, !.op = IF Head(cmd.todo).op = "rename" THEN "rename failed" ELSE "stopped"]
  /\ UNCHANGED <<host, before, count, harm>>
\* error, where fwrite itself fails, or a crash: nothing more is written.
Stop ==
  /\ cmd.todo # <<>>
  /\ cmd' = [cmd EXCEPT !.todo = <<>>, !.op = "stopped"]
  /\ UNCHANGED <<disk, there, host, before, count, harm>>
\* Between two commands a file changes.
Edit(name) ==
  /\ Ready
  /\ host[name] < Len(Size[name])
  /\ host' = [host EXCEPT ![name] = @ + 1]
  /\ UNCHANGED <<disk, there, cmd, before, count, harm>>

LbrInit ==
  /\ disk = [f \in {"lib", "tmp"} |-> <<>>]
  /\ there = {}
  /\ host \in [Names -> 0 .. 1]
  /\ cmd = Idle
  /\ before = [x \in {} |-> <<>>]
  /\ count = 0
  /\ harm = {}
LbrNext ==
  \/ \E list \in Lists, n \in Slots : Update(list, n)
  \/ \E list \in Lists : Delete(list)
  \/ \E n \in Slots : Reorg(n)
  \/ WriteSector
  \/ FlushFails
  \/ Unlink
  \/ Rename
  \/ SwapFails
  \/ Stop
  \/ \E name \in Names : Edit(name)
LbrSpec == LbrInit /\ [][LbrNext]_lbrvars

-----------------------------------------------------------------------------
(* Whenever a command stops, every member of the library that the          *)
(* directory on the disk shows is a whole version of its file, unless a    *)
(* buffer was lost unnoticed or the directory's own entry is deleted:      *)
(* libend then finds the end of the library inside it.                     *)
EntriesWhole ==
  LET held == Extracted(disk["lib"])
  IN harm = {} => \A x \in DOMAIN held : x \in Names /\ \E v \in 1 .. Len(Size[x]) : held[x] = Data(x, v)

(* What the library held when a command began, but for the names the       *)
(* command is about, can be read from it, or from the new library of a     *)
(* reorganisation, wherever the command stops: all but a renaming that     *)
(* fails, after which lu86.c:901 has removed both, and the two harms.      *)
NothingLost ==
  LET lib == Extracted(disk["lib"])
      tmp == Extracted(disk["tmp"])
      holds(f, x) == x \in DOMAIN f /\ f[x] = before[x]
  IN harm = {} /\ cmd.op # "rename failed" =>
       \A x \in DOMAIN before \ cmd.args : holds(lib, x) \/ ("lib" \notin there /\ holds(tmp, x))

(* After "library not changed", "library not updated" the members are as   *)
(* they were: the sectors an update has written then are not part of it.   *)
(* A lost buffer changes nothing here; a deleted directory entry does.     *)
NotChanged == "entry" \notin harm /\ cmd.err > 0 /\ "lib" \in there => Extracted(disk["lib"]) = before

(* delbr takes out of any library what lu86 e does, whatever became of it. *)
DelbrAgrees == Readable(disk["lib"]) => Delbr(disk["lib"]) = Extracted(disk["lib"])
=============================================================================
