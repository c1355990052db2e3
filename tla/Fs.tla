--------------------------------- MODULE Fs ----------------------------------
(***************************************************************************)
(* Inodes, directories, path names, the file table and the system calls    *)
(* over them (fs.c, file.c, sysfile.c), with several processes.            *)
(*                                                                         *)
(* Fs says what a step of a system call does to the inode cache, the       *)
(* inodes on disk and the locks.  A step is a critical section of          *)
(* icache.lock or ftable.lock, or what a process does between two waits    *)
(* for a sleep lock; waiting for a lock is a guard (SleepLock models the   *)
(* wakeups).  iupdate follows every change of a locked inode, so a valid   *)
(* cache entry agrees with the disk and one copy is kept.  An entry of the *)
(* cache is named by its inode number: iget never makes a second one.      *)
(* Transactions are the subject of Log, blocks of BlockMap.                *)
(***************************************************************************)
EXTENDS Integers, Sequences, FiniteSets

CONSTANTS
  Procs, None,
  initproc,    \* the first process, which never exits
  NINODES,     \* inodes on disk
  NOFILE,
  Names,       \* of directory entries, without "." and ".."
  Workloads,   \* [paths, ops, NFILE]: the system calls on paths, [op, path, new],
               \* that each process makes, the other ones that they all make,
               \* and the size of the file table
  MaxSize      \* the largest size of a file, in blocks

ROOTINO == 1
Inums == 1 .. NINODES
Fds == 0 .. NOFILE - 1

ASSUME FsAssumption ==
  /\ NINODES \in Nat \ {0} /\ NOFILE \in Nat /\ MaxSize \in Nat
  /\ None \notin Procs /\ initproc \in Procs

VARIABLES
  dinode,      \* the inodes: type, nlink, size and directory entries
  ref, valid,  \* of the inode cache
  owner,       \* who holds ip->lock
  file,        \* ftable
  ofile, cwd,  \* of struct proc
  st,          \* where each process is, and its local variables
  calls        \* the workload of this behaviour

vars == <<dinode, ref, valid, owner, file, ofile, cwd, st, calls>>

Files == 1 .. calls.NFILE
Least(S) == CHOOSE x \in S : \A y \in S : x <= y
FreeInode == [type |-> "free", nlink |-> 0, size |-> 0, ents |-> [n \in Names |-> 0], dotdot |-> 0]
NoFile == [ref |-> 0, ip |-> 0, off |-> 0]    \* ip = 0 in the ends of a pipe

\* A process in user mode; the locals of a system call are: the rest of the
\* path of namex and w, its inode; ip and dp as in the code; puts, the inodes
\* to iput before the call goes on at next; ends, the files of a new pipe.
User == [pc |-> "user", op |-> "", path |-> <<>>, new |-> <<>>, w |-> 0, ip |-> 0, dp |-> 0,
         puts |-> <<>>, next |-> "user", ends |-> {}]

\* mkfs's root directory, and the first process in it.
Init ==
  /\ calls \in Workloads
  /\ dinode = [i \in Inums |-> IF i = ROOTINO THEN [FreeInode EXCEPT !.type = "T_DIR", !.nlink = 1,
                                                                   !.dotdot = ROOTINO]
                                              ELSE FreeInode]
  /\ cwd = [p \in Procs |-> IF p = initproc THEN ROOTINO ELSE 0]
  /\ st = [p \in Procs |-> [User EXCEPT !.pc = IF p = initproc THEN "user" ELSE "unborn"]]
  /\ ref = [i \in Inums |-> IF i = ROOTINO THEN 1 ELSE 0]
  /\ valid = [i \in Inums |-> FALSE]
  /\ owner = [i \in Inums |-> None]
  /\ file = [f \in Files |-> NoFile]
  /\ ofile = [p \in Procs |-> [fd \in Fds |-> 0]]

-----------------------------------------------------------------------------
\* The inode cache

iget(i) ==
  /\ ref' = [ref EXCEPT ![i] = @ + 1]
  /\ valid' = [valid EXCEPT ![i] = ref[i] > 0 /\ @]

\* p waits for the lock of i, and ilock has read the inode when it goes on.
ilock(i) == owner[i] = None
Held(o, i, p) == [o EXCEPT ![i] = p]
Read(i) == valid' = [valid EXCEPT ![i] = TRUE]

\* dirlookup's iget of i, under the lock of the directory d.
igetFrom(d, i) ==
  /\ ref' = [ref EXCEPT ![i] = @ + 1]
  /\ valid' = [valid EXCEPT ![i] = ref[i] > 0 /\ @, ![d] = TRUE]

\* The inode whose lock the next step of p takes.
Wants(p) ==
  LET s == st[p] IN
  CASE s.pc = "iput" -> Head(s.puts)
    [] s.pc = "namex" /\ s.path # <<>> -> s.w
    [] s.pc \in {"create", "unlink", "link_dir"} -> s.dp
    [] s.pc \in {"create_old", "create_new", "unlink_lock", "link", "link_bad", "open", "chdir"} -> s.ip
    [] OTHER -> 0

\* panic(): the machine stops.
Panic == st' = [q \in Procs |-> [st[q] EXCEPT !.pc = "panic"]]

\* The ilock of p reads a free inode: panic("ilock: no type").
NoType(p) ==
  LET i == Wants(p) IN st[p].pc # "iput" /\ i # 0 /\ ~valid[i] /\ dinode[i].type = "free"

\* The call of p goes on in local state s, after iput of the inodes in is.
Go(p, s) == IF NoType(p) THEN Panic ELSE st' = [st EXCEPT ![p] = s]
GoPut(p, s, is, l) == Go(p, [s EXCEPT !.pc = "iput", !.puts = is, !.next = l])
Returns(p, is) == GoPut(p, User, is, "user")

MutIputTest(p) ==
  LET i == Head(st[p].puts) IN
  /\ st[p].pc = "iput" /\ ilock(i)
  /\ IF valid[i] /\ dinode[i].nlink = 0
       THEN owner' = Held(owner, i, p) /\ Go(p, [st[p] EXCEPT !.pc = "iput_free"])
       ELSE UNCHANGED owner /\ Go(p, [st[p] EXCEPT !.pc = "iput_ref"])
  /\ UNCHANGED <<dinode, ref, valid, file, ofile, cwd, calls>>

\* iput: under the lock of the inode, does the last reference to an inode
\* without links go?
IputTest(p) ==
  LET i == Head(st[p].puts) IN
  /\ st[p].pc = "iput" /\ ilock(i)
  /\ IF valid[i] /\ dinode[i].nlink = 0 /\ ref[i] = 1
       THEN owner' = Held(owner, i, p) /\ Go(p, [st[p] EXCEPT !.pc = "iput_free"])
       ELSE UNCHANGED owner /\ Go(p, [st[p] EXCEPT !.pc = "iput_ref"])
  /\ UNCHANGED <<dinode, ref, valid, file, ofile, cwd, calls>>

\* itrunc, type = 0 and iupdate.
IputFree(p) ==
  LET i == Head(st[p].puts) IN
  /\ st[p].pc = "iput_free"
  /\ dinode' = [dinode EXCEPT ![i] = FreeInode]
  /\ valid' = [valid EXCEPT ![i] = FALSE]
  /\ owner' = Held(owner, i, None)
  /\ Go(p, [st[p] EXCEPT !.pc = "iput_ref"])
  /\ UNCHANGED <<ref, file, ofile, cwd, calls>>

\* ref-- under icache.lock, and on to the next iput or out of it.
IputRef(p) ==
  LET is == st[p].puts  rest == Tail(is) IN
  /\ st[p].pc = "iput_ref"
  /\ ref' = [ref EXCEPT ![Head(is)] = @ - 1]
  /\ Go(p, IF rest # <<>> THEN [st[p] EXCEPT !.pc = "iput", !.puts = rest]
           ELSE [st[p] EXCEPT !.pc = st[p].next, !.puts = <<>>, !.next = "user"])
  /\ UNCHANGED <<dinode, valid, owner, file, ofile, cwd, calls>>

-----------------------------------------------------------------------------
\* Directories and path names

dirlookup(d, n) ==
  CASE n = "." -> d [] n = ".." -> dinode[d].dotdot [] OTHER -> dinode[d].ents[n]

\* The inode where namex starts, and the elements it walks along.
Start(p, path) == IF Head(path) = "/" THEN ROOTINO ELSE cwd[p]
Elements(path) == IF Head(path) = "/" THEN Tail(path) ELSE path

\* A system call on a path: begin_op, and the iget or idup of namex.
Syscall(p, c) ==
  /\ st[p].pc = "user"
  /\ iget(Start(p, c.path))
  /\ Go(p, [User EXCEPT !.pc = "namex", !.op = c.op, !.path = Elements(c.path), !.new = c.new,
                        !.w = Start(p, c.path)])
  /\ UNCHANGED <<dinode, owner, file, ofile, cwd, calls>>

Creating == {"create", "mkdir", "mknod"}

\* Whether namex is nameiparent here.
Parent(s) == s.op \in Creating \cup {"unlink"} \/ (s.op = "link" /\ s.ip # 0)

\* Where the call goes on with the inode that namex returns, and without one.
AfterParent == [create |-> "create", mkdir |-> "create", mknod |-> "create",
                unlink |-> "unlink", link |-> "link_dir"]
AfterNamei == [open |-> "open", open_rd |-> "open", chdir |-> "chdir", link |-> "link"]
Arrive(s) ==
  IF Parent(s) THEN [s EXCEPT !.pc = AfterParent[s.op], !.dp = s.w, !.w = 0]
               ELSE [s EXCEPT !.pc = AfterNamei[s.op], !.ip = s.w, !.w = 0]
NotFound(p, s) ==
  IF s.ip # 0 THEN GoPut(p, [s EXCEPT !.w = 0], <<s.w>>, "link_bad")
              ELSE Returns(p, <<s.w>>)

\* The end of the path; nameiparent of a path without elements fails.
NamexEnds(p) ==
  LET s == st[p] IN
  /\ s.pc = "namex" /\ s.path = <<>>
  /\ IF Parent(s) THEN NotFound(p, s) ELSE Go(p, Arrive(s))
  /\ UNCHANGED <<dinode, ref, valid, owner, file, ofile, cwd, calls>>

MutNamexStep(p) ==
  LET s == st[p]  i == s.w  n == Head(s.path)  next == dirlookup(i, n) IN
  /\ s.pc = "namex" /\ s.path # <<>> /\ ilock(i)
  /\ CASE dinode[i].type # "T_DIR" -> NotFound(p, s) /\ Read(i) /\ UNCHANGED <<ref, owner>>
       [] Parent(s) /\ Len(s.path) = 1 -> Go(p, Arrive(s)) /\ Read(i) /\ UNCHANGED <<ref, owner>>
       [] next = 0 -> NotFound(p, s) /\ Read(i) /\ UNCHANGED <<ref, owner>>
       [] OTHER -> /\ GoPut(p, [s EXCEPT !.w = next, !.path = Tail(@)], <<i>>, "namex")
                   /\ igetFrom(i, next)
                   /\ owner' = Held(owner, i, p)
  /\ UNCHANGED <<dinode, file, ofile, cwd, calls>>

\* One element: ilock, look up the next inode, iunlock, and iput the old one.
NamexStep(p) ==
  LET s == st[p]  i == s.w  n == Head(s.path)  next == dirlookup(i, n) IN
  /\ s.pc = "namex" /\ s.path # <<>> /\ ilock(i)
  /\ CASE dinode[i].type # "T_DIR" -> NotFound(p, s) /\ Read(i) /\ UNCHANGED ref
       [] Parent(s) /\ Len(s.path) = 1 -> Go(p, Arrive(s)) /\ Read(i) /\ UNCHANGED ref
       [] next = 0 -> NotFound(p, s) /\ Read(i) /\ UNCHANGED ref
       [] OTHER -> /\ GoPut(p, [s EXCEPT !.w = next, !.path = Tail(@)], <<i>>, "namex")
                   /\ igetFrom(i, next)
  /\ UNCHANGED <<dinode, owner, file, ofile, cwd, calls>>

-----------------------------------------------------------------------------
\* create: open with O_CREATE, mkdir and mknod

NewType == [create |-> "T_FILE", mkdir |-> "T_DIR", mknod |-> "T_DEV"]

\* ilock(dp) and the lookup; an existing inode is used without dp.
CreateLookup(p) ==
  LET s == st[p]  d == s.dp  i == dirlookup(d, Head(s.path)) IN
  /\ s.pc = "create" /\ ilock(d)
  /\ IF i # 0
       THEN /\ GoPut(p, [s EXCEPT !.ip = i, !.dp = 0], <<d>>, "create_old")
            /\ igetFrom(d, i)
            /\ UNCHANGED owner
       ELSE /\ owner' = Held(owner, d, p) /\ Read(d)
            /\ Go(p, [s EXCEPT !.pc = "ialloc"])
            /\ UNCHANGED ref
  /\ UNCHANGED <<dinode, file, ofile, cwd, calls>>

CreateOld(p) ==
  LET s == st[p] IN
  /\ s.pc = "create_old" /\ ilock(s.ip)
  /\ Read(s.ip)
  /\ IF s.op = "create" /\ dinode[s.ip].type = "T_FILE"
       THEN owner' = Held(owner, s.ip, p) /\ Go(p, [s EXCEPT !.pc = "filealloc"])
       ELSE UNCHANGED owner /\ Returns(p, <<s.ip>>)
  /\ UNCHANGED <<dinode, ref, file, ofile, cwd, calls>>

\* The first free inode of the disk, and its iget: nobody else can find it.
Ialloc(p) ==
  LET unused == {j \in Inums : dinode[j].type = "free"}  i == Least(unused) IN
  /\ st[p].pc = "ialloc" /\ unused # {}
  /\ dinode' = [dinode EXCEPT ![i] = [FreeInode EXCEPT !.type = NewType[st[p].op]]]
  /\ iget(i)
  /\ Go(p, [st[p] EXCEPT !.pc = "create_new", !.ip = i])
  /\ UNCHANGED <<owner, file, ofile, cwd, calls>>

\* panic("ialloc: no inodes")
IallocPanics(p) ==
  /\ st[p].pc = "ialloc"
  /\ \A i \in Inums : dinode[i].type # "free"
  /\ Panic
  /\ UNCHANGED <<dinode, ref, valid, owner, file, ofile, cwd, calls>>

\* ilock(ip), its links and entries, its entry in dp, and iunlockput(dp) with
\* ip still locked.
CreateNew(p) ==
  LET s == st[p]  i == s.ip  d == s.dp  dir == IF s.op = "mkdir" THEN 1 ELSE 0 IN
  /\ s.pc = "create_new" /\ ilock(i)
  /\ Read(i)
  /\ dinode' = [dinode EXCEPT ![i].nlink = 1, ![i].dotdot = dir * d,
                              ![d].nlink = @ + dir, ![d].ents[Head(s.path)] = i]
  /\ owner' = [owner EXCEPT ![i] = p, ![d] = None]
  /\ GoPut(p, [s EXCEPT !.dp = 0], <<d>>, IF s.op = "create" THEN "filealloc" ELSE "mkdir")
  /\ UNCHANGED <<ref, file, ofile, cwd, calls>>

\* The iunlockput of sys_mkdir and sys_mknod.
Mkdir(p) ==
  LET s == st[p] IN
  /\ s.pc = "mkdir"
  /\ owner' = Held(owner, s.ip, None)
  /\ Returns(p, <<s.ip>>)
  /\ UNCHANGED <<dinode, ref, valid, file, ofile, cwd, calls>>

-----------------------------------------------------------------------------
\* unlink and link

\* ilock(dp) and the lookup of ip, with dp still locked.
UnlinkLookup(p) ==
  LET s == st[p]  d == s.dp  n == Head(s.path)  i == dirlookup(d, n) IN
  /\ s.pc = "unlink" /\ ilock(d)
  /\ IF n \in {".", ".."} \/ i = 0
       THEN Read(d) /\ UNCHANGED <<ref, owner>> /\ Returns(p, <<d>>)
       ELSE /\ owner' = Held(owner, d, p)
            /\ igetFrom(d, i)
            /\ Go(p, [s EXCEPT !.pc = "unlink_lock", !.ip = i])
  /\ UNCHANGED <<dinode, file, ofile, cwd, calls>>

isdirempty(i) == \A n \in Names : dinode[i].ents[n] = 0

\* ilock(ip); panic("unlink: nlink < 1"); the entry of a directory that is not
\* empty stays, any other one is erased, and dp is unlocked and put with ip
\* still locked.
UnlinkErase(p) ==
  LET s == st[p]  i == s.ip  d == s.dp  dir == dinode[i].type = "T_DIR" IN
  /\ s.pc = "unlink_lock" /\ ilock(i)
  /\ Read(i)
  /\ CASE dinode[i].nlink < 1 -> Panic /\ UNCHANGED <<dinode, owner>>
       [] dinode[i].nlink >= 1 /\ dir /\ ~isdirempty(i) ->
            /\ GoPut(p, [s EXCEPT !.ip = 0], <<i>>, "unlink_bad")
            /\ UNCHANGED <<dinode, owner>>
       [] OTHER ->
            /\ dinode' = [dinode EXCEPT ![d].ents[Head(s.path)] = 0,
                                        ![d].nlink = IF dir THEN @ - 1 ELSE @]
            /\ owner' = [owner EXCEPT ![i] = p, ![d] = None]
            /\ GoPut(p, [s EXCEPT !.dp = 0], <<d>>, "unlink_done")
  /\ UNCHANGED <<ref, file, ofile, cwd, calls>>

UnlinkBad(p) ==
  LET s == st[p] IN
  /\ s.pc = "unlink_bad"
  /\ owner' = Held(owner, s.dp, None)
  /\ Returns(p, <<s.dp>>)
  /\ UNCHANGED <<dinode, ref, valid, file, ofile, cwd, calls>>

UnlinkDone(p) ==
  LET s == st[p] IN
  /\ s.pc = "unlink_done"
  /\ dinode' = [dinode EXCEPT ![s.ip].nlink = @ - 1]
  /\ owner' = Held(owner, s.ip, None)
  /\ Returns(p, <<s.ip>>)
  /\ UNCHANGED <<ref, valid, file, ofile, cwd, calls>>

MutLink(p) ==
  LET s == st[p]  i == s.ip  r == Start(p, s.new) IN
  /\ s.pc = "link" /\ ilock(i)
  /\ IF dinode[i].type = "T_DIR"
       THEN Returns(p, <<i>>) /\ Read(i) /\ UNCHANGED ref
       ELSE /\ igetFrom(i, r)
            /\ Go(p, [s EXCEPT !.pc = "namex", !.path = Elements(s.new), !.w = r])
  /\ UNCHANGED <<dinode, owner, file, ofile, cwd, calls>>

\* nlink++ comes first, then the walk to the new name.
Link(p) ==
  LET s == st[p]  i == s.ip  r == Start(p, s.new) IN
  /\ s.pc = "link" /\ ilock(i)
  /\ IF dinode[i].type = "T_DIR"
       THEN Returns(p, <<i>>) /\ Read(i) /\ UNCHANGED <<dinode, ref>>
       ELSE /\ dinode' = [dinode EXCEPT ![i].nlink = @ + 1]
            /\ igetFrom(i, r)
            /\ Go(p, [s EXCEPT !.pc = "namex", !.path = Elements(s.new), !.w = r])
  /\ UNCHANGED <<owner, file, ofile, cwd, calls>>

\* dirlink puts an entry where there is none.
dirlink(d, n, i) == [dinode EXCEPT ![d].ents[n] = i]

\* A name that is present is put, with dp locked, and the call fails.
LinkDir(p) ==
  LET s == st[p]  d == s.dp  n == Head(s.path)  i == dirlookup(d, n) IN
  /\ s.pc = "link_dir" /\ ilock(d)
  /\ IF i # 0
       THEN /\ owner' = Held(owner, d, p)
            /\ igetFrom(d, i)
            /\ GoPut(p, s, <<i>>, "link_exists")
            /\ UNCHANGED dinode
       ELSE /\ dinode' = dirlink(d, n, s.ip)
            /\ Read(d)
            /\ Returns(p, <<d, s.ip>>)
            /\ UNCHANGED <<ref, owner>>
  /\ UNCHANGED <<file, ofile, cwd, calls>>

LinkExists(p) ==
  LET s == st[p] IN
  /\ s.pc = "link_exists"
  /\ owner' = Held(owner, s.dp, None)
  /\ GoPut(p, [s EXCEPT !.dp = 0], <<s.dp>>, "link_bad")
  /\ UNCHANGED <<dinode, ref, valid, file, ofile, cwd, calls>>

\* bad: nlink is restored.
LinkBad(p) ==
  LET i == st[p].ip IN
  /\ st[p].pc = "link_bad" /\ ilock(i)
  /\ Read(i)
  /\ dinode' = [dinode EXCEPT ![i].nlink = @ - 1]
  /\ Returns(p, <<i>>)
  /\ UNCHANGED <<ref, owner, file, ofile, cwd, calls>>

-----------------------------------------------------------------------------
\* open, chdir and the file table

\* ilock of an existing inode; a directory can only be opened for reading.
Open(p) ==
  LET s == st[p] IN
  /\ s.pc = "open" /\ ilock(s.ip)
  /\ Read(s.ip)
  /\ IF dinode[s.ip].type = "T_DIR" /\ s.op # "open_rd"
       THEN UNCHANGED owner /\ Returns(p, <<s.ip>>)
       ELSE owner' = Held(owner, s.ip, p) /\ Go(p, [s EXCEPT !.pc = "filealloc"])
  /\ UNCHANGED <<dinode, ref, file, ofile, cwd, calls>>

filealloc == {f \in Files : file[f].ref = 0}
filedup(f, n) == [f EXCEPT !.ref = @ + n]
FreeFds(p) == {fd \in Fds : ofile[p][fd] = 0}
fdalloc(p, f) == ofile' = [ofile EXCEPT ![p][Least(FreeFds(p))] = f]

\* filealloc, fdalloc and iunlock: the reference to ip goes to the file, or is
\* given back when there is no file or no descriptor.
OpenFile(p) ==
  LET i == st[p].ip  f == Least(filealloc) IN
  /\ st[p].pc = "filealloc"
  /\ owner' = Held(owner, i, None)
  /\ IF filealloc = {} \/ FreeFds(p) = {}
       THEN Returns(p, <<i>>) /\ UNCHANGED <<file, ofile>>
       ELSE /\ file' = [file EXCEPT ![f] = [ref |-> 1, ip |-> i, off |-> 0]]
            /\ fdalloc(p, f)
            /\ Go(p, User)
  /\ UNCHANGED <<dinode, ref, valid, cwd, calls>>

Chdir(p) ==
  LET i == st[p].ip  dir == dinode[i].type = "T_DIR" IN
  /\ st[p].pc = "chdir" /\ ilock(i)
  /\ Read(i)
  /\ Returns(p, <<IF dir THEN cwd[p] ELSE i>>)
  /\ cwd' = IF dir THEN [cwd EXCEPT ![p] = i] ELSE cwd
  /\ UNCHANGED <<dinode, ref, owner, file, ofile, calls>>

MutFileclose(p, fd, l) ==
  LET f == ofile[p][fd] IN
  /\ f # 0
  /\ ofile' = [ofile EXCEPT ![p][fd] = 0]
  /\ file' = [file EXCEPT ![f].ref = @ - 1]
  /\ IF file[f].ip = 0 THEN Go(p, [User EXCEPT !.pc = l]) ELSE GoPut(p, User, <<file[f].ip>>, l)

\* The file of a descriptor that a system call is given.
argfd(p, fd) == ofile[p][fd]

\* The last close of a file gives up its inode, or the end of a pipe.
fileclose(p, fd, l) ==
  LET f == ofile[p][fd] IN
  /\ f # 0
  /\ ofile' = [ofile EXCEPT ![p][fd] = 0]
  /\ file' = [file EXCEPT ![f] = IF @.ref > 1 THEN [@ EXCEPT !.ref = @ - 1] ELSE NoFile]
  /\ IF file[f].ref > 1 \/ file[f].ip = 0
       THEN Go(p, [User EXCEPT !.pc = l])
       ELSE GoPut(p, User, <<file[f].ip>>, l)

Close(p, fd) ==
  /\ "close" \in calls.ops /\ st[p].pc = "user"
  /\ fileclose(p, fd, "user")
  /\ UNCHANGED <<dinode, ref, valid, owner, cwd, calls>>

Dup(p, fd) ==
  LET f == argfd(p, fd) IN
  /\ "dup" \in calls.ops /\ st[p].pc = "user" /\ f # 0 /\ FreeFds(p) # {}
  /\ fdalloc(p, f)
  /\ file' = [file EXCEPT ![f] = filedup(@, 1)]
  /\ UNCHANGED <<dinode, ref, valid, owner, cwd, st, calls>>

\* readi and writei of block o of the locked inode i: a block that is read
\* begins in the file, and a write may extend the file.
Transfer(i, o, write) ==
  /\ ilock(i) /\ dinode[i].type = "T_FILE"
  /\ o < IF write THEN MaxSize ELSE dinode[i].size
  /\ Read(i)
  /\ dinode' = IF o < dinode[i].size THEN dinode ELSE [dinode EXCEPT ![i].size = o + 1]
  /\ UNCHANGED <<ref, owner, ofile, cwd, st, calls>>

\* fileread and filewrite go on at f->off and move it; pread and pwrite take
\* the offset from their caller.
fileio(f, write) ==
  /\ Transfer(file[f].ip, file[f].off, write)
  /\ file' = [file EXCEPT ![f].off = @ + 1]
pio(f, o, write) == Transfer(file[f].ip, o, write) /\ UNCHANGED file

\* A file with an inode that a call can lock; Pipe models reads and writes of
\* the other ones.
InodeFile(p, fd) == "io" \in calls.ops /\ st[p].pc = "user" /\ argfd(p, fd) # 0 /\ file[argfd(p, fd)].ip # 0

ReadWrite(p, fd, write) ==
  /\ InodeFile(p, fd)
  /\ fileio(argfd(p, fd), write)
PreadPwrite(p, fd, o, write) ==
  /\ InodeFile(p, fd)
  /\ pio(argfd(p, fd), o, write)

\* filestat locks the inode for stati.
filestat(f) == ilock(file[f].ip) /\ Read(file[f].ip)
Fstat(p, fd) ==
  /\ InodeFile(p, fd)
  /\ filestat(argfd(p, fd))
  /\ UNCHANGED <<dinode, ref, owner, file, ofile, cwd, st, calls>>

\* sys_pipe: pipealloc takes two files and, last, a page for the pipe ...
Pipealloc(p) ==
  LET ends == st[p].ends IN
  /\ \/ "pipe" \in calls.ops /\ st[p].pc = "user"
     \/ st[p].pc = "pipe" /\ Cardinality(ends) < 2
  /\ filealloc # {}
  /\ file' = [file EXCEPT ![Least(filealloc)].ref = 1]
  /\ Go(p, [User EXCEPT !.pc = "pipe", !.ends = ends \cup {Least(filealloc)}])
  /\ UNCHANGED <<dinode, ref, valid, owner, ofile, cwd, calls>>

\* ... sys_pipe a descriptor for each ...
PipeFds(p) ==
  LET ends == st[p].ends  f == Least(ends)  fd == Least(FreeFds(p)) IN
  /\ st[p].pc = "pipe" /\ Cardinality(ends) = 2 /\ Cardinality(FreeFds(p)) >= 2
  /\ ofile' = [ofile EXCEPT ![p][fd] = f, ![p][Least(FreeFds(p) \ {fd})] = Least(ends \ {f})]
  /\ Go(p, User)
  /\ UNCHANGED <<dinode, ref, valid, owner, file, cwd, calls>>

\* ... and when one of these is missing, the files are closed again.
PipeFails(p) ==
  /\ st[p].pc = "pipe" /\ (Cardinality(st[p].ends) = 2 \/ filealloc = {})
  /\ file' = [f \in Files |-> IF f \in st[p].ends THEN NoFile ELSE file[f]]
  /\ Go(p, User)
  /\ UNCHANGED <<dinode, ref, valid, owner, ofile, cwd, calls>>

idup(i) == ref' = [ref EXCEPT ![i] = @ + 1]

\* What fork and thread_create do: the child shares the files and gets its
\* own reference to the current directory.
Fork(p, q) ==
  /\ "fork" \in calls.ops /\ st[p].pc = "user" /\ st[q].pc = "unborn"
  /\ ofile' = [ofile EXCEPT ![q] = ofile[p]]
  /\ file' = [f \in Files |-> filedup(file[f], Cardinality({fd \in Fds : ofile[p][fd] = f}))]
  /\ cwd' = [cwd EXCEPT ![q] = cwd[p]]
  /\ idup(cwd[p])
  /\ Go(q, User)
  /\ UNCHANGED <<dinode, valid, owner, calls>>

\* exit and thread_exit close the files one by one, then put the directory.
Exit(p) ==
  /\ "exit" \in calls.ops /\ p # initproc /\ st[p].pc \in {"user", "exit"}
  /\ IF FreeFds(p) # Fds
       THEN fileclose(p, Least(Fds \ FreeFds(p)), "exit") /\ UNCHANGED cwd
       ELSE /\ GoPut(p, User, <<cwd[p]>>, "unborn")
            /\ cwd' = [cwd EXCEPT ![p] = 0]
            /\ UNCHANGED <<file, ofile>>
  /\ UNCHANGED <<dinode, ref, valid, owner, calls>>

-----------------------------------------------------------------------------
Iput(p) == IputTest(p) \/ IputFree(p) \/ IputRef(p)
Namex(p) == NamexEnds(p) \/ NamexStep(p)
Create(p) == CreateLookup(p) \/ CreateOld(p) \/ Ialloc(p) \/ IallocPanics(p) \/ CreateNew(p) \/ Mkdir(p)
Unlink(p) == UnlinkLookup(p) \/ UnlinkErase(p) \/ UnlinkBad(p) \/ UnlinkDone(p)
LinkCall(p) == Link(p) \/ LinkDir(p) \/ LinkExists(p) \/ LinkBad(p)
FileCall(p) ==
  \/ Open(p) \/ OpenFile(p) \/ Chdir(p) \/ Exit(p)
  \/ Pipealloc(p) \/ PipeFds(p) \/ PipeFails(p)
  \/ \E fd \in Fds : Close(p, fd) \/ Dup(p, fd) \/ Fstat(p, fd)
  \/ \E fd \in Fds, w \in BOOLEAN : ReadWrite(p, fd, w) \/ \E o \in 0 .. MaxSize - 1 : PreadPwrite(p, fd, o, w)

Step(p) ==
  \/ \E c \in calls.paths[p] : Syscall(p, c)
  \/ Iput(p) \/ Namex(p) \/ Create(p) \/ Unlink(p) \/ LinkCall(p) \/ FileCall(p)
  \/ \E q \in Procs : Fork(p, q)

Next == \E p \in Procs : Step(p)
Spec == Init /\ [][Next]_vars

-----------------------------------------------------------------------------
\* Every pointer to the inode i: in a local variable of a system call, in an
\* iput that is due, in a file or as a current directory.
Locals(i) == {<<p, x>> \in Procs \X {"w", "ip", "dp"} : st[p][x] = i}
Puts(i) == {<<p, k>> \in Procs \X (1 .. 2) : k <= Len(st[p].puts) /\ st[p].puts[k] = i}
Pointers(i) ==
  Cardinality(Locals(i)) + Cardinality(Puts(i)) + Cardinality({f \in Files : file[f].ip = i})
    + Cardinality({p \in Procs : cwd[p] = i})

Descriptors(f) == {<<p, fd>> \in Procs \X Fds : ofile[p][fd] = f}
NewEnds(f) == {p \in Procs : f \in st[p].ends}

\* The reference count of an inode in the cache is the number of pointers to it
\* that system calls, files and processes hold, and that of a file the number
\* of its descriptors, through every failure path of the calls: so iput gives
\* up an inode once, and fileclose a file.
RefExact ==
  /\ \A i \in Inums : ref[i] = Pointers(i)
  /\ \A f \in Files : file[f].ref = Cardinality(Descriptors(f)) + Cardinality(NewEnds(f))

\* iput frees no inode that someone else can still reach: whatever a pointer
\* of another process, a file, or a directory entry other than ".." names is
\* allocated, so that no ilock finds "no type", and the offset of an open file
\* lies in the file.
NoDangling ==
  (\A p \in Procs : st[p].pc # "panic") =>
  \A i \in Inums :
    /\ dinode[i].type = "free" =>
         /\ \A d \in Inums, n \in Names : dinode[d].ents[n] # i
         /\ Pointers(i) = Cardinality({p \in Procs : st[p].pc = "iput_ref" /\ Head(st[p].puts) = i})
    /\ \A f \in Files : file[f].ip = i => file[f].off <= dinode[i].size

\* The link count of an inode covers the entries that name it at every moment
\* of a link or an unlink, so an inode loses its last link only after the
\* last entry is gone.
LinksCovered ==
  \A i \in Inums \ {ROOTINO} :
    dinode[i].nlink >= Cardinality({<<d, n>> \in Inums \X Names : dinode[d].ents[n] = i})

\* The iputs that create, unlink and link make with an inode locked: of the
\* directory, with the inode in it locked; and, in dirlink, of what already has
\* the new name, with the directory locked.
PutsHolding(p) ==
  st[p].pc = "iput" /\ st[p].next \in {"filealloc", "mkdir", "unlink_done", "link_exists"}

\* Whenever two system calls wait for each other's inode locks, or one for a
\* lock it holds itself, one of them is in such an iput.  There the code does
\* lock up: iput takes the lock of the directory that another call holds while
\* it waits for the inode in it, and link to "d/." takes the lock of d twice;
\* usertests' linkunlink is there "to look for deadlocks".  Every other order
\* in which the calls lock is free of them: a directory is locked before what
\* it contains, or unlocked before anything else is locked, as in namex, also
\* along "..".
CrossOnlyInPut ==
  \A p, q \in Procs :
    Wants(p) # 0 /\ Wants(q) # 0 /\ owner[Wants(p)] = q /\ owner[Wants(q)] = p =>
      PutsHolding(p) \/ PutsHolding(q)
=============================================================================
