------------------------------- MODULE VfsVm -------------------------------
(***************************************************************************)
(* The VFS system calls of the vm-submit kernel: fs/namev.c, fs/open.c    *)
(* and fs/vfs_syscall.c of src/vm-submit, with the file-table and p_cwd   *)
(* handling of proc/fork.c and proc/proc.c.  Each system call is one     *)
(* step of the calling process (the kernel is not preempted), except     *)
(* do_rename, whose do_link and do_unlink may block in s5fs between      *)
(* them, so other processes run in between.                              *)
(***************************************************************************)
EXTENDS Vfs

VARIABLE
  renaming   \* <<old path>> while a process in do_rename has still to unlink it

allvars == <<vars, renaming>>

FdArgs == -1..NFILES          \* fd arguments, one out of range on each side
Access == {"rdonly", "wronly", "rdwr", "wronly_rdwr"}
Whence == {"SEEK_SET", "SEEK_CUR", "SEEK_END", "bad"}
Offsets == {-1, 0, 1}

-----------------------------------------------------------------------------
(* lookup: a vnode without a lookup operation (not a directory) gives    *)
(* -ENOTDIR; a name that strncmp(".", name, len) matches ("." and the     *)
(* empty name) is the directory itself; anything else is s5fs_lookup.    *)
Lookup(d, n) ==
  IF kind[d] # "dir" THEN [err |-> "ENOTDIR", vn |-> NoVnode]
  ELSE IF n \in {".", ""} THEN [err |-> "OK", vn |-> d]
  ELSE FsLookup(d, n)

(* dir_namev's loop over the components before the last: each lookup   *)
(* gives the directory of the next; the first error is returned.        *)
RECURSIVE Walk(_, _)
Walk(d, toks) ==
  IF toks = <<>> THEN [err |-> "OK", vn |-> d]
  ELSE LET r == Lookup(d, Head(toks))
       IN  IF r.err # "OK" THEN r ELSE Walk(r.vn, Tail(toks))

(* dir_namev: the parent directory and the last component.  The last    *)
(* component is looked up too, and any error but -ENOENT returned.  "/"  *)
(* alone gives the root and the name "/"; the empty path -EINVAL.  On    *)
(* success the caller holds one more reference to dir.                  *)
DirNamev(p, path) ==
  LET t == path.toks
      w == Walk(IF path.abs THEN Root ELSE cwd[p], SubSeq(t, 1, Len(t) - 1))
      Fail(e) == [err |-> e, dir |-> NoVnode, name |-> ""]
  IN
  IF t = <<>> THEN (IF path.abs THEN [err |-> "OK", dir |-> Root, name |-> SLASH]
                    ELSE Fail("EINVAL"))
  ELSE IF w.err # "OK" THEN Fail(w.err)
  ELSE LET last == Lookup(w.vn, t[Len(t)])
       IN  IF last.err \notin {"OK", "ENOENT"} THEN Fail(last.err)
           ELSE [err |-> "OK", dir |-> w.vn, name |-> t[Len(t)]]

(* open_namev: dir_namev, then the lookup of the name in the directory  *)
(* ("/" of the root read as "."); with O_CREAT a missing name is created *)
(* by s5fs_create in the first free inode.  On success the caller holds *)
(* one reference to vn; new is the inode created, if any.               *)
OpenNamev(p, path, creat) ==
  LET dn == DirNamev(p, path)
      n  == IF dn.name \in {SLASH, ""} /\ dn.dir = Root THEN "." ELSE dn.name
      lk == Lookup(dn.dir, n)
      Res(e, v, new) == [err |-> e, vn |-> v, new |-> new, dir |-> dn.dir, name |-> n]
  IN
  IF dn.err # "OK" THEN Res(dn.err, NoVnode, NoVnode)
  ELSE IF lk.err = "OK" THEN Res("OK", lk.vn, NoVnode)
  ELSE IF ~(creat /\ lk.err = "ENOENT") THEN Res(lk.err, NoVnode, NoVnode)
  ELSE IF FsCreateErr(dn.dir) # "OK" THEN Res(FsCreateErr(dn.dir), NoVnode, NoVnode)
  ELSE Res("OK", FsAlloc, FsAlloc)

-----------------------------------------------------------------------------
(* do_open: get_empty_fd, fget(-1), the flag check, f_mode from the      *)
(* access mode and O_APPEND, open_namev, then -EISDIR for a directory    *)
(* opened for writing and -ENXIO for a device special file without its  *)
(* device; on each error after open_namev the vnode is vput, the slot   *)
(* cleared and the file_t put.  The -EINVAL return comes after fget(-1)  *)
(* and puts nothing back.                                                *)
OpenMode(acc, app) ==
  (CASE acc = "rdonly" -> {"read"} [] acc = "wronly" -> {"write"}
     [] OTHER -> {"read", "write"})
  \cup (IF app THEN {"append"} ELSE {})

DoOpen(p, path, acc, app, creat) ==
  LET i == GetEmptyFd(p)
      f == FgetNew
      r == OpenNamev(p, path, creat)
      writing == acc \in {"wronly", "rdwr", "wronly_rdwr"}
  IN
  /\ p \in alive /\ renaming[p] = <<>>
  /\ IF i = -1 \/ f = NoFile THEN UNCHANGED vars
     ELSE IF acc = "wronly_rdwr" THEN
            /\ file' = [file EXCEPT ![f] = [FreeFile EXCEPT !.ref = 1]]
            /\ UNCHANGED <<alive, cwd, fd, vref, fsvars>>
     ELSE IF r.err # "OK" THEN UNCHANGED vars
     ELSE IF writing /\ kind[r.vn] = "dir" THEN UNCHANGED vars
     ELSE IF kind[r.vn] \in {"chr", "blk"} /\ ~hasdev[r.vn] THEN UNCHANGED vars
     ELSE
            /\ fd' = [fd EXCEPT ![p][i] = f]
            /\ file' = [file EXCEPT ![f] = [ref |-> 1, mode |-> OpenMode(acc, app),
                                            pos |-> 0, vn |-> r.vn]]
            /\ vref' = [vref EXCEPT ![r.vn] = @ + 1]
            /\ IF r.new = NoVnode THEN UNCHANGED fsvars
               ELSE FsCreate(r.dir, r.name, r.new, "reg", FALSE)
            /\ UNCHANGED <<alive, cwd>>
  /\ UNCHANGED renaming

MutDoCloseKeepSlot(p, i) ==
  /\ p \in alive /\ renaming[p] = <<>>
  /\ IF i \notin Fds THEN UNCHANGED vars
     ELSE IF fd[p][i] = NoFile THEN UNCHANGED vars
     ELSE LET f == fd[p][i] IN
          /\ file' = FputFile(file, f)
          /\ vref' = VAdjust(vref, <<>>, FputVnodes(file, f))
          /\ SettleInodes(kind, dirent, vlen)
          /\ UNCHANGED <<alive, cwd, fd, dotdot>>
  /\ UNCHANGED renaming

(* do_close: clear the slot and fput the file_t; the last put vputs the  *)
(* vnode, which deletes an inode no entry names any more.                *)
DoClose(p, i) ==
  /\ p \in alive /\ renaming[p] = <<>>
  /\ IF i \notin Fds THEN UNCHANGED vars
     ELSE IF fd[p][i] = NoFile THEN UNCHANGED vars
     ELSE LET f == fd[p][i] IN
          /\ fd' = [fd EXCEPT ![p][i] = NoFile]
          /\ file' = FputFile(file, f)
          /\ vref' = VAdjust(vref, <<>>, FputVnodes(file, f))
          /\ SettleInodes(kind, dirent, vlen)
          /\ UNCHANGED <<alive, cwd, dotdot>>
  /\ UNCHANGED renaming

(* fget(fd) for the fd system calls: the file_t of a valid open fd.      *)
FileOf(p, i) == IF i \in Fds THEN fd[p][i] ELSE NoFile

(* do_read: -EBADF unless open for reading, -EISDIR for a directory;    *)
(* the read's byte count is added to f_pos when it is positive.          *)
DoRead(p, i) ==
  LET f == FileOf(p, i)
      n == IF f = NoFile THEN 0 ELSE FsRead(file[f].vn, file[f].pos)
  IN
  /\ p \in alive /\ renaming[p] = <<>>
  /\ IF f = NoFile \/ "read" \notin file[f].mode \/ kind[file[f].vn] = "dir"
       THEN UNCHANGED vars
       ELSE /\ file[f].pos + n <= MaxLen
            /\ file' = [file EXCEPT ![f].pos = @ + (IF n > 0 THEN n ELSE 0)]
            /\ UNCHANGED <<alive, cwd, fd, vref, fsvars>>
  /\ UNCHANGED renaming

(* do_write: -EBADF unless open for writing; with FMODE_APPEND do_lseek *)
(* to the end first (which sets f_pos); s5fs_write of one byte at pos   *)
(* extends a regular file to cover it; f_pos moves past the byte.        *)
DoWrite(p, i) ==
  LET f == FileOf(p, i)
      v == file[f].vn
      pos == IF "append" \in file[f].mode THEN vlen[v] ELSE file[f].pos
  IN
  /\ p \in alive /\ renaming[p] = <<>>
  /\ IF f = NoFile \/ "write" \notin file[f].mode
       THEN UNCHANGED vars
       ELSE /\ pos + 1 <= MaxLen
            /\ file' = [file EXCEPT ![f].pos = pos + 1]
            /\ vlen' = IF kind[v] = "reg" /\ pos + 1 > vlen[v]
                         THEN [vlen EXCEPT ![v] = pos + 1] ELSE vlen
            /\ UNCHANGED <<alive, cwd, fd, vref, kind, dirent, dotdot, hasdev>>
  /\ UNCHANGED renaming

MutDoLseekNoNeg(p, i, off, wh) ==
  LET f == FileOf(p, i)
      pos == CASE wh = "SEEK_CUR" -> file[f].pos + off
               [] wh = "SEEK_SET" -> off
               [] OTHER -> vlen[file[f].vn] + off
  IN
  /\ p \in alive /\ renaming[p] = <<>>
  /\ IF wh = "bad" \/ f = NoFile THEN UNCHANGED vars
     ELSE /\ pos <= MaxLen
          /\ file' = [file EXCEPT ![f].pos = pos]
          /\ UNCHANGED <<alive, cwd, fd, vref, fsvars>>
  /\ UNCHANGED renaming

(* do_lseek: whence checked first, then the fd; a negative result is    *)
(* -EINVAL and leaves f_pos alone.                                       *)
DoLseek(p, i, off, wh) ==
  LET f == FileOf(p, i)
      pos == CASE wh = "SEEK_CUR" -> file[f].pos + off
               [] wh = "SEEK_SET" -> off
               [] OTHER -> vlen[file[f].vn] + off
  IN
  /\ p \in alive /\ renaming[p] = <<>>
  /\ IF wh = "bad" \/ f = NoFile \/ pos < 0 THEN UNCHANGED vars
     ELSE /\ pos <= MaxLen
          /\ file' = [file EXCEPT ![f].pos = pos]
          /\ UNCHANGED <<alive, cwd, fd, vref, fsvars>>
  /\ UNCHANGED renaming

(* do_dup: the fd checks, then a count of the open slots that tests      *)
(* p_files[fd] on every round instead of p_files[i], so it is NFILES and *)
(* its -EMFILE return is never taken; fget(fd) adds a reference that the *)
(* new slot keeps, or that is put back when get_empty_fd finds none.     *)
DoDup(p, i) ==
  LET f == FileOf(p, i)
      count == Cardinality({j \in Fds : fd[p][i] # NoFile})
      n == GetEmptyFd(p)
  IN
  /\ p \in alive /\ renaming[p] = <<>>
  /\ IF f = NoFile \/ count = NFILES - 1 \/ n = -1 THEN UNCHANGED vars
     ELSE /\ fd' = [fd EXCEPT ![p][n] = f]
          /\ file' = [file EXCEPT ![f].ref = @ + 1]
          /\ UNCHANGED <<alive, cwd, vref, fsvars>>
  /\ UNCHANGED renaming

(* do_dup2: fget(ofd); for ofd = nfd the reference is put back; else an *)
(* open nfd is closed with do_close and the slot takes ofd's file_t.    *)
DoDup2(p, i, j) ==
  LET f == FileOf(p, i)
      g == FileOf(p, j)
      held == [file EXCEPT ![f].ref = @ + 1]
  IN
  /\ p \in alive /\ renaming[p] = <<>>
  /\ IF f = NoFile \/ j \notin Fds \/ i = j THEN UNCHANGED vars
     ELSE /\ fd' = [fd EXCEPT ![p][j] = f]
          /\ IF g = NoFile
               THEN /\ file' = held
                    /\ UNCHANGED <<vref, fsvars>>
               ELSE /\ file' = FputFile(held, g)
                    /\ vref' = VAdjust(vref, <<>>, FputVnodes(held, g))
                    /\ SettleInodes(kind, dirent, vlen)
                    /\ UNCHANGED dotdot
          /\ UNCHANGED <<alive, cwd>>
  /\ UNCHANGED renaming

(* do_getdent: fget(fd), -ENOTDIR unless a directory; the readdir's      *)
(* count, when positive, is added to f_pos; fput.                        *)
DoGetdent(p, i) ==
  LET f == FileOf(p, i)
      n == IF f = NoFile THEN 0 ELSE FsReaddir(file[f].vn, file[f].pos)
  IN
  /\ p \in alive /\ renaming[p] = <<>>
  /\ IF f = NoFile \/ kind[file[f].vn] # "dir" \/ n = 0 THEN UNCHANGED vars
     ELSE /\ file[f].pos + n <= MaxLen
          /\ file' = [file EXCEPT ![f].pos = @ + n]
          /\ UNCHANGED <<alive, cwd, fd, vref, fsvars>>
  /\ UNCHANGED renaming

(* do_mknod: -EINVAL unless a character or block device; dir_namev,     *)
(* -EEXIST when the name looks up, else s5fs_mknod; dir is vput.  dev    *)
(* says whether devid names a device that exists.                        *)
DoMknod(p, path, mode, dev) ==
  LET dn == DirNamev(p, path)
      v == FsAlloc
  IN
  /\ p \in alive /\ renaming[p] = <<>>
  /\ IF mode \notin {"chr", "blk"} \/ dn.err # "OK"
        \/ Lookup(dn.dir, dn.name).err = "OK" \/ FsCreateErr(dn.dir) # "OK"
       THEN UNCHANGED vars
       ELSE /\ FsCreate(dn.dir, dn.name, v, mode, dev)
            /\ UNCHANGED <<alive, cwd, fd, file, vref>>
  /\ UNCHANGED renaming

(* do_mkdir: dir_namev, -EEXIST when the name looks up, else s5fs_mkdir *)
(* makes the directory with ".." naming dir; dir is vput.                *)
DoMkdir(p, path) ==
  LET dn == DirNamev(p, path)
  IN
  /\ p \in alive /\ renaming[p] = <<>>
  /\ IF dn.err # "OK" \/ Lookup(dn.dir, dn.name).err = "OK" \/ FsCreateErr(dn.dir) # "OK"
       THEN UNCHANGED vars
       ELSE /\ FsCreate(dn.dir, dn.name, FsAlloc, "dir", FALSE)
            /\ UNCHANGED <<alive, cwd, fd, file, vref>>
  /\ UNCHANGED renaming

(* do_rmdir: dir_namev; a last component "." is -EINVAL and ".."        *)
(* -ENOTEMPTY; else s5fs_rmdir removes an empty directory's entry; dir  *)
(* is vput, and a removed directory nobody references is deleted.       *)
DoRmdir(p, path) ==
  LET dn == DirNamev(p, path)
  IN
  /\ p \in alive /\ renaming[p] = <<>>
  /\ IF dn.err # "OK" \/ dn.name \in {".", ".."} \/ FsRmdirErr(dn.dir, dn.name) # "OK"
       THEN UNCHANGED vars
       ELSE /\ UNCHANGED <<alive, cwd, fd, file, vref, dotdot>>
            /\ SettleInodes(kind, DelEntry(dn.dir, dn.name), vlen)
  /\ UNCHANGED renaming

(* do_unlink of path, the rest of the calling process's rename set to   *)
(* after: dir_namev, lookup of the name (its error returned), -EISDIR  *)
(* for a directory, else s5fs_unlink removes the entry; both vnodes are *)
(* vput, and an inode neither named nor referenced is deleted.          *)
Unlink(p, path, after) ==
  LET dn == DirNamev(p, path)
      lk == Lookup(dn.dir, dn.name)
  IN
  /\ renaming' = [renaming EXCEPT ![p] = after]
  /\ IF dn.err # "OK" \/ lk.err # "OK" \/ kind[lk.vn] = "dir" THEN UNCHANGED vars
     ELSE /\ UNCHANGED <<alive, cwd, fd, file, vref, dotdot>>
          /\ SettleInodes(kind, DelEntry(dn.dir, dn.name), vlen)

MutLinkDirs(p, from, to, ok) ==
  LET src == OpenNamev(p, from, FALSE)
      dn == DirNamev(p, to)
      exists == Lookup(dn.dir, dn.name).err = "OK"
  IN
  IF src.err # "OK" \/ dn.err # "OK"
    THEN UNCHANGED allvars
  ELSE IF exists
    THEN /\ vref' = [vref EXCEPT ![dn.dir] = @ + 1]
         /\ UNCHANGED <<alive, cwd, fd, file, fsvars, renaming>>
  ELSE IF ~FsLinked(dn.dir)
    THEN UNCHANGED allvars
  ELSE /\ dirent' = AddEntry(dn.dir, dn.name, src.vn)
       /\ renaming' = [renaming EXCEPT ![p] = ok]
       /\ UNCHANGED <<alive, cwd, fd, file, vref, kind, dotdot, vlen, hasdev>>

(* do_link from to to: open_namev(from) holds the vnode, -EISDIR for a  *)
(* directory; dir_namev(to); when the name already looks up, the found *)
(* vnode and from's are vput and -EEXIST returned, but dir_namev's      *)
(* reference to the directory is never put.  Else s5fs_link adds the   *)
(* entry and both are vput.  ok is the calling process's rename state  *)
(* after a successful link.                                              *)
Link(p, from, to, ok) ==
  LET src == OpenNamev(p, from, FALSE)
      dn == DirNamev(p, to)
      exists == Lookup(dn.dir, dn.name).err = "OK"
  IN
  IF src.err # "OK" \/ kind[src.vn] = "dir" \/ dn.err # "OK"
    THEN UNCHANGED allvars
  ELSE IF exists
    THEN /\ vref' = [vref EXCEPT ![dn.dir] = @ + 1]
         /\ UNCHANGED <<alive, cwd, fd, file, fsvars, renaming>>
  ELSE IF ~FsLinked(dn.dir)
    THEN UNCHANGED allvars
  ELSE /\ dirent' = AddEntry(dn.dir, dn.name, src.vn)
       /\ renaming' = [renaming EXCEPT ![p] = ok]
       /\ UNCHANGED <<alive, cwd, fd, file, vref, kind, dotdot, vlen, hasdev>>

DoUnlink(p, path) ==
  /\ p \in alive /\ renaming[p] = <<>>
  /\ Unlink(p, path, <<>>)

DoLink(p, from, to) ==
  /\ p \in alive /\ renaming[p] = <<>>
  /\ Link(p, from, to, <<>>)

(* do_rename: do_link(old, new), and when it succeeds do_unlink(old).   *)
(* s5fs may block inside each, so other processes run between them.     *)
DoRename(p, old, new) ==
  /\ p \in alive /\ renaming[p] = <<>>
  /\ Link(p, old, new, <<old>>)

RenameUnlink(p) ==
  /\ p \in alive /\ renaming[p] # <<>>
  /\ Unlink(p, renaming[p][1], <<>>)

(* do_chdir: dir_namev, lookup of the last component (its error          *)
(* returned; "/" is looked up as a name, so chdir("/") is -ENOENT),     *)
(* -ENOTDIR for a non-directory; else the old p_cwd is vput and the     *)
(* looked-up vnode's reference kept.                                     *)
DoChdir(p, path) ==
  LET dn == DirNamev(p, path)
      lk == Lookup(dn.dir, dn.name)
  IN
  /\ p \in alive /\ renaming[p] = <<>>
  /\ IF dn.err # "OK" \/ lk.err # "OK" \/ kind[lk.vn] # "dir" THEN UNCHANGED vars
     ELSE /\ cwd' = [cwd EXCEPT ![p] = lk.vn]
          /\ vref' = VAdjust(vref, <<lk.vn>>, <<cwd[p]>>)
          /\ SettleInodes(kind, dirent, vlen)
          /\ UNCHANGED <<alive, fd, file, dotdot>>
  /\ UNCHANGED renaming

(* do_fork's file and cwd part: proc_create gives the child the parent's *)
(* p_cwd with vref (its parent is not idle), then do_fork copies p_files *)
(* with fref on each and sets p_cwd again with vget: the child's cwd    *)
(* takes two references.                                                 *)
Fork(p, q) ==
  /\ p \in alive /\ renaming[p] = <<>> /\ q \notin alive
  /\ alive' = alive \cup {q}
  /\ fd' = [fd EXCEPT ![q] = fd[p]]
  /\ cwd' = [cwd EXCEPT ![q] = cwd[p]]
  /\ file' = [f \in FileIds |-> [file[f] EXCEPT !.ref = @ + Occurs(fd[p], f)]]
  /\ vref' = [vref EXCEPT ![cwd[p]] = @ + 2]
  /\ UNCHANGED <<fsvars, renaming>>

(* proc_cleanup: fput every open file and vput p_cwd (init never exits). *)
Exit(p) ==
  LET puts(f) == Occurs(fd[p], f)
      left(f) == file[f].ref - puts(f)
  IN
  /\ p \in alive /\ p # FirstProc /\ renaming[p] = <<>>
  /\ alive' = alive \ {p}
  /\ fd' = [fd EXCEPT ![p] = [i \in Fds |-> NoFile]]
  /\ file' = [f \in FileIds |-> IF puts(f) > 0 /\ left(f) = 0 THEN FreeFile
                                ELSE [file[f] EXCEPT !.ref = left(f)]]
  /\ vref' = [v \in Vnodes |->
                vref[v] - (IF v = cwd[p] THEN 1 ELSE 0)
                - Cardinality({f \in FileIds : puts(f) > 0 /\ left(f) = 0 /\ file[f].vn = v})]
  /\ SettleInodes(kind, dirent, vlen)
  /\ UNCHANGED <<cwd, dotdot, renaming>>

-----------------------------------------------------------------------------
Modes == {"chr", "blk", "reg"}

VmInit == Init /\ renaming = [p \in Procs |-> <<>>]

VmNext ==
  /\ \E p \in Procs :
       \/ \E path \in Paths, acc \in Access, app, creat \in BOOLEAN :
            DoOpen(p, path, acc, app, creat)
       \/ \E i \in FdArgs :
            DoClose(p, i) \/ DoRead(p, i) \/ DoWrite(p, i) \/ DoDup(p, i) \/ DoGetdent(p, i)
       \/ \E i, j \in FdArgs : DoDup2(p, i, j)
       \/ \E i \in FdArgs, off \in Offsets, wh \in Whence : DoLseek(p, i, off, wh)
       \/ \E path \in Paths, mode \in Modes, dev \in BOOLEAN : DoMknod(p, path, mode, dev)
       \/ \E path \in Paths :
            DoMkdir(p, path) \/ DoRmdir(p, path) \/ DoUnlink(p, path) \/ DoChdir(p, path)
       \/ \E from, to \in Paths : DoLink(p, from, to) \/ DoRename(p, from, to)
       \/ RenameUnlink(p)
       \/ \E q \in Procs : Fork(p, q)
       \/ Exit(p)
  /\ \A v \in Vnodes : vref'[v] <= MaxRef

VmSpec == VmInit /\ [][VmNext]_allvars

-----------------------------------------------------------------------------
TypeOK ==
  /\ alive \subseteq Procs /\ FirstProc \in alive
  /\ cwd \in [Procs -> Vnodes]
  /\ fd \in [Procs -> [Fds -> FileIds \cup {NoFile}]]
  /\ file \in [FileIds -> [ref : 0..(Cardinality(Procs) * NFILES + 1),
                           mode : SUBSET {"read", "write", "append"},
                           pos : 0..MaxLen, vn : Vnodes \cup {NoVnode}]]
  /\ vref \in [Vnodes -> Int]
  /\ kind \in [Vnodes -> Kinds]
  /\ dirent \in [Vnodes -> [EntryNames -> Vnodes \cup {NoVnode}]]
  /\ dotdot \in [Vnodes -> Vnodes]
  /\ vlen \in [Vnodes -> 0..MaxLen]
  /\ hasdev \in [Vnodes -> BOOLEAN]
  /\ renaming \in [Procs -> {<<>>} \cup {<<x>> : x \in Paths}]

(* The vnode counts are exact: every vget or vref of a p_cwd, a file_t  *)
(* or a lookup is matched by a vput when the holder lets go, so a       *)
(* vnode nobody holds has no references and can be deleted.            *)
VnRefsExact == \A v \in Vnodes : vref[v] = VnHolders(v)

(* The directories form a tree: a live directory is named by at most one *)
(* entry, of the directory its ".." names.  do_link refuses a directory *)
(* (-EISDIR), which also keeps do_rename from moving one, and s5fs_mkdir *)
(* sets ".." to the directory that gets the entry.                       *)
DirTree ==
  \A d \in Vnodes : kind[d] = "dir" =>
    \A e \in Vnodes, n \in EntryNames :
      kind[e] = "dir" /\ dirent[e][n] = d =>
        /\ dotdot[d] = e
        /\ \A e2 \in Vnodes, n2 \in EntryNames :
             kind[e2] = "dir" /\ dirent[e2][n2] = d => <<e2, n2>> = <<e, n>>
====
