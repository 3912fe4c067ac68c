------------------------------ MODULE VfsFirst ------------------------------
(***************************************************************************)
(* The VFS system calls of the vfs-submit kernel: fs/namev.c, fs/open.c   *)
(* and fs/vfs_syscall.c of src/vfs-submit, an earlier build of the same   *)
(* layer whose path resolution and error paths differ from VfsVm's.  That *)
(* tree has no process code, so one process makes the calls.  Each call  *)
(* is one step; do_rename is two, do_link's and do_unlink's.              *)
(***************************************************************************)
EXTENDS Vfs

VARIABLE
  renaming   \* <<old path>> while do_rename has still to unlink it

allvars == <<vars, renaming>>

FdArgs == -1..NFILES
Access == {"rdonly", "wronly", "rdwr", "bad"}
Whence == {"SEEK_SET", "SEEK_CUR", "SEEK_END", "bad"}
Offsets == {-1, 0, 1}
Modes == {"chr", "blk", "reg"}
Empty(path) == ~path.abs /\ path.toks = <<>>

-----------------------------------------------------------------------------
(* lookup: -ENOTDIR unless dir is a directory; the empty name (len 0) is *)
(* dir itself; else s5fs_lookup, which knows "." and "..".               *)
Lookup(d, n) ==
  IF kind[d] # "dir" THEN [err |-> "ENOTDIR", vn |-> NoVnode]
  ELSE IF n = "" THEN [err |-> "OK", vn |-> d]
  ELSE FsLookup(d, n)

(* dir_namev's loop: each component but the last is looked up (its      *)
(* error returned) and the result put at once and used as the next base.*)
RECURSIVE Walk(_, _)
Walk(d, toks) ==
  IF toks = <<>> THEN [err |-> "OK", vn |-> d]
  ELSE LET r == Lookup(d, Head(toks))
       IN  IF r.err # "OK" THEN r ELSE Walk(r.vn, Tail(toks))

(* dir_namev: the empty path is -EINVAL; the last component is not      *)
(* looked up; the base it ends at is vget and must be a directory.  "/"  *)
(* gives the root and the empty name.                                   *)
DirNamev(p, path) ==
  LET t == path.toks
      w == Walk(IF path.abs THEN Root ELSE cwd[p], SubSeq(t, 1, Len(t) - 1))
      Fail(e) == [err |-> e, dir |-> NoVnode, name |-> ""]
  IN
  IF Empty(path) THEN Fail("EINVAL")
  ELSE IF w.err # "OK" THEN Fail(w.err)
  ELSE IF kind[w.vn] # "dir" THEN Fail("ENOTDIR")
  ELSE [err |-> "OK", dir |-> w.vn, name |-> IF t = <<>> THEN "" ELSE t[Len(t)]]

(* open_namev: dir_namev, vput of the directory, lookup of the name in  *)
(* it, and with O_CREAT s5fs_create for -ENOENT.  The caller holds vn.   *)
OpenNamev(p, path, creat) ==
  LET dn == DirNamev(p, path)
      lk == Lookup(dn.dir, dn.name)
      Res(e, v, new) == [err |-> e, vn |-> v, new |-> new, dir |-> dn.dir, name |-> dn.name]
  IN
  IF dn.err # "OK" THEN Res(dn.err, NoVnode, NoVnode)
  ELSE IF lk.err = "OK" THEN Res("OK", lk.vn, NoVnode)
  ELSE IF ~(creat /\ lk.err = "ENOENT") THEN Res(lk.err, NoVnode, NoVnode)
  ELSE IF FsCreateErr(dn.dir) # "OK" THEN Res(FsCreateErr(dn.dir), NoVnode, NoVnode)
  ELSE Res("OK", FsAlloc, FsAlloc)

-----------------------------------------------------------------------------
(* A p_files slot whose file_t has been freed: what a call would read   *)
(* through it is undefined, and the model does not follow it.           *)
Freed(f) == f # NoFile /\ file[f].ref = 0

(* fget(fd) of the fd calls, after their range checks.                   *)
FileOf(p, i) == IF i \in Fds THEN fd[p][i] ELSE NoFile

Call(p) == p \in alive /\ renaming[p] = <<>>

(* do_open: the access mode is checked first; get_empty_fd; the slot is *)
(* set to fget(-1) at once; f_mode from O_APPEND and the access mode;    *)
(* open_namev.  Its error, or -EISDIR for a directory opened for         *)
(* writing, fputs the file_t (freeing it) but leaves it in the slot.    *)
DoOpen(p, path, acc, app, creat) ==
  LET i == GetEmptyFd(p)
      f == FgetNew
      r == OpenNamev(p, path, creat)
      mode == (CASE acc = "rdonly" -> {"read"} [] acc = "wronly" -> {"write"}
                 [] OTHER -> {"read", "write"}) \cup (IF app THEN {"append"} ELSE {})
  IN
  /\ Call(p)
  /\ IF acc = "bad" \/ Empty(path) \/ i = -1 \/ f = NoFile THEN UNCHANGED vars
     ELSE IF r.err # "OK" \/ (kind[r.vn] = "dir" /\ acc # "rdonly")
       THEN /\ fd' = [fd EXCEPT ![p][i] = f]
            /\ UNCHANGED <<alive, cwd, file, vref, fsvars>>
     ELSE /\ fd' = [fd EXCEPT ![p][i] = f]
          /\ file' = [file EXCEPT ![f] = [ref |-> 1, mode |-> mode, pos |-> 0, vn |-> r.vn]]
          /\ vref' = [vref EXCEPT ![r.vn] = @ + 1]
          /\ IF r.new = NoVnode THEN UNCHANGED fsvars
             ELSE FsCreate(r.dir, r.name, r.new, "reg", FALSE)
          /\ UNCHANGED <<alive, cwd>>
  /\ UNCHANGED renaming

(* do_close: fput and clear the slot.                                    *)
DoClose(p, i) ==
  LET f == FileOf(p, i) IN
  /\ Call(p) /\ ~Freed(f)
  /\ IF f = NoFile THEN UNCHANGED vars
     ELSE /\ fd' = [fd EXCEPT ![p][i] = NoFile]
          /\ file' = FputFile(file, f)
          /\ vref' = VAdjust(vref, <<>>, FputVnodes(file, f))
          /\ SettleInodes(kind, dirent, vlen)
          /\ UNCHANGED <<alive, cwd, dotdot>>
  /\ UNCHANGED renaming

(* do_read: -EBADF unless open for reading, -EISDIR for a directory;    *)
(* f_pos grows by the count read.                                        *)
DoRead(p, i) ==
  LET f == FileOf(p, i)
      n == FsRead(file[f].vn, file[f].pos)
  IN
  /\ Call(p) /\ ~Freed(f)
  /\ IF f = NoFile \/ "read" \notin file[f].mode \/ kind[file[f].vn] = "dir"
       THEN UNCHANGED vars
       ELSE /\ file[f].pos + n <= MaxLen
            /\ file' = [file EXCEPT ![f].pos = @ + n]
            /\ UNCHANGED <<alive, cwd, fd, vref, fsvars>>
  /\ UNCHANGED renaming

(* do_write: -EBADF unless open for writing; with FMODE_APPEND f_pos is  *)
(* set by do_lseek(fd, 0, SEEK_END); one byte written at f_pos, which    *)
(* then moves past it.                                                   *)
DoWrite(p, i) ==
  LET f == FileOf(p, i)
      v == file[f].vn
      pos == IF "append" \in file[f].mode THEN vlen[v] ELSE file[f].pos
  IN
  /\ Call(p) /\ ~Freed(f)
  /\ IF f = NoFile \/ "write" \notin file[f].mode
       THEN UNCHANGED vars
       ELSE /\ pos + 1 <= MaxLen
            /\ file' = [file EXCEPT ![f].pos = pos + 1]
            /\ vlen' = IF kind[v] = "reg" /\ pos + 1 > vlen[v]
                         THEN [vlen EXCEPT ![v] = pos + 1] ELSE vlen
            /\ UNCHANGED <<alive, cwd, fd, vref, kind, dirent, dotdot, hasdev>>
  /\ UNCHANGED renaming

(* do_dup: fget(fd) gives the new slot its reference; without a free    *)
(* slot it is put back.                                                  *)
DoDup(p, i) ==
  LET f == FileOf(p, i)
      n == GetEmptyFd(p)
  IN
  /\ Call(p) /\ ~Freed(f)
  /\ IF f = NoFile \/ n = -1 THEN UNCHANGED vars
     ELSE /\ fd' = [fd EXCEPT ![p][n] = f]
          /\ file' = [file EXCEPT ![f].ref = @ + 1]
          /\ UNCHANGED <<alive, cwd, vref, fsvars>>
  /\ UNCHANGED renaming

(* do_dup2: fget(ofd); ofd = nfd puts it back; an open nfd is fget       *)
(* (a reference never put) and closed with do_close; the slot takes     *)
(* ofd's file_t.                                                          *)
DoDup2(p, i, j) ==
  LET f == FileOf(p, i)
      g == FileOf(p, j)
  IN
  /\ Call(p) /\ ~Freed(f) /\ ~Freed(g)
  /\ IF f = NoFile \/ j \notin Fds \/ i = j THEN UNCHANGED vars
     ELSE /\ fd' = [fd EXCEPT ![p][j] = f]
          /\ file' = [file EXCEPT ![f].ref = @ + 1]
          /\ UNCHANGED <<alive, cwd, vref, fsvars>>
  /\ UNCHANGED renaming

(* do_getdent: -ENOTDIR unless a directory; f_pos grows by readdir's    *)
(* result.                                                               *)
DoGetdent(p, i) ==
  LET f == FileOf(p, i) IN
  /\ Call(p) /\ ~Freed(f)
  /\ IF f = NoFile \/ kind[file[f].vn] # "dir" THEN UNCHANGED vars
     ELSE /\ file[f].pos + FsReaddir(file[f].vn, file[f].pos) <= MaxLen
          /\ file' = [file EXCEPT ![f].pos = @ + FsReaddir(file[f].vn, file[f].pos)]
          /\ UNCHANGED <<alive, cwd, fd, vref, fsvars>>
  /\ UNCHANGED renaming

(* do_lseek: the fd range, then whence, then fget; a negative result    *)
(* sets f_pos to 0 and returns -EINVAL.                                  *)
DoLseek(p, i, off, wh) ==
  LET f == FileOf(p, i)
      pos == CASE wh = "SEEK_SET" -> off
               [] wh = "SEEK_CUR" -> file[f].pos + off
               [] OTHER -> vlen[file[f].vn] + off
  IN
  /\ Call(p) /\ ~Freed(f)
  /\ IF i \notin Fds \/ wh = "bad" \/ f = NoFile THEN UNCHANGED vars
     ELSE /\ pos <= MaxLen
          /\ file' = [file EXCEPT ![f].pos = IF pos < 0 THEN 0 ELSE pos]
          /\ UNCHANGED <<alive, cwd, fd, vref, fsvars>>
  /\ UNCHANGED renaming

(* do_mknod and do_mkdir: dir_namev, vput of the directory, lookup of   *)
(* the name: found is -EEXIST, -ENOENT makes the node in s5fs.          *)
MakeNode(p, path, k, dev) ==
  LET dn == DirNamev(p, path) IN
  /\ Call(p)
  /\ IF dn.err # "OK" \/ Lookup(dn.dir, dn.name).err # "ENOENT"
        \/ FsCreateErr(dn.dir) # "OK"
       THEN UNCHANGED vars
       ELSE /\ FsCreate(dn.dir, dn.name, FsAlloc, k, dev)
            /\ UNCHANGED <<alive, cwd, fd, file, vref>>
  /\ UNCHANGED renaming

DoMknod(p, path, mode, dev) ==
  IF mode \notin {"chr", "blk"} THEN Call(p) /\ UNCHANGED allvars
  ELSE MakeNode(p, path, mode, dev)

DoMkdir(p, path) == MakeNode(p, path, "dir", FALSE)

(* do_rmdir: "." is -EINVAL, ".." -ENOTEMPTY, else s5fs_rmdir.          *)
DoRmdir(p, path) ==
  LET dn == DirNamev(p, path) IN
  /\ Call(p)
  /\ IF dn.err # "OK" \/ dn.name \in {".", ".."} \/ FsRmdirErr(dn.dir, dn.name) # "OK"
       THEN UNCHANGED vars
       ELSE /\ UNCHANGED <<alive, cwd, fd, file, vref, dotdot>>
            /\ SettleInodes(kind, DelEntry(dn.dir, dn.name), vlen)
  /\ UNCHANGED renaming

(* do_unlink of path, the caller's rename state set to after: lookup of *)
(* the name (its error returned), -EISDIR for a directory, else          *)
(* s5fs_unlink; both vnodes are vput.                                    *)
Unlink(p, path, after) ==
  LET dn == DirNamev(p, path)
      lk == Lookup(dn.dir, dn.name)
  IN
  /\ renaming' = [renaming EXCEPT ![p] = after]
  /\ IF dn.err # "OK" \/ lk.err # "OK" \/ kind[lk.vn] = "dir" THEN UNCHANGED vars
     ELSE /\ UNCHANGED <<alive, cwd, fd, file, vref, dotdot>>
          /\ SettleInodes(kind, DelEntry(dn.dir, dn.name), vlen)

(* do_link from to to, the caller's rename state set to after whatever  *)
(* the result: open_namev(from) takes a reference, and -EISDIR returns  *)
(* without putting it; past a successful dir_namev(to) the from vnode   *)
(* is vput twice, before and after the lookup of the name, whether the  *)
(* name is found (-EEXIST) or s5fs_link adds the entry.                  *)
Link(p, from, to, after) ==
  LET src == OpenNamev(p, from, FALSE)
      dn == DirNamev(p, to)
      lk == Lookup(dn.dir, dn.name)
  IN
  /\ renaming' = [renaming EXCEPT ![p] = after]
  /\ IF Empty(from) \/ Empty(to) \/ src.err # "OK" THEN UNCHANGED vars
     ELSE IF kind[src.vn] = "dir"
       THEN /\ vref' = [vref EXCEPT ![src.vn] = @ + 1]
            /\ UNCHANGED <<alive, cwd, fd, file, fsvars>>
     ELSE IF dn.err # "OK" THEN UNCHANGED vars
     ELSE /\ vref' = [vref EXCEPT ![src.vn] = @ - 1]
          /\ dirent' = IF lk.err = "ENOENT" /\ FsLinked(dn.dir)
                         THEN AddEntry(dn.dir, dn.name, src.vn) ELSE dirent
          /\ UNCHANGED <<alive, cwd, fd, file, kind, dotdot, vlen, hasdev>>

DoUnlink(p, path) == Call(p) /\ Unlink(p, path, <<>>)
DoLink(p, from, to) == Call(p) /\ Link(p, from, to, <<>>)

(* do_rename: -EINVAL for an empty name; do_link(old, new), its result  *)
(* ignored; then do_unlink(old).                                         *)
DoRename(p, old, new) ==
  /\ Call(p)
  /\ IF Empty(old) \/ Empty(new) THEN UNCHANGED allvars
     ELSE Link(p, old, new, <<old>>)

RenameUnlink(p) ==
  /\ p \in alive /\ renaming[p] # <<>>
  /\ Unlink(p, renaming[p][1], <<>>)

(* do_chdir: open_namev(path), -ENOTDIR for a non-directory; else the   *)
(* old p_cwd is vput and the new vnode's reference kept.                 *)
DoChdir(p, path) ==
  LET r == OpenNamev(p, path, FALSE) IN
  /\ Call(p)
  /\ IF r.err # "OK" \/ kind[r.vn] # "dir" THEN UNCHANGED vars
     ELSE /\ cwd' = [cwd EXCEPT ![p] = r.vn]
          /\ vref' = VAdjust(vref, <<r.vn>>, <<cwd[p]>>)
          /\ UNCHANGED <<alive, fd, file, dotdot>>
          /\ SettleInodes(kind, dirent, vlen)
  /\ UNCHANGED renaming

-----------------------------------------------------------------------------
FirstInit == Init /\ renaming = [p \in Procs |-> <<>>]

FirstNext ==
  /\ \E p \in Procs :
      \/ \E path \in Paths, acc \in Access, app, creat \in BOOLEAN :
           DoOpen(p, path, acc, app, creat)
      \/ \E i \in FdArgs :
           DoClose(p, i) \/ DoRead(p, i) \/ DoWrite(p, i) \/ DoDup(p, i) \/ DoGetdent(p, i)
      \/ \E i, j \in FdArgs : DoDup2(p, i, j)
      \/ \E i \in FdArgs, off \in Offsets, wh \in Whence : DoLseek(p, i, off, wh)
      \/ \E path \in Paths, mode \in Modes, dev \in BOOLEAN : DoMknod(p, path, mode, dev)
      \/ \E path \in Paths :
           DoMkdir(p, path) \/ DoRmdir(p, path) \/ DoUnlink(p, path) \/ DoChdir(p, path)
      \/ \E from, to \in Paths : DoLink(p, from, to) \/ DoRename(p, from, to)
      \/ RenameUnlink(p)
  /\ \A v \in Vnodes : vref'[v] <= MaxRef

FirstSpec == FirstInit /\ [][FirstNext]_allvars
====
