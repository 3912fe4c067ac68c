-------------------------------- MODULE Vfs --------------------------------
(***************************************************************************)
(* The state the VFS system calls of fs/vfs_syscall.c, fs/open.c and      *)
(* fs/namev.c work on, and the layers beneath them that this repository  *)
(* does not contain: the file_t and vnode reference counting of file.c   *)
(* and vnode.c, and the s5fs vnode operations (lookup, create, mkdir,     *)
(* rmdir, unlink, link, mknod, read, write, readdir).  Those are          *)
(* modelled from what their callers rely on.                             *)
(*                                                                         *)
(* One file system: vnodes are inode numbers; a directory maps names to   *)
(* vnodes and keeps its ".." entry; an inode is freed when its last       *)
(* vnode reference is put and no directory entry names it.  Paths are    *)
(* abstracted to sequences of components, each a name, ".", ".." or the   *)
(* empty component that "a//b" and "a/" contain.                          *)
(***************************************************************************)
EXTENDS Integers, FiniteSets, Sequences

CONSTANTS
  Procs,      \* process slots
  FirstProc,  \* init, the process running when the model starts
  NFILES,     \* size of p_files
  FileIds,    \* the file_t slab
  NoFile,     \* NULL file_t
  Vnodes,     \* inode numbers of the file system
  Root,       \* vfs_root_vn
  NoVnode,    \* NULL vnode
  Names,      \* names a path component or a directory entry may have
  Paths,      \* path arguments: [abs |-> BOOLEAN, toks |-> component sequence]
  MaxLen,     \* bound on file lengths and offsets
  MaxRef      \* bound on vn_refcount, which references never put let grow

ASSUME /\ FirstProc \in Procs /\ Root \in Vnodes
       /\ NoFile \notin FileIds /\ NoVnode \notin Vnodes
       /\ NFILES \in Nat \ {0} /\ MaxLen \in Nat

Fds == 0..(NFILES - 1)
SLASH == "/"
(* Names a directory entry can get: "/" too, when a call passes the      *)
(* basename dir_namev returns for the path "/" to an s5fs operation.     *)
EntryNames == Names \cup {SLASH}
Kinds == {"free", "dir", "reg", "chr", "blk"}

VARIABLES
  alive,   \* the processes that exist
  cwd,     \* p_cwd
  fd,      \* p_files
  file,    \* the file_t objects: f_refcount, f_mode, f_pos, f_vnode
  vref,    \* vn_refcount
  kind,    \* the inode's type, "free" for an unallocated inode
  dirent,  \* a directory's entries: name -> vnode
  dotdot,  \* a directory's ".." entry
  vlen,    \* vn_len
  hasdev   \* a device special file whose device exists (vn_cdev / vn_bdev)

fsvars == <<kind, dirent, dotdot, vlen, hasdev>>
vars == <<alive, cwd, fd, file, vref, kind, dirent, dotdot, vlen, hasdev>>

FreeFile == [ref |-> 0, mode |-> {}, pos |-> 0, vn |-> NoVnode]

(* Boot: the file system holds only its root, referenced by the vfs,   *)
(* by idle's p_cwd and by init's p_cwd; init has no files open.  The   *)
(* /dev directory kmain makes is outside the names the paths use.       *)
Init ==
  /\ alive = {FirstProc}
  /\ cwd = [p \in Procs |-> Root]
  /\ fd = [p \in Procs |-> [i \in Fds |-> NoFile]]
  /\ file = [f \in FileIds |-> FreeFile]
  /\ vref = [v \in Vnodes |-> IF v = Root THEN 3 ELSE 0]
  /\ kind = [v \in Vnodes |-> IF v = Root THEN "dir" ELSE "free"]
  /\ dirent = [v \in Vnodes |-> [n \in EntryNames |-> NoVnode]]
  /\ dotdot = [v \in Vnodes |-> Root]
  /\ vlen = [v \in Vnodes |-> 0]
  /\ hasdev = [v \in Vnodes |-> FALSE]

-----------------------------------------------------------------------------
(* get_empty_fd: the lowest free slot of p_files, -1 for -EMFILE.        *)
GetEmptyFd(p) ==
  IF \E i \in Fds : fd[p][i] = NoFile
    THEN CHOOSE i \in Fds : fd[p][i] = NoFile /\ \A j \in Fds : j < i => fd[p][j] # NoFile
    ELSE -1

(* fget(-1): a fresh file_t with one reference, NoFile when the slab is *)
(* exhausted (-ENOMEM).                                                 *)
FgetNew ==
  IF \E f \in FileIds : file[f].ref = 0
    THEN CHOOSE f \in FileIds : file[f].ref = 0
    ELSE NoFile

(* vget and vput over a sequence of each, and fref and fput the same way *)
(* on a file table: the net change of the counts.                       *)
Occurs(s, x) == Cardinality({i \in DOMAIN s : s[i] = x})
VAdjust(r, gets, puts) == [v \in DOMAIN r |-> r[v] + Occurs(gets, v) - Occurs(puts, v)]

(* fput of file f: the last put frees the file_t and vputs its vnode.    *)
FputFile(fl, f) ==
  IF fl[f].ref = 1 THEN [fl EXCEPT ![f] = FreeFile] ELSE [fl EXCEPT ![f].ref = @ - 1]
FputVnodes(fl, f) == IF fl[f].ref = 1 /\ fl[f].vn # NoVnode THEN <<fl[f].vn>> ELSE <<>>

(* vput's release of the inode: a vnode whose last reference is gone and *)
(* that no directory entry names is deleted (s5fs_delete_vnode).         *)
LinkedIn(k, de, v) == \E d \in Vnodes, n \in EntryNames : k[d] = "dir" /\ de[d][n] = v
Reclaimed(k, r, de) ==
  [v \in Vnodes |-> IF v # Root /\ k[v] # "free" /\ r[v] <= 0 /\ ~LinkedIn(k, de, v)
                      THEN "free" ELSE k[v]]

(* Ends a step that may have put the last reference of a vnode: the new *)
(* reference counts are vref'; k, de and len are the types, entries and *)
(* lengths the step leaves before the deletions.                        *)
SettleInodes(k, de, len) ==
  /\ kind' = Reclaimed(k, vref', de)
  /\ dirent' = de
  /\ vlen' = [v \in Vnodes |-> IF kind'[v] = "free" THEN 0 ELSE len[v]]
  /\ hasdev' = [v \in Vnodes |-> kind'[v] # "free" /\ hasdev[v]]

-----------------------------------------------------------------------------
(* The s5fs vnode operations the VFS layer calls.                        *)

(* s5fs_lookup on a directory: "." and ".." from the directory's own     *)
(* entries, any other name from its entries.                             *)
FsLookup(d, n) ==
  CASE n = "." -> [err |-> "OK", vn |-> d]
    [] n = ".." -> [err |-> "OK", vn |-> dotdot[d]]
    [] n \in EntryNames /\ dirent[d][n] # NoVnode -> [err |-> "OK", vn |-> dirent[d][n]]
    [] OTHER -> [err |-> "ENOENT", vn |-> NoVnode]

(* The inode s5fs allocates for a new file, NoVnode when there is none. *)
FsAlloc ==
  IF \E v \in Vnodes : kind[v] = "free" THEN CHOOSE v \in Vnodes : kind[v] = "free"
  ELSE NoVnode

(* Entries are added only to a directory that is still linked into the *)
(* tree: creating in a removed directory fails with -ENOENT.            *)
FsLinked(d) == d = Root \/ LinkedIn(kind, dirent, d)

(* s5fs_create, s5fs_mknod and s5fs_mkdir: the error of making an entry *)
(* in d, and the inode v of kind k (dev: its device exists) it makes.   *)
FsCreateErr(d) ==
  IF ~FsLinked(d) THEN "ENOENT" ELSE IF FsAlloc = NoVnode THEN "ENOSPC" ELSE "OK"
FsCreate(d, n, v, k, dev) ==
  /\ kind' = [kind EXCEPT ![v] = k]
  /\ dirent' = [dirent EXCEPT ![d][n] = v, ![v] = [m \in EntryNames |-> NoVnode]]
  /\ dotdot' = [dotdot EXCEPT ![v] = d]
  /\ hasdev' = [hasdev EXCEPT ![v] = dev]
  /\ UNCHANGED vlen

(* The entries of directory d after s5fs adds or removes n.             *)
AddEntry(d, n, v) == [dirent EXCEPT ![d][n] = v]
DelEntry(d, n) == [dirent EXCEPT ![d][n] = NoVnode]

(* s5fs_rmdir's own checks: the entry exists, is a directory and holds  *)
(* no entries.                                                           *)
FsRmdirErr(d, n) ==
  IF n \notin EntryNames \/ dirent[d][n] = NoVnode THEN "ENOENT"
  ELSE IF kind[dirent[d][n]] # "dir" THEN "ENOTDIR"
  ELSE IF \E m \in EntryNames : dirent[dirent[d][n]][m] # NoVnode THEN "ENOTEMPTY"
  ELSE "OK"

(* s5fs_read of up to one byte at pos of a regular file; a device read  *)
(* transfers the byte.                                                   *)
FsRead(v, pos) ==
  IF kind[v] = "reg" THEN (IF pos < vlen[v] THEN 1 ELSE 0) ELSE 1

(* s5fs_readdir at entry pos: one entry while pos is before the end of  *)
(* ".", ".." and the named entries, 0 at the end.                        *)
FsReaddir(v, pos) ==
  IF pos < 2 + Cardinality({n \in EntryNames : dirent[v][n] # NoVnode}) THEN 1 ELSE 0

-----------------------------------------------------------------------------
(* Reference holders.                                                   *)
FdHolders(f) == Cardinality({pi \in alive \X Fds : fd[pi[1]][pi[2]] = f})
VnHolders(v) ==
  (IF v = Root THEN 2 ELSE 0)     \* vfs_root_vn and idle's p_cwd
  + Cardinality({p \in alive : cwd[p] = v})
  + Cardinality({f \in FileIds : file[f].ref > 0 /\ file[f].vn = v})

(* The reference counts of fget/fput, fref, vget/vput and vref never    *)
(* fall below the references held: every p_files slot's file_t counts  *)
(* at least the slots naming it, every vnode at least the p_cwd, file_t *)
(* and vfs references to it, and a held vnode has not been deleted.     *)
(* Every call that puts a file_t or a vnode (do_close, do_dup2,          *)
(* proc_cleanup, do_chdir, do_link, the error paths of do_open) must    *)
(* put only what it took.                                                *)
NoDanglingRef ==
  /\ \A f \in FileIds : file[f].ref >= FdHolders(f)
  /\ \A v \in Vnodes : vref[v] >= VnHolders(v) /\ (VnHolders(v) > 0 => kind[v] # "free")
====
