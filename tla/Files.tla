-------------------------------- MODULE Files --------------------------------
(***************************************************************************)
(* The file system (fs/): the inode and sector maps, the array of inodes   *)
(* and the root directory on the disk, the inode table that caches inodes, *)
(* the descriptor table, and the filp[] of each process.                   *)
(*                                                                         *)
(* FS serves one request at a time and waits for the disk in the middle of *)
(* it without listening to anybody else, so a request is one step.  What   *)
(* interleaves is the requests of different processes, and the two halves  *)
(* of a fork: MM copies filp[] first and FS counts it later.               *)
(*                                                                         *)
(* A request that is refused with -1 and changes nothing is no step; one   *)
(* that ends in a panic or a failed assertion sets `failed' and is the     *)
(* last.  Nothing survives a reboot: init_fs makes a new file system.      *)
(***************************************************************************)
EXTENDS Naturals, FiniteSets, FiniteSetsExt

CONSTANTS
    Procs,         \* processes
    Paths,         \* the paths that programs use
    NewPaths,      \* the ones they create
    LongNames,     \* the ones that fill all of dir_entry.name
    DOT, TTY, TAR, \* the paths "/.", "/dev_tty0" and "/cmd.tar"
    NONE, GARBLED, \* an empty name, a mixture of two names
    NR_FILES, NR_FILE_DESC, NR_INODE,
    NrInodes,      \* usable bits of the inode map
    NrSects,       \* usable bits of the sector map
    NR_DEFAULT_FILE_SECTS, SECTOR_SIZE,
    DirSlots,      \* dir_entry slots in a sector
    INSTALL_START_BIT, INSTALL_NR_SECTS,   \* cmd.tar in the sector map
    Lengths,       \* byte counts of reads and writes
    MaxSlots,      \* bound: directory slots
    MaxCnt         \* bound: references to an inode

ASSUME FilesAssumption ==
    /\ IsFiniteSet(Procs)
    /\ LongNames \subseteq NewPaths /\ NewPaths \subseteq Paths
    /\ {NR_FILES, NR_FILE_DESC, NR_INODE, NrInodes, NrSects, SECTOR_SIZE,
        NR_DEFAULT_FILE_SECTS, DirSlots, INSTALL_START_BIT, INSTALL_NR_SECTS,
        MaxSlots, MaxCnt} \subseteq Nat \ {0}
    /\ NrInodes >= 3 /\ MaxSlots > 3
    /\ Lengths \subseteq Nat \ {0}
    /\ {NONE, GARBLED} \cap Paths = {}
    \* mkfs sets the bits of the root directory and of cmd.tar
    /\ NR_DEFAULT_FILE_SECTS <= NrSects
    /\ INSTALL_START_BIT + INSTALL_NR_SECTS - 1 <= NrSects

VARIABLES
    filp,         \* per process: descriptor of each fd, 0 for none
    f_desc_table, \* descriptors; fd_inode is a slot of inode_table or 0
    inode_table,  \* the cache: inode number, reference count, inode
    inode_array,  \* the inodes on disk
    imap, smap,   \* the bits set in the two maps
    dir,          \* the slots of the root directory
    alive,        \* the processes that exist
    forking,      \* parent and child of a fork MM has begun, or << >>
    failed        \* the system has stopped

vars == <<filp, f_desc_table, inode_table, inode_array, imap, smap, dir, alive,
          forking, failed>>
disk == <<inode_array, imap, smap, dir>>

Fds    == 1..NR_FILES
Descs  == 1..NR_FILE_DESC
Cached == 1..NR_INODE
Inums  == 1..NrInodes

Inode(mode, size, start, nr) ==
    [i_mode |-> mode, i_size |-> size, i_start_sect |-> start, i_nr_sects |-> nr]
NoInode   == Inode("none", 0, 0, 0)
FreeSlot  == [i_num |-> 0, i_cnt |-> 0, ino |-> NoInode]
FreeDesc  == [fd_pos |-> 0, fd_cnt |-> 0, fd_inode |-> 0]
NoEntry   == [inode_nr |-> 0, name |-> NONE]

Extent(ino) == ino.i_start_sect .. ino.i_start_sect + ino.i_nr_sects - 1

RootInode == Inode("I_DIRECTORY", 3, 1, NR_DEFAULT_FILE_SECTS)
TtyInode  == Inode("I_CHAR_SPECIAL", 0, 0, 0)
TarInode  == Inode("I_REGULAR", INSTALL_NR_SECTS * SECTOR_SIZE,
                   INSTALL_START_BIT, INSTALL_NR_SECTS)

\* The file system on the disk, with one of the three terminals.  The sizes of
\* directories count entries, sectors are numbered by their bit in the map.
mkfs ==
    /\ imap = 0..3
    /\ smap = 0..NR_DEFAULT_FILE_SECTS \cup Extent(TarInode)
    /\ inode_array = [n \in Inums |-> CASE n = 1 -> RootInode
                                        [] n = 2 -> TtyInode
                                        [] n = 3 -> TarInode
                                        [] OTHER -> NoInode]
    /\ dir = [k \in 1..MaxSlots |->
                 CASE k = 1 -> [inode_nr |-> 1, name |-> DOT]
                   [] k = 2 -> [inode_nr |-> 2, name |-> TTY]
                   [] k = 3 -> [inode_nr |-> 3, name |-> TAR]
                   [] OTHER -> NoEntry]

init_fs ==
    /\ f_desc_table = [d \in Descs |-> FreeDesc]
    /\ inode_table = [s \in Cached |->
                         IF s = 1 THEN [i_num |-> 1, i_cnt |-> 1, ino |-> RootInode]
                                  ELSE FreeSlot]
    /\ mkfs

Init ==
    /\ init_fs
    /\ filp = [p \in Procs |-> [fd \in Fds |-> 0]]
    /\ \E p \in Procs : alive = {p}
    /\ forking = <<>>
    /\ failed = "no"

-----------------------------------------------------------------------------
(* The inode table                                                         *)

root == inode_table[1]   \* init_fs takes the first slot and never gives it up

Holds(s, num)  == inode_table[s].i_cnt > 0 /\ inode_table[s].i_num = num
InTable(num)   == \E s \in Cached : Holds(s, num)
FreeSlots      == {s \in Cached : inode_table[s].i_cnt = 0}
TableFull(num) == ~InTable(num) /\ FreeSlots = {}

\* The slot in which get_inode finds the inode or puts it.
SlotFor(num) ==
    IF InTable(num) THEN CHOOSE s \in Cached : Holds(s, num) ELSE Min(FreeSlots)

\* The inode table after get_inode(num).
get_inode(num) ==
    LET old == inode_table[SlotFor(num)] IN
    [inode_table EXCEPT ![SlotFor(num)] =
        [i_num |-> num,
         i_cnt |-> IF InTable(num) THEN old.i_cnt + 1 ELSE 1,
         ino   |-> IF InTable(num) THEN old.ino ELSE inode_array[num]]]

\* The inodes on disk after sync_inode of a slot t of the inode table.
sync_inode(array, t) == [array EXCEPT ![t.i_num] = t.ino]

\* The slot t after `n' times put_inode.  A slot without references is free:
\* whatever is left in it is never read again.
Released(t, n) == IF t.i_cnt = n THEN FreeSlot ELSE [t EXCEPT !.i_cnt = @ - n]

\* The descriptor t after `n' of the fds that share it are closed.
Closed(t, n) == IF t.fd_cnt = n THEN FreeDesc ELSE [t EXCEPT !.fd_cnt = @ - n]

-----------------------------------------------------------------------------
(* The directory                                                           *)

\* search_file looks at one slot too many, except at the end of a sector.
Searched ==
    1..(IF root.ino.i_size % DirSlots = 0 THEN root.ino.i_size
                                          ELSE root.ino.i_size + 1)

\* The inode number of a path, 0 when there is none.
search_file(path) ==
    LET found == {k \in Searched \cap 1..MaxSlots : dir[k].name = path}
    IN  IF found = {} THEN 0 ELSE dir[Min(found)].inode_nr

\* The slot new_dir_entry writes: the first free one, or one more.
EntrySlot ==
    Min({k \in 1..root.ino.i_size : dir[k].inode_nr = 0} \cup {root.ino.i_size + 1})

\* strcpy of a name over what the slot held; a name that fills the slot puts
\* its NUL into the inode number of the next slot.
new_dir_entry(num, name) ==
    LET k   == EntrySlot
        old == dir[k].name
    IN  [j \in 1..MaxSlots |->
            CASE j = k -> [inode_nr |-> num,
                           name |-> IF old \in LongNames \ {name}
                                       /\ name \notin LongNames
                                    THEN GARBLED ELSE name]
              [] j = k + 1 /\ name \in LongNames /\ k % DirSlots # 0 ->
                    [dir[j] EXCEPT !.inode_nr = 0]
              [] OTHER -> dir[j]]

-----------------------------------------------------------------------------
(* The maps                                                                *)

\* alloc_imap_bit: the first free bit.
alloc_imap_bit == Min(0..NrInodes \ imap)

FreeBits == 0..NrSects \ smap

\* alloc_smap_bit: the first free bits, wherever they are.  The file starts at
\* the first of them.
alloc_smap_bit ==
    {b \in FreeBits : Cardinality({c \in FreeBits : c < b}) < NR_DEFAULT_FILE_SECTS}

-----------------------------------------------------------------------------
(* Requests                                                                *)

\* A process that can ask FS for something: it is not in the middle of a fork.
Asks(p) == failed = "no" /\ p \in alive

FreeFds(p) == {fd \in Fds : filp[p][fd] = 0}
FreeDescs  == {d \in Descs : f_desc_table[d].fd_inode = 0}

\* do_open connects the process, the descriptor and the inode.
Connect(p, slot) ==
    LET d == Min(FreeDescs) IN
    /\ filp' = [filp EXCEPT ![p][Min(FreeFds(p))] = d]
    /\ f_desc_table' = [f_desc_table EXCEPT ![d] =
          [fd_pos |-> 0, fd_cnt |-> 1, fd_inode |-> slot]]

\* do_open of a file that exists.
OpenFile(p, path) ==
    LET num == search_file(path) IN
    /\ Asks(p)
    /\ FreeFds(p) # {} /\ FreeDescs # {}
    /\ num # 0 /\ ~TableFull(num)
    /\ inode_table' = get_inode(num)
    /\ Connect(p, SlotFor(num))
    /\ UNCHANGED <<disk, alive, forking, failed>>

\* The slot of a new file with these bits of the sector map.
new_inode(num, bits) ==
    [i_num |-> num, i_cnt |-> 1,
     ino |-> Inode("I_REGULAR", 0, Min(bits), NR_DEFAULT_FILE_SECTS)]

\* do_open with O_CREAT of a file that does not exist: create_file takes an
\* inode and sectors, makes the inode and enters the name.
create_file(p, path) ==
    LET num  == alloc_imap_bit
        bits == alloc_smap_bit
        new  == new_inode(num, bits)
        dot  == [root EXCEPT !.ino.i_size = Max({@, EntrySlot})]
        slot == SlotFor(num)
    IN
    /\ Asks(p)
    /\ FreeFds(p) # {} /\ FreeDescs # {}
    /\ search_file(path) = 0
    /\ 0..NrInodes \ imap # {} /\ EntrySlot <= MaxSlots
    /\ Cardinality(bits) = NR_DEFAULT_FILE_SECTS
    /\ ~TableFull(num)
    /\ imap' = imap \cup {num}
    /\ smap' = smap \cup bits
    /\ dir' = new_dir_entry(num, path)
    /\ inode_table' = [get_inode(num) EXCEPT ![slot] = new, ![1] = dot]
    /\ inode_array' = sync_inode(sync_inode(inode_array, new), dot)
    /\ Connect(p, slot)
    /\ UNCHANGED <<alive, forking, failed>>

\* do_close.  An fd that is not open is outside the model: the code follows a
\* null pointer.
do_close(p, fd) ==
    LET d == filp[p][fd]
        s == f_desc_table[d].fd_inode
    IN
    /\ Asks(p) /\ d # 0
    /\ inode_table' = [inode_table EXCEPT ![s] = Released(inode_table[s], 1)]
    /\ f_desc_table' = [f_desc_table EXCEPT
                           ![d] = Closed(f_desc_table[d], 1)]
    /\ filp' = [filp EXCEPT ![p][fd] = 0]
    /\ UNCHANGED <<disk, alive, forking, failed>>

\* How far a read or a write of len bytes at pos goes.
EndOf(op, ino, pos, len) ==
    Min({pos + len, IF op = "READ" THEN ino.i_size
                                   ELSE ino.i_nr_sects * SECTOR_SIZE})

\* Mutant: the size grows in the inode table only.
do_rdwt_NoSync(p, fd, op, len) ==
    LET d       == filp[p][fd]
        desc    == f_desc_table[d]
        slot    == inode_table[desc.fd_inode]
        pos_end == EndOf(op, slot.ino, desc.fd_pos, len)
        grown   == [slot EXCEPT !.ino.i_size = Max({@, pos_end})]
    IN
    /\ Asks(p) /\ d # 0
    /\ slot.ino.i_mode = "I_REGULAR"
    /\ f_desc_table' = [f_desc_table EXCEPT ![d].fd_pos = pos_end]
    /\ inode_table' = [inode_table EXCEPT ![desc.fd_inode] = grown]
    /\ UNCHANGED <<filp, inode_array, imap, smap, dir, alive, forking, failed>>

\* do_rdwt on a regular file opened with O_RDWR, as every program does: the
\* sectors are read in chunks, and written back after the bytes of the caller
\* have been put into them; the position moves, the size follows it.
\* (Terminals are in Terminal; no program reads or writes the directory.)
do_rdwt(p, fd, op, len) ==
    LET d       == filp[p][fd]
        desc    == f_desc_table[d]
        slot    == inode_table[desc.fd_inode]
        pos_end == EndOf(op, slot.ino, desc.fd_pos, len)
        grown   == [slot EXCEPT !.ino.i_size = Max({@, pos_end})]
    IN
    /\ Asks(p) /\ d # 0
    /\ slot.ino.i_mode = "I_REGULAR"
    /\ f_desc_table' = [f_desc_table EXCEPT ![d].fd_pos = pos_end]
    /\ inode_table' = [inode_table EXCEPT ![desc.fd_inode] = grown]
    /\ inode_array' = sync_inode(inode_array, grown)
    /\ UNCHANGED <<filp, imap, smap, dir, alive, forking, failed>>

\* Mutant: an inode that others have open may be removed.
InUse_Ignored(path) == FALSE

\* do_unlink counts its own reference too.
InUse(path) ==
    LET num == search_file(path) IN
    \/ inode_array[num].i_mode # "I_REGULAR"
    \/ get_inode(num)[SlotFor(num)].i_cnt > 1

\* do_unlink of something that is not a regular file or is open: it returns
\* without put_inode.
UnlinkRefused(p, path) ==
    LET num == search_file(path) IN
    /\ Asks(p)
    /\ num # 0 /\ ~TableFull(num)
    /\ InUse(path)
    /\ get_inode(num)[SlotFor(num)].i_cnt <= MaxCnt
    /\ inode_table' = get_inode(num)
    /\ UNCHANGED <<filp, f_desc_table, disk, alive, forking, failed>>

\* The slots do_unlink looks through for the inode number.
SlotsOf(num) == {k \in 1..root.ino.i_size : dir[k].inode_nr = num}

\* do_unlink: the bits in the maps, the inode and the directory entry are
\* cleared.  When it was the last entry, the size of the directory becomes the
\* number of entries in use before it.
Unlinked(p, path) ==
    LET num  == search_file(path)
        slot == SlotFor(num)
        k    == Min(SlotsOf(num))
        gone == [inode_table[slot] EXCEPT !.i_num = num, !.ino = NoInode]
        dot  == [root EXCEPT !.ino.i_size =
                    IF k = @ THEN Cardinality({j \in 1..k - 1 : dir[j].inode_nr # 0})
                             ELSE @]
    IN
    /\ Asks(p)
    /\ num # 0 /\ ~TableFull(num)
    /\ ~InUse(path)
    /\ Extent(inode_array[num]) \subseteq smap
    /\ SlotsOf(num) # {}
    /\ imap' = imap \ {num}
    /\ smap' = smap \ Extent(inode_array[num])
    /\ dir' = [dir EXCEPT ![k] = NoEntry]
    /\ inode_table' = [inode_table EXCEPT ![slot] = FreeSlot, ![1] = dot]
    /\ inode_array' = sync_inode(sync_inode(inode_array, gone), dot)
    /\ UNCHANGED <<filp, f_desc_table, alive, forking, failed>>

\* do_unlink fails an assertion of its own: a sector of the file has no bit in
\* the map (its bits lie around those of another file, which is gone), or
\* search_file has found the name in a slot that the second loop does not reach.
UnlinkAsserts(p, path) ==
    LET num == search_file(path) IN
    /\ Asks(p)
    /\ num # 0 /\ ~TableFull(num)
    /\ ~InUse(path)
    /\ \/ /\ ~(Extent(inode_array[num]) \subseteq smap)
          /\ failed' = "assert(fsbuf)"
       \/ /\ Extent(inode_array[num]) \subseteq smap
          /\ SlotsOf(num) = {}
          /\ failed' = "assert(flg)"
    /\ UNCHANGED <<filp, f_desc_table, inode_table, disk, alive, forking>>

do_unlink(p, path) ==
    UnlinkRefused(p, path) \/ Unlinked(p, path) \/ UnlinkAsserts(p, path)

\* An open that a table or the sector map has no room for stops the system.  A
\* full inode map would not: alloc_imap_bit returns 0 then, and new_inode follows
\* a null pointer, which is outside the model.  (The map has more bits than the
\* device has room for files.)
NoRoom(p, path, creat) ==
    /\ Asks(p)
    /\ \/ FreeFds(p) = {}
       \/ FreeDescs = {}
       \/ search_file(path) # 0 /\ ~creat /\ TableFull(search_file(path))
       \/ /\ search_file(path) = 0 /\ creat
          /\ \/ Cardinality(FreeBits) < NR_DEFAULT_FILE_SECTS
             \/ FreeSlots = {} /\ 0..NrInodes \ imap # {}
    /\ failed' = "full"
    /\ UNCHANGED <<filp, f_desc_table, inode_table, disk, alive, forking>>

\* do_stat takes the inode of the path and gives it back: all that can come of
\* it (and of do_unlink before it looks at the inode) is that get_inode finds
\* no room.
do_stat(p, path) ==
    /\ Asks(p)
    /\ search_file(path) # 0 /\ TableFull(search_file(path))
    /\ failed' = "full"
    /\ UNCHANGED <<filp, f_desc_table, inode_table, disk, alive, forking>>

-----------------------------------------------------------------------------
(* fork and exit                                                           *)

\* do_fork of MM copies the process with its filp[] ...
do_fork(p, c) ==
    /\ Asks(p) /\ forking = <<>>
    /\ c \notin alive
    /\ filp' = [filp EXCEPT ![c] = filp[p]]
    /\ alive' = alive \ {p}   \* the parent waits for the end of the fork
    /\ forking' = <<p, c>>
    /\ UNCHANGED <<f_desc_table, inode_table, disk, failed>>

\* The references to a descriptor, to an inode, in the filp[] of a process.
DescRefs(p, d)  == Cardinality({fd \in Fds : filp[p][fd] = d})
InodeRefs(p, s) ==
    Cardinality({fd \in Fds : filp[p][fd] # 0 /\ f_desc_table[filp[p][fd]].fd_inode = s})

\* Mutant: the child's references to the inodes are not counted.
fs_fork_DescsOnly ==
    /\ failed = "no" /\ forking # <<>>
    /\ LET c == forking[2] IN
       /\ f_desc_table' = [d \in Descs |->
             [f_desc_table[d] EXCEPT !.fd_cnt = @ + DescRefs(c, d)]]
       /\ inode_table' = inode_table
    /\ alive' = alive \cup {forking[1], forking[2]}
    /\ forking' = <<>>
    /\ UNCHANGED <<filp, disk, failed>>

\* ... and FS counts the copies when it hears of the child.
fs_fork ==
    /\ failed = "no" /\ forking # <<>>
    /\ LET c == forking[2] IN
       /\ f_desc_table' = [d \in Descs |->
             [f_desc_table[d] EXCEPT !.fd_cnt = @ + DescRefs(c, d)]]
       /\ inode_table' = [s \in Cached |->
             [inode_table[s] EXCEPT !.i_cnt = @ + InodeRefs(c, s)]]
    /\ alive' = alive \cup {forking[1], forking[2]}
    /\ forking' = <<>>
    /\ UNCHANGED <<filp, disk, failed>>

\* The files of a process that exits are closed.  MM sends EXIT; it does not do
\* so during a fork.
fs_exit(p) ==
    /\ Asks(p) /\ forking = <<>>
    /\ alive # {p}
    /\ inode_table' = [s \in Cached |-> Released(inode_table[s], InodeRefs(p, s))]
    /\ f_desc_table' = [d \in Descs |-> Closed(f_desc_table[d], DescRefs(p, d))]
    /\ filp' = [filp EXCEPT ![p] = [fd \in Fds |-> 0]]
    /\ alive' = alive \ {p}
    /\ UNCHANGED <<disk, forking, failed>>


Next ==
    \E p \in Procs :
        \/ \E path \in Paths : OpenFile(p, path) \/ NoRoom(p, path, FALSE)
        \/ \E path \in NewPaths : create_file(p, path) \/ NoRoom(p, path, TRUE)
        \/ \E path \in Paths : do_unlink(p, path) \/ do_stat(p, path)
        \/ \E fd \in Fds : do_close(p, fd)
        \/ \E fd \in Fds, op \in {"READ", "WRITE"}, len \in Lengths :
              do_rdwt(p, fd, op, len)
        \/ \E c \in Procs : do_fork(p, c)
        \/ fs_exit(p)
        \/ fs_fork

Spec == Init /\ [][Next]_vars
-----------------------------------------------------------------------------
Modes    == {"none", "I_DIRECTORY", "I_CHAR_SPECIAL", "I_REGULAR"}
Inodes   == [i_mode : Modes, i_size : Nat, i_start_sect : Nat, i_nr_sects : Nat]
DescType == [fd_pos : Nat, fd_cnt : Nat, fd_inode : 0..NR_INODE]
SlotType == [i_num : 0..NrInodes, i_cnt : Nat, ino : Inodes]
Entry    == [inode_nr : 0..NrInodes,
             name : Paths \cup {DOT, TTY, TAR, NONE, GARBLED}]

FilesTypeOK ==
    /\ filp \in [Procs -> [Fds -> 0..NR_FILE_DESC]]
    /\ f_desc_table \in [Descs -> DescType]
    /\ inode_table \in [Cached -> SlotType]
    /\ inode_array \in [Inums -> Inodes]
    /\ imap \subseteq 0..NrInodes
    /\ smap \subseteq 0..NrSects
    /\ dir \in [1..MaxSlots -> Entry]
    /\ alive \subseteq Procs
    /\ forking = <<>> \/ forking \in Procs \X Procs
    /\ failed \in {"no", "full", "assert(flg)", "assert(fsbuf)"}

\* The fds FS has counted: those of a child it has not heard of are missing.
CountedFds == (Procs \ (IF forking = <<>> THEN {} ELSE {forking[2]})) \X Fds

SharersOf(d) == {u \in CountedFds : filp[u[1]][u[2]] = d}
UsersOf(s)   == {u \in CountedFds :
                    /\ filp[u[1]][u[2]] # 0
                    /\ f_desc_table[filp[u[1]][u[2]]].fd_inode = s}

\* A descriptor counts the fds that share it and an inode at least the fds
\* that lead to it, also while a fork is half done and other processes close
\* and open: so no table slot that somebody uses is given to somebody else.
CountsCoverUsers ==
    /\ \A d \in Descs :
          /\ f_desc_table[d].fd_cnt = Cardinality(SharersOf(d))
          /\ f_desc_table[d].fd_cnt = 0 <=> f_desc_table[d].fd_inode = 0
    /\ \A s \in Cached :
          /\ inode_table[s].i_cnt >= Cardinality(UsersOf(s))
          /\ \A s2 \in Cached \ {s} : inode_table[s].i_cnt > 0 =>
                ~Holds(s2, inode_table[s].i_num)

\* An open file is there: its inode is taken in the inode map and no descriptor
\* is past the end of the file, nor a file longer than its sectors.
OpenFilesExist ==
    \A d \in Descs : f_desc_table[d].fd_inode # 0 =>
        LET slot == inode_table[f_desc_table[d].fd_inode] IN
        /\ slot.i_num \in imap /\ slot.ino.i_mode # "none"
        /\ f_desc_table[d].fd_pos <= slot.ino.i_size
        /\ slot.ino.i_mode = "I_REGULAR" =>
              slot.ino.i_size <= slot.ino.i_nr_sects * SECTOR_SIZE

\* The inode map is exact: a bit is set for every inode there is and for no
\* other, so an inode is neither lost nor given away twice (do_unlink asserts
\* that the bit it clears was set).
InodeMapExact == imap = {0} \cup {n \in Inums : inode_array[n].i_mode # "none"}

\* Every variable has its type, open files exist, and so do exactly the inodes
\* with a bit in the map.
FilesSound == FilesTypeOK /\ OpenFilesExist /\ InodeMapExact

\* What the inode table holds is what the disk holds: no change of an inode is
\* left unwritten when its slot is reused.
CacheIsDisk ==
    \A s \in Cached : inode_table[s].i_cnt > 0 =>
        inode_table[s].ino = inode_array[inode_table[s].i_num]

\* The assertion at the end of do_unlink, assert(flg): the entry of the file
\* that search_file has found is found again.
EntryFoundAgain == failed # "assert(flg)"

=============================================================================
