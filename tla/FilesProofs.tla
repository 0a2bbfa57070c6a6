----------------------------- MODULE FilesProofs -----------------------------
(***************************************************************************)
(* The file system, for any number of processes and files and tables of any *)
(* size: descriptors and inode slots count their users, open files exist,   *)
(* the inode table holds what the disk holds, the inode map is exact.       *)
(***************************************************************************)
EXTENDS Files, FiniteSetTheorems, WellFoundedInduction, TLAPS

\* The parent and the child of a fork that FS has not heard of do nothing, and
\* the child has the parent's files.  Whoever does not exist has no files.
Forked ==
    /\ forking # <<>> =>
          /\ forking[1] # forking[2]
          /\ forking[1] \notin alive /\ forking[2] \notin alive
          /\ filp[forking[1]] = filp[forking[2]]
    /\ \A p \in Procs \ alive :
          \/ forking # <<>> /\ p \in {forking[1], forking[2]}
          \/ \A fd \in Fds : filp[p][fd] = 0

\* FS itself holds the root directory.
Own(s) == IF s = 1 THEN 1 ELSE 0

\* Every reference is counted.
Counts ==
    /\ \A d \in Descs :
          /\ f_desc_table[d].fd_cnt = Cardinality(SharersOf(d))
          /\ f_desc_table[d].fd_cnt = 0 <=> f_desc_table[d].fd_inode = 0
    /\ \A s \in Cached : inode_table[s].i_cnt >= Cardinality(UsersOf(s)) + Own(s)

\* A slot that is used holds an inode of the disk, and no other slot does.
SlotsIn(t, array) ==
    \A s \in Cached : t[s].i_cnt > 0 =>
        /\ t[s].i_num \in Inums
        /\ t[s].ino = array[t[s].i_num]
        /\ t[s].ino.i_mode # "none"
        /\ \A s2 \in Cached : t[s2].i_cnt > 0 /\ t[s2].i_num = t[s].i_num => s2 = s

\* The first slot is the root directory's, which is as long as there is room.
RootIn(t) ==
    /\ t[1].i_cnt > 0 /\ t[1].i_num = 1
    /\ t[1].ino.i_mode = "I_DIRECTORY"
    /\ t[1].ino.i_size <= MaxSlots

\* An entry names an inode that exists and that no other entry names.
EntriesIn(e, array) ==
    \A k \in 1..MaxSlots : e[k].inode_nr # 0 =>
        /\ array[e[k].inode_nr].i_mode # "none"
        /\ \A j \in 1..MaxSlots : e[j].inode_nr = e[k].inode_nr => j = k

\* No file is longer than its sectors.
SizesIn(array) ==
    \A n \in Inums : array[n].i_mode = "I_REGULAR" =>
        array[n].i_size <= array[n].i_nr_sects * SECTOR_SIZE

\* No descriptor is past the end of its file, and only files are read.
PositionsIn(t, descs) ==
    \A d \in Descs : descs[d].fd_inode # 0 =>
        LET ino == t[descs[d].fd_inode].ino IN
        /\ descs[d].fd_pos <= ino.i_size
        /\ ino.i_mode # "I_REGULAR" => descs[d].fd_pos = 0

FilesInv ==
    /\ FilesTypeOK /\ Forked /\ Counts
    /\ SlotsIn(inode_table, inode_array) /\ RootIn(inode_table)
    /\ InodeMapExact /\ EntriesIn(dir, inode_array)
    /\ SizesIn(inode_array) /\ PositionsIn(inode_table, f_desc_table)

-----------------------------------------------------------------------------
(* Least and greatest elements, and counting                               *)

\* A set of numbers that is not empty has a least one.
LEMMA MinExists ==
    ASSUME NEW S \in SUBSET Nat, S # {}
    PROVE  Min(S) \in S /\ \A y \in S : Min(S) <= y
<1>1. PICK top \in S : TRUE
  OBVIOUS
<1>. DEFINE Below == {0 .. k : k \in {k \in S : k <= top}}
<1>2. IsFiniteSet(0 .. top)
  BY FS_Interval
<1>3. Below \subseteq SUBSET (0 .. top) /\ 0 .. top \in Below
  BY <1>1
<1>4. PICK x \in Below : \A y \in Below : <<y, x>> \notin StrictSubsetOrdering(0 .. top)
  <2>1. IsWellFoundedOn(StrictSubsetOrdering(0 .. top), SUBSET (0 .. top))
    BY <1>2, FS_FiniteSubsetsOfFinite, FS_StrictSubsetOrderingWellFounded
  <2>. HIDE DEF Below
  <2>. QED  BY <1>3, <2>1, WFMin
<1>5. PICK k \in S : k <= top /\ x = 0 .. k
  BY <1>4
<1>6. ASSUME NEW y \in S, y < k  PROVE FALSE
  <2>1. 0 .. y \in Below
    BY <1>5, <1>6
  <2>2. 0 .. y \subseteq 0 .. k /\ 0 .. y # 0 .. k
    BY <1>5, <1>6
  <2>3. <<0 .. y, 0 .. k>> \in StrictSubsetOrdering(0 .. top)
    BY <1>3, <1>4, <1>5, <2>1, <2>2 DEF StrictSubsetOrdering
  <2>. QED  BY <1>4, <1>5, <2>1, <2>3
<1>7. \A y \in S : k <= y
  BY <1>5, <1>6
<1>. QED  BY <1>5, <1>7 DEF Min

\* The greater of two numbers.
LEMMA MaxOfTwo ==
    ASSUME NEW m \in Nat, NEW n \in Nat
    PROVE  Max({m, n}) = IF m <= n THEN n ELSE m
<1>1. CASE m <= n
  <2>1. n \in {m, n} /\ \A y \in {m, n} : n >= y
    BY <1>1
  <2>2. Max({m, n}) \in {m, n} /\ \A y \in {m, n} : Max({m, n}) >= y
    BY <2>1 DEF Max
  <2>. QED  BY <1>1, <2>2
<1>2. CASE ~(m <= n)
  <2>1. m \in {m, n} /\ \A y \in {m, n} : m >= y
    BY <1>2
  <2>2. Max({m, n}) \in {m, n} /\ \A y \in {m, n} : Max({m, n}) >= y
    BY <2>1 DEF Max
  <2>. QED  BY <1>2, <2>2
<1>. QED  BY <1>1, <1>2

\* What has an element counts at least one.
LEMMA AtLeastOne ==
    ASSUME NEW S, IsFiniteSet(S), NEW x \in S
    PROVE  Cardinality(S) \in Nat /\ Cardinality(S) >= 1
BY FS_CardinalityType, FS_EmptySet

\* What has none counts none.
LEMMA NoneCountsZero ==
    ASSUME NEW S, \A x \in S : FALSE
    PROVE  Cardinality(S) = 0
<1>1. S = {}
  OBVIOUS
<1>. QED  BY <1>1, FS_EmptySet

\* Two sets that have nothing in common.
LEMMA DisjointCount ==
    ASSUME NEW S, NEW T, IsFiniteSet(S), IsFiniteSet(T), S \cap T = {}
    PROVE  Cardinality(S \cup T) = Cardinality(S) + Cardinality(T)
<1>1. Cardinality({}) = 0 /\ Cardinality(S) \in Nat /\ Cardinality(T) \in Nat
  BY FS_EmptySet, FS_CardinalityType
<1>2. Cardinality(S \cup T) = Cardinality(S) + Cardinality(T) - Cardinality(S \cap T)
  BY FS_Union
<1>3. Cardinality(S \cap T) = 0
  BY <1>1
<1>. QED  BY <1>1, <1>2, <1>3

\* All the fds there are.
AllFds == Procs \X Fds

LEMMA FdsFinite ==
    /\ IsFiniteSet(Fds)
    /\ \A U \in SUBSET AllFds : IsFiniteSet(U) /\ Cardinality(U) \in Nat
<1>1. IsFiniteSet(Fds)
  BY FS_Interval, FilesAssumption DEF Fds
<1>2. IsFiniteSet(AllFds)
  BY <1>1, FS_Product, FilesAssumption DEF AllFds
<1>. QED  BY <1>1, <1>2, FS_Subset, FS_CardinalityType

\* The fds of one process, counted as fds or as pairs.
LEMMA FdsOfOne ==
    ASSUME NEW p \in Procs, NEW R \in SUBSET Fds
    PROVE  /\ {p} \X R \in SUBSET AllFds
           /\ Cardinality({p} \X R) = Cardinality(R)
           /\ Cardinality(R) \in Nat
<1>1. IsFiniteSet(R) /\ Cardinality(R) \in Nat
  BY FdsFinite, FS_Subset, FS_CardinalityType
<1>2. IsFiniteSet({p}) /\ Cardinality({p}) = 1
  BY FS_Singleton
<1>3. Cardinality({p} \X R) = 1 * Cardinality(R)
  BY <1>1, <1>2, FS_Product
<1>. QED  BY <1>1, <1>3 DEF AllFds

\* Sharers and users are fds.
LEMMA UsersAreFds ==
    /\ CountedFds \subseteq AllFds
    /\ \A d : SharersOf(d) \in SUBSET AllFds /\ SharersOf(d) \subseteq CountedFds
    /\ \A s : UsersOf(s) \in SUBSET AllFds /\ UsersOf(s) \subseteq CountedFds
BY DEF CountedFds, SharersOf, UsersOf, AllFds

-----------------------------------------------------------------------------
(* What the invariant says of references                                   *)

LEMMA Bounds ==
    /\ NR_FILES \in Nat /\ NR_FILE_DESC \in Nat /\ NR_INODE \in Nat /\ NrInodes \in Nat
    /\ NrSects \in Nat /\ NR_DEFAULT_FILE_SECTS \in Nat /\ SECTOR_SIZE \in Nat
    /\ INSTALL_START_BIT \in Nat /\ INSTALL_NR_SECTS \in Nat
    /\ DirSlots \in Nat /\ MaxSlots \in Nat
    /\ NR_DEFAULT_FILE_SECTS >= 1 /\ NR_INODE >= 1 /\ NrInodes >= 3 /\ MaxSlots > 3
BY FilesAssumption

\* An inode has a size of its own and the size of its sectors.
LEMMA RoomOf ==
    ASSUME NEW ino \in Inodes
    PROVE  ino.i_size \in Nat /\ ino.i_nr_sects \in Nat
           /\ ino.i_nr_sects * SECTOR_SIZE \in Nat
BY Bounds DEF Inodes

\* The fields of one descriptor, of one slot of the inode table.
LEMMA FieldsOf ==
    ASSUME FilesTypeOK
    PROVE  /\ \A d \in Descs : /\ f_desc_table[d].fd_pos \in Nat
                               /\ f_desc_table[d].fd_cnt \in Nat
                               /\ f_desc_table[d].fd_inode \in 0..NR_INODE
           /\ \A s \in Cached : /\ inode_table[s].i_num \in 0..NrInodes
                                /\ inode_table[s].i_cnt \in Nat
                                /\ inode_table[s].ino \in Inodes
           /\ \A p \in Procs, fd \in Fds : filp[p][fd] \in 0..NR_FILE_DESC
BY DEF FilesTypeOK, DescType, SlotType

\* A process that is there is counted.
LEMMA AliveCounted ==
    ASSUME FilesTypeOK, Forked, NEW p \in alive, NEW fd \in Fds
    PROVE  p \in Procs /\ <<p, fd>> \in CountedFds
BY DEF FilesTypeOK, Forked, CountedFds

\* A counted fd that is open has a descriptor, which has a slot, which is used.
LEMMA FdLeads ==
    ASSUME FilesTypeOK, Counts, NEW u \in CountedFds, filp[u[1]][u[2]] # 0
    PROVE  LET d == filp[u[1]][u[2]]
               s == f_desc_table[d].fd_inode
           IN  /\ d \in Descs /\ u \in SharersOf(d) /\ f_desc_table[d].fd_cnt >= 1
               /\ s \in Cached /\ u \in UsersOf(s) /\ inode_table[s].i_cnt >= 1 + Own(s)
<1>. DEFINE d == filp[u[1]][u[2]]
            s == f_desc_table[d].fd_inode
<1>1. u[1] \in Procs /\ u[2] \in Fds
  BY DEF CountedFds
<1>2. d \in Descs
  BY <1>1, FieldsOf, Bounds DEF Descs
<1>3. u \in SharersOf(d) /\ u \in UsersOf(s)
  BY DEF SharersOf, UsersOf
<1>4. Cardinality(SharersOf(d)) >= 1
  BY <1>3, UsersAreFds, FdsFinite, AtLeastOne
<1>5. f_desc_table[d].fd_cnt >= 1 /\ s # 0
  BY <1>2, <1>4 DEF Counts
<1>6. s \in Cached
  BY <1>2, <1>5, FieldsOf, Bounds DEF Cached
<1>7. Cardinality(UsersOf(s)) >= 1 /\ Cardinality(UsersOf(s)) \in Nat
  BY <1>3, UsersAreFds, FdsFinite, AtLeastOne
<1>8. inode_table[s].i_cnt \in Nat /\ inode_table[s].i_cnt >= Cardinality(UsersOf(s)) + Own(s)
  BY <1>6, FieldsOf DEF Counts
<1>9. inode_table[s].i_cnt >= 1 + Own(s)
  <2>1. Own(s) \in Nat
    BY DEF Own
  <2>2. PICK n, k, c : n = Cardinality(UsersOf(s)) /\ k = Own(s) /\ c = inode_table[s].i_cnt
    OBVIOUS
  <2>3. n \in Nat /\ n >= 1 /\ k \in Nat /\ c \in Nat /\ c >= n + k
    BY <1>7, <1>8, <2>1, <2>2
  <2>4. c >= 1 + k
    BY <2>3
  <2>. QED  BY <2>2, <2>4
<1>. QED  BY <1>2, <1>3, <1>5, <1>6, <1>9

\* A descriptor that has a slot is shared by somebody, and its slot is used.
LEMMA DescLeads ==
    ASSUME FilesTypeOK, Counts, NEW d \in Descs, f_desc_table[d].fd_inode # 0
    PROVE  /\ f_desc_table[d].fd_inode \in Cached
           /\ inode_table[f_desc_table[d].fd_inode].i_cnt > 0
<1>1. Cardinality(SharersOf(d)) # 0
  BY DEF Counts
<1>2. PICK u \in SharersOf(d) : TRUE
  BY <1>1, NoneCountsZero
<1>3. u \in CountedFds /\ filp[u[1]][u[2]] = d /\ d # 0
  BY <1>2, Bounds DEF SharersOf, Descs
<1>4. /\ f_desc_table[d].fd_inode \in Cached
      /\ inode_table[f_desc_table[d].fd_inode].i_cnt >= 1 + Own(f_desc_table[d].fd_inode)
  BY <1>3, FdLeads
<1>. QED  BY <1>4, FieldsOf DEF Own

\* Nobody shares a descriptor without a slot.
LEMMA NoSharers ==
    ASSUME FilesTypeOK, Counts, NEW d \in Descs, f_desc_table[d].fd_inode = 0
    PROVE  SharersOf(d) = {}
BY FdsFinite, UsersAreFds, FS_EmptySet DEF Counts

-----------------------------------------------------------------------------
(* get_inode and search_file                                               *)

\* What search_file returns is the inode of an entry.
LEMMA SearchFinds ==
    ASSUME FilesTypeOK, EntriesIn(dir, inode_array),
           NEW path, search_file(path) # 0
    PROVE  /\ search_file(path) \in Inums
           /\ inode_array[search_file(path)].i_mode # "none"
           /\ \E k \in 1..MaxSlots : dir[k].inode_nr = search_file(path)
<1>. DEFINE found == {k \in Searched \cap 1..MaxSlots : dir[k].name = path}
<1>1. found \in SUBSET Nat /\ found # {}
  BY Bounds DEF search_file
<1>2. Min(found) \in found
  BY <1>1, MinExists
<1>3. search_file(path) = dir[Min(found)].inode_nr /\ Min(found) \in 1..MaxSlots
  BY <1>1, <1>2 DEF search_file
<1>4. search_file(path) \in 0..NrInodes
  BY <1>3 DEF FilesTypeOK, Entry
<1>5. search_file(path) \in Inums
  BY <1>4, Bounds DEF Inums
<1>6. \E k \in 1..MaxSlots : dir[k].inode_nr = search_file(path)
  BY <1>3
<1>7. inode_array[search_file(path)].i_mode # "none"
  BY <1>6 DEF EntriesIn
<1>. QED  BY <1>5, <1>6, <1>7

\* get_inode finds the slot that holds the inode, or a free one.
LEMMA SlotFound ==
    ASSUME FilesTypeOK, SlotsIn(inode_table, inode_array), NEW num \in Inums, ~TableFull(num)
    PROVE  /\ SlotFor(num) \in Cached
           /\ inode_table[SlotFor(num)].i_cnt \in Nat
           /\ InTable(num) => Holds(SlotFor(num), num)
           /\ ~InTable(num) => inode_table[SlotFor(num)].i_cnt = 0
<1>1. CASE InTable(num)
  BY <1>1, FieldsOf DEF InTable, SlotFor
<1>2. CASE ~InTable(num)
  <2>1. FreeSlots \in SUBSET Nat /\ FreeSlots # {}
    BY <1>2 DEF TableFull, FreeSlots, Cached
  <2>2. Min(FreeSlots) \in FreeSlots
    BY <2>1, MinExists
  <2>. QED  BY <1>2, <2>2 DEF SlotFor, FreeSlots
<1>. QED  BY <1>1, <1>2

\* One more reference in one slot, nothing else; the slots stay sound.
LEMMA GetInode ==
    ASSUME FilesTypeOK, SlotsIn(inode_table, inode_array), NEW num \in Inums,
           inode_array[num].i_mode # "none", ~TableFull(num)
    PROVE  /\ SlotFor(num) \in Cached
           /\ get_inode(num) \in [Cached -> SlotType]
           /\ get_inode(num)[SlotFor(num)] =
                 [i_num |-> num, i_cnt |-> inode_table[SlotFor(num)].i_cnt + 1,
                  ino |-> inode_array[num]]
           /\ \A s \in Cached : s # SlotFor(num) => get_inode(num)[s] = inode_table[s]
           /\ inode_table[SlotFor(num)].i_cnt > 0 =>
                 /\ inode_table[SlotFor(num)].i_num = num
                 /\ inode_table[SlotFor(num)].ino = inode_array[num]
           /\ SlotsIn(get_inode(num), inode_array)
<1>. DEFINE slot == SlotFor(num)
            t    == get_inode(num)
<1>1. slot \in Cached /\ inode_table[slot].i_cnt \in Nat
  BY SlotFound
<1>3. InTable(num) => /\ inode_table[slot].i_cnt > 0
                      /\ inode_table[slot].i_num = num
                      /\ inode_table[slot].ino = inode_array[num]
  BY SlotFound DEF Holds, SlotsIn
<1>4. ~InTable(num) => inode_table[slot].i_cnt = 0
  BY SlotFound
<1>5. t[slot] = [i_num |-> num, i_cnt |-> inode_table[slot].i_cnt + 1,
                 ino |-> inode_array[num]]
  BY <1>1, <1>3, <1>4 DEF get_inode, FilesTypeOK
<1>6. \A s \in Cached : s # slot => t[s] = inode_table[s]
  BY DEF get_inode, FilesTypeOK
<1>7. t[slot] \in SlotType
  BY <1>1, <1>5, Bounds DEF SlotType, FilesTypeOK, Inums
<1>8. t \in [Cached -> SlotType]
  <2>1. DOMAIN t = Cached /\ t = [s \in Cached |-> t[s]]
    BY DEF get_inode, FilesTypeOK
  <2>2. \A s \in Cached : t[s] \in SlotType
    BY <1>6, <1>7 DEF FilesTypeOK
  <2>. HIDE DEF t
  <2>. QED  BY <2>1, <2>2
<1>9. SlotsIn(t, inode_array)
  <2>1. \A s \in Cached : inode_table[s].i_cnt > 0 /\ inode_table[s].i_num = num => s = slot
    BY <1>1, <1>3 DEF SlotsIn, InTable, Holds
  <2>2. t[slot].i_num = num /\ t[slot].ino = inode_array[num] /\ t[slot].i_cnt > 0
    BY <1>1, <1>5
  <2>. HIDE DEF t, slot
  <2>. QED  BY <1>6, <2>1, <2>2 DEF SlotsIn
<1>. QED  BY <1>1, <1>3, <1>4, <1>5, <1>6, <1>8, <1>9

\* The slots it does not answer are left alone.
LEMMA GetInodeElsewhere ==
    ASSUME FilesTypeOK, NEW num \in Inums, NEW s \in Cached, s # SlotFor(num)
    PROVE  get_inode(num)[s] = inode_table[s]
BY DEF get_inode, FilesTypeOK

\* The same, field by field.
LEMMA GetInodeFields ==
    ASSUME FilesTypeOK, SlotsIn(inode_table, inode_array), NEW num \in Inums,
           inode_array[num].i_mode # "none", ~TableFull(num), NEW s \in Cached
    PROVE  /\ get_inode(num)[s].i_cnt = IF s = SlotFor(num) THEN inode_table[s].i_cnt + 1
                                                           ELSE inode_table[s].i_cnt
           /\ inode_table[s].i_cnt > 0 =>
                 get_inode(num)[s].ino = inode_table[s].ino
<1>1. CASE s = SlotFor(num)
  <2>1. get_inode(num)[s] = [i_num |-> num, i_cnt |-> inode_table[s].i_cnt + 1,
                             ino |-> inode_array[num]]
    BY <1>1, GetInode
  <2>2. inode_table[s].i_cnt > 0 => inode_table[s].ino = inode_array[num]
    BY <1>1, GetInode
  <2>. QED  BY <1>1, <2>1, <2>2
<1>2. CASE s # SlotFor(num)
  <2>1. get_inode(num)[s] = inode_table[s]
    BY <1>2, GetInodeElsewhere
  <2>. QED  BY <1>2, <2>1
<1>. QED  BY <1>1, <1>2

\* The root directory stays in the first slot.
LEMMA GetInodeRoot ==
    ASSUME FilesTypeOK, SlotsIn(inode_table, inode_array), RootIn(inode_table),
           NEW num \in Inums, inode_array[num].i_mode # "none", ~TableFull(num)
    PROVE  /\ RootIn(get_inode(num))
           /\ get_inode(num)[1].ino = inode_table[1].ino
<1>1. 1 \in Cached
  BY Bounds DEF Cached
<1>2. CASE SlotFor(num) = 1
  <2>1. /\ num = 1 /\ inode_table[1].ino = inode_array[num]
        /\ inode_table[1].i_cnt \in Nat
    BY <1>1, <1>2, GetInode, FieldsOf DEF RootIn
  <2>2. get_inode(num)[1] = [i_num |-> num, i_cnt |-> inode_table[1].i_cnt + 1,
                             ino |-> inode_array[num]]
    BY <1>2, GetInode
  <2>. QED  BY <2>1, <2>2 DEF RootIn
<1>3. CASE SlotFor(num) # 1
  <2>1. get_inode(num)[1] = inode_table[1]
    BY <1>1, <1>3, GetInodeElsewhere
  <2>. QED  BY <2>1 DEF RootIn
<1>. QED  BY <1>2, <1>3

-----------------------------------------------------------------------------
(* Connecting a process, a descriptor and a slot                           *)

LEMMA FirstFree ==
    ASSUME FilesTypeOK, Counts, NEW p \in alive, FreeFds(p) # {}, FreeDescs # {}
    PROVE  /\ Min(FreeFds(p)) \in Fds /\ filp[p][Min(FreeFds(p))] = 0
           /\ Min(FreeDescs) \in Descs /\ Min(FreeDescs) # 0
           /\ f_desc_table[Min(FreeDescs)].fd_inode = 0
           /\ SharersOf(Min(FreeDescs)) = {}
<1>1. FreeFds(p) \in SUBSET Nat /\ FreeDescs \in SUBSET Nat
  BY Bounds DEF FreeFds, FreeDescs, Fds, Descs
<1>2. Min(FreeFds(p)) \in FreeFds(p) /\ Min(FreeDescs) \in FreeDescs
  BY <1>1, MinExists
<1>3. Min(FreeDescs) \in Descs /\ f_desc_table[Min(FreeDescs)].fd_inode = 0
  BY <1>2 DEF FreeDescs
<1>4. Min(FreeDescs) # 0
  BY <1>3, Bounds DEF Descs
<1>. QED  BY <1>2, <1>3, <1>4, NoSharers DEF FreeFds

\* The new fd is counted once by its descriptor and once by its slot.
LEMMA ConnectKeeps ==
    ASSUME FilesTypeOK, Forked, Counts, NEW p \in alive, FreeFds(p) # {}, FreeDescs # {},
           NEW slot \in Cached, Connect(p, slot), UNCHANGED <<alive, forking>>,
           inode_table'[slot].i_cnt = inode_table[slot].i_cnt + 1,
           \A s \in Cached \ {slot} : inode_table'[s].i_cnt = inode_table[s].i_cnt
    PROVE  /\ filp' \in [Procs -> [Fds -> 0..NR_FILE_DESC]]
           /\ f_desc_table' \in [Descs -> DescType]
           /\ Forked' /\ Counts'
<1>0. PICK d, fd : d = Min(FreeDescs) /\ fd = Min(FreeFds(p))
  OBVIOUS
<1>. DEFINE new == <<p, fd>>
<1>1. /\ p \in Procs /\ fd \in Fds /\ filp[p][fd] = 0
      /\ d \in Descs /\ d # 0 /\ SharersOf(d) = {}
  BY <1>0, FirstFree DEF FilesTypeOK
<1>2. /\ filp' = [filp EXCEPT ![p][fd] = d]
      /\ f_desc_table' = [f_desc_table EXCEPT ![d] =
            [fd_pos |-> 0, fd_cnt |-> 1, fd_inode |-> slot]]
  BY <1>0 DEF Connect
<1>3. filp' \in [Procs -> [Fds -> 0..NR_FILE_DESC]]
  BY <1>1, <1>2, Bounds DEF FilesTypeOK, Descs
<1>4. f_desc_table' \in [Descs -> DescType]
  <2>1. [fd_pos |-> 0, fd_cnt |-> 1, fd_inode |-> slot] \in DescType
    BY Bounds DEF DescType, Cached
  <2>. QED  BY <1>1, <1>2, <2>1 DEF FilesTypeOK
<1>5. /\ filp'[p][fd] = d
      /\ \A q \in Procs, f \in Fds : <<q, f>> # new => filp'[q][f] = filp[q][f]
  BY <1>1, <1>2 DEF FilesTypeOK
<1>6. /\ f_desc_table'[d] = [fd_pos |-> 0, fd_cnt |-> 1, fd_inode |-> slot]
      /\ \A d2 \in Descs : d2 # d => f_desc_table'[d2] = f_desc_table[d2]
  BY <1>1, <1>2 DEF FilesTypeOK
<1>7. CountedFds' = CountedFds /\ new \in CountedFds
      /\ \A u \in CountedFds : u = <<u[1], u[2]>> /\ u[1] \in Procs /\ u[2] \in Fds
  <2>1. new \in CountedFds
    BY <1>1, AliveCounted
  <2>. QED  BY <2>1 DEF CountedFds
<1>8. \A u \in CountedFds : filp[u[1]][u[2]] # d
  BY <1>1 DEF SharersOf
<1>9. ASSUME NEW d2 \in Descs
      PROVE  /\ f_desc_table'[d2].fd_cnt = Cardinality(SharersOf(d2)')
             /\ f_desc_table'[d2].fd_cnt = 0 <=> f_desc_table'[d2].fd_inode = 0
  <2>1. CASE d2 = d
    <3>0. \A u \in CountedFds : filp'[u[1]][u[2]] = d <=> u = new
      BY <1>5, <1>7, <1>8
    <3>1. SharersOf(d)' = {new}
      BY <1>7, <3>0 DEF SharersOf
    <3>2. Cardinality({new}) = 1
      BY FS_Singleton
    <3>3. slot # 0
      BY Bounds DEF Cached
    <3>. QED  BY <1>6, <2>1, <3>1, <3>2, <3>3
  <2>2. CASE d2 # d
    <3>1. d2 # 0
      BY Bounds DEF Descs
    <3>2. SharersOf(d2)' = SharersOf(d2)
      BY <1>1, <1>5, <1>7, <2>2, <3>1 DEF SharersOf
    <3>3. /\ f_desc_table[d2].fd_cnt = Cardinality(SharersOf(d2))
          /\ f_desc_table[d2].fd_cnt = 0 <=> f_desc_table[d2].fd_inode = 0
      BY DEF Counts
    <3>. QED  BY <1>6, <2>2, <3>2, <3>3
  <2>. QED  BY <2>1, <2>2
<1>10. ASSUME NEW s \in Cached
       PROVE  inode_table'[s].i_cnt >= Cardinality(UsersOf(s)') + Own(s)
  <2>1. /\ IsFiniteSet(UsersOf(s)) /\ Cardinality(UsersOf(s)) \in Nat
        /\ inode_table[s].i_cnt \in Nat
        /\ inode_table[s].i_cnt >= Cardinality(UsersOf(s)) + Own(s)
    BY FdsFinite, UsersAreFds, FieldsOf DEF Counts
  <2>2. \A u \in CountedFds : u # new =>
            /\ filp'[u[1]][u[2]] = filp[u[1]][u[2]]
            /\ filp[u[1]][u[2]] # 0 =>
                  f_desc_table'[filp[u[1]][u[2]]] = f_desc_table[filp[u[1]][u[2]]]
    <3>1. \A u \in CountedFds : filp[u[1]][u[2]] # 0 => filp[u[1]][u[2]] \in Descs
      BY FdLeads
    <3>. QED  BY <1>5, <1>6, <1>7, <1>8, <3>1
  <2>3. new \notin UsersOf(s)
    BY <1>1 DEF UsersOf
  <2>4. CASE s = slot
    <3>1. UsersOf(s)' = UsersOf(s) \cup {new}
      BY <1>1, <1>5, <1>6, <1>7, <2>2, <2>4 DEF UsersOf
    <3>2. Cardinality(UsersOf(s) \cup {new}) = Cardinality(UsersOf(s)) + 1
      BY <2>1, <2>3, FS_AddElement
    <3>. QED  BY <2>1, <2>4, <3>1, <3>2 DEF Own
  <2>5. CASE s # slot
    <3>1. UsersOf(s)' = UsersOf(s)
      BY <1>1, <1>5, <1>6, <1>7, <2>2, <2>5 DEF UsersOf
    <3>. QED  BY <2>1, <2>5, <3>1
  <2>. QED  BY <2>4, <2>5
<1>11. Forked'
  <2>1. forking' = forking /\ alive' = alive
    OBVIOUS
  <2>2. \A q \in Procs \ alive : filp'[q] = filp[q]
    BY <1>1, <1>2 DEF FilesTypeOK
  <2>3. forking # <<>> => forking[1] \in Procs /\ forking[2] \in Procs
    BY DEF FilesTypeOK
  <2>. QED  BY <2>1, <2>2, <2>3 DEF Forked
<1>. QED  BY <1>3, <1>4, <1>9, <1>10, <1>11 DEF Counts

\* The new descriptor is at the beginning of its file.
LEMMA ConnectPositions ==
    ASSUME FilesTypeOK, Counts, NEW p \in alive, FreeFds(p) # {}, FreeDescs # {},
           NEW slot \in Cached, Connect(p, slot),
           inode_table' \in [Cached -> SlotType], PositionsIn(inode_table', f_desc_table)
    PROVE  PositionsIn(inode_table', f_desc_table')
<1>1. PICK d : d = Min(FreeDescs)
  OBVIOUS
<1>2. /\ d \in Descs
      /\ f_desc_table' = [f_desc_table EXCEPT ![d] =
            [fd_pos |-> 0, fd_cnt |-> 1, fd_inode |-> slot]]
  BY <1>1, FirstFree DEF Connect
<1>3. inode_table'[slot].ino.i_size \in Nat
  BY RoomOf DEF SlotType
<1>4. f_desc_table'[d] = [fd_pos |-> 0, fd_cnt |-> 1, fd_inode |-> slot]
  BY <1>2 DEF FilesTypeOK
<1>5. \A d2 \in Descs : d2 # d => f_desc_table'[d2] = f_desc_table[d2]
  BY <1>2 DEF FilesTypeOK
<1>. QED  BY <1>3, <1>4, <1>5 DEF PositionsIn

-----------------------------------------------------------------------------
(* open and unlink that leaves the file                                    *)

\* Descriptors do not notice that somebody else takes a reference.
LEMMA GetInodePositions ==
    ASSUME FilesTypeOK, Counts, SlotsIn(inode_table, inode_array),
           PositionsIn(inode_table, f_desc_table),
           NEW num \in Inums, inode_array[num].i_mode # "none", ~TableFull(num)
    PROVE  PositionsIn(get_inode(num), f_desc_table)
<1>1. ASSUME NEW d \in Descs, f_desc_table[d].fd_inode # 0
      PROVE  get_inode(num)[f_desc_table[d].fd_inode].ino
                = inode_table[f_desc_table[d].fd_inode].ino
  <2>1. /\ f_desc_table[d].fd_inode \in Cached
        /\ inode_table[f_desc_table[d].fd_inode].i_cnt > 0
    BY <1>1, DescLeads
  <2>. QED  BY <2>1, GetInodeFields
<1>. QED  BY <1>1 DEF PositionsIn

\* OpenFile keeps the invariant.
LEMMA OpenKeeps ==
    ASSUME FilesInv, NEW p \in Procs, NEW path, OpenFile(p, path)
    PROVE  FilesInv'
<1>. USE DEF FilesInv
<1>1. PICK num : num = search_file(path)
  OBVIOUS
<1>2. PICK slot : slot = SlotFor(num)
  OBVIOUS
<1>3. /\ p \in alive /\ FreeFds(p) # {} /\ FreeDescs # {}
      /\ num # 0 /\ ~TableFull(num)
      /\ inode_table' = get_inode(num)
      /\ Connect(p, slot)
      /\ UNCHANGED <<inode_array, imap, smap, dir, alive, forking, failed>>
  BY <1>1, <1>2 DEF OpenFile, Asks, disk
<1>4. num \in Inums /\ inode_array[num].i_mode # "none"
  BY <1>1, <1>3, SearchFinds
<1>5. /\ slot \in Cached
      /\ inode_table' \in [Cached -> SlotType]
      /\ inode_table'[slot].i_cnt = inode_table[slot].i_cnt + 1
      /\ \A s \in Cached \ {slot} : inode_table'[s].i_cnt = inode_table[s].i_cnt
  <2>1. slot \in Cached /\ inode_table' \in [Cached -> SlotType]
    BY <1>2, <1>3, <1>4, GetInode
  <2>. QED  BY <1>2, <1>3, <1>4, <2>1, GetInodeFields
<1>6. SlotsIn(inode_table', inode_array') /\ RootIn(inode_table')
  BY <1>3, <1>4, GetInode, GetInodeRoot
<1>7. /\ filp' \in [Procs -> [Fds -> 0..NR_FILE_DESC]]
      /\ f_desc_table' \in [Descs -> DescType]
      /\ Forked' /\ Counts'
  BY <1>3, <1>5, ConnectKeeps
<1>8. PositionsIn(inode_table', f_desc_table')
  BY <1>3, <1>4, <1>5, GetInodePositions, ConnectPositions
<1>9. FilesTypeOK'
  BY <1>3, <1>5, <1>7 DEF FilesTypeOK
<1>10. InodeMapExact' /\ EntriesIn(dir', inode_array') /\ SizesIn(inode_array')
  BY <1>3 DEF InodeMapExact
<1>. QED  BY <1>6, <1>7, <1>8, <1>9, <1>10

\* More references than users do no harm to the counts.
LEMMA CountsMore ==
    ASSUME FilesTypeOK, Counts, UNCHANGED <<filp, forking>>,
           \A d \in Descs : /\ f_desc_table'[d].fd_cnt = f_desc_table[d].fd_cnt
                            /\ f_desc_table'[d].fd_inode = f_desc_table[d].fd_inode,
           inode_table' \in [Cached -> SlotType],
           \A s \in Cached : inode_table'[s].i_cnt >= inode_table[s].i_cnt
    PROVE  Counts'
<1>1. CountedFds' = CountedFds /\ \A d : SharersOf(d)' = SharersOf(d)
  BY DEF SharersOf, CountedFds
<1>2. \A u \in CountedFds : filp[u[1]][u[2]] # 0 => filp[u[1]][u[2]] \in Descs
  BY FdLeads
<1>3. \A s : UsersOf(s)' = UsersOf(s)
  BY <1>1, <1>2 DEF UsersOf
<1>4. ASSUME NEW s \in Cached
      PROVE  inode_table'[s].i_cnt >= Cardinality(UsersOf(s)) + Own(s)
  <2>1. /\ inode_table'[s].i_cnt \in Nat /\ inode_table[s].i_cnt \in Nat
        /\ Cardinality(UsersOf(s)) + Own(s) \in Nat
    BY FieldsOf, FdsFinite, UsersAreFds DEF SlotType, Own
  <2>. QED  BY <2>1 DEF Counts
<1>5. \A d \in Descs : /\ f_desc_table'[d].fd_cnt = Cardinality(SharersOf(d)')
                       /\ f_desc_table'[d].fd_cnt = 0 <=> f_desc_table'[d].fd_inode = 0
  BY <1>1 DEF Counts
<1>6. \A s \in Cached : inode_table'[s].i_cnt >= Cardinality(UsersOf(s)') + Own(s)
  BY <1>3, <1>4
<1>. QED  BY <1>5, <1>6 DEF Counts

\* UnlinkRefused keeps the invariant, although it keeps its reference too.
LEMMA RefusedKeeps ==
    ASSUME FilesInv, NEW p \in Procs, NEW path, UnlinkRefused(p, path)
    PROVE  FilesInv'
<1>. USE DEF FilesInv
<1>1. PICK num : num = search_file(path)
  OBVIOUS
<1>2. /\ num # 0 /\ ~TableFull(num)
      /\ inode_table' = get_inode(num)
      /\ UNCHANGED <<filp, f_desc_table, inode_array, imap, smap, dir, alive,
                     forking, failed>>
  BY <1>1 DEF UnlinkRefused, disk
<1>3. num \in Inums /\ inode_array[num].i_mode # "none"
  BY <1>1, <1>2, SearchFinds
<1>4. inode_table' \in [Cached -> SlotType]
  BY <1>2, <1>3, GetInode
<1>5. \A s \in Cached : inode_table'[s].i_cnt >= inode_table[s].i_cnt
  BY <1>2, <1>3, GetInodeFields, FieldsOf
<1>6. SlotsIn(inode_table', inode_array') /\ RootIn(inode_table')
  BY <1>2, <1>3, GetInode, GetInodeRoot
<1>7. Counts'
  BY <1>2, <1>4, <1>5, CountsMore
<1>8. PositionsIn(inode_table', f_desc_table')
  BY <1>2, <1>3, GetInodePositions
<1>9. FilesTypeOK' /\ Forked'
  BY <1>2, <1>4 DEF FilesTypeOK, Forked
<1>10. InodeMapExact' /\ EntriesIn(dir', inode_array') /\ SizesIn(inode_array')
  BY <1>2 DEF InodeMapExact
<1>. QED  BY <1>6, <1>7, <1>8, <1>9, <1>10

-----------------------------------------------------------------------------
(* read and write                                                          *)

\* A read or a write ends in the sectors of the file.
LEMMA EndWithin ==
    ASSUME NEW op \in {"READ", "WRITE"}, NEW ino \in Inodes, NEW pos \in Nat,
           NEW len \in Nat, ino.i_size <= ino.i_nr_sects * SECTOR_SIZE
    PROVE  /\ EndOf(op, ino, pos, len) \in Nat
           /\ EndOf(op, ino, pos, len) <= ino.i_nr_sects * SECTOR_SIZE
<1>. DEFINE room == ino.i_nr_sects * SECTOR_SIZE
            stop == IF op = "READ" THEN ino.i_size ELSE room
            S    == {pos + len, stop}
<1>1. ino.i_size \in Nat /\ room \in Nat
  BY RoomOf
<1>. HIDE DEF room
<1>2. stop \in Nat /\ stop <= room
  BY <1>1 DEF room
<1>. HIDE DEF stop
<1>3. S \in SUBSET Nat /\ S # {} /\ stop \in S
  BY <1>2
<1>4. Min(S) \in Nat /\ Min(S) <= stop
  BY <1>3, MinExists
<1>5. Min(S) <= room
  BY <1>1, <1>2, <1>4
<1>. QED  BY <1>4, <1>5 DEF EndOf, stop, room

\* do_rdwt keeps the invariant.
LEMMA RdwtKeeps ==
    ASSUME FilesInv, NEW p \in Procs, NEW fd \in Fds, NEW op \in {"READ", "WRITE"},
           NEW len \in Lengths, do_rdwt(p, fd, op, len)
    PROVE  FilesInv'
<1>. USE DEF FilesInv
<1>1. PICK d : d = filp[p][fd]
  OBVIOUS
<1>2. PICK s : s = f_desc_table[d].fd_inode
  OBVIOUS
<1>3. PICK ino : ino = inode_table[s].ino
  OBVIOUS
<1>4. PICK end : end = EndOf(op, ino, f_desc_table[d].fd_pos, len)
  OBVIOUS
<1>5. PICK size : size = Max({ino.i_size, end})
  OBVIOUS
<1>6. PICK grown : grown = [inode_table[s] EXCEPT !.ino.i_size = size]
  OBVIOUS
<1>7. /\ p \in alive /\ d # 0
      /\ ino.i_mode = "I_REGULAR"
      /\ f_desc_table' = [f_desc_table EXCEPT ![d].fd_pos = end]
      /\ inode_table' = [inode_table EXCEPT ![s] = grown]
      /\ inode_array' = [inode_array EXCEPT ![grown.i_num] = grown.ino]
      /\ UNCHANGED <<filp, imap, smap, dir, alive, forking, failed>>
  BY <1>1, <1>2, <1>3, <1>4, <1>5, <1>6 DEF do_rdwt, Asks, sync_inode
<1>8. /\ d \in Descs /\ s \in Cached /\ inode_table[s].i_cnt > 0
  <2>1. <<p, fd>> \in CountedFds
    BY <1>7, AliveCounted
  <2>2. /\ d \in Descs /\ s \in Cached /\ inode_table[s].i_cnt >= 1 + Own(s)
    BY <1>1, <1>2, <1>7, <2>1, FdLeads
  <2>. QED  BY <2>2, FieldsOf DEF Own
<1>9. PICK num : num = inode_table[s].i_num
  OBVIOUS
<1>10. num \in Inums /\ ino = inode_array[num] /\ ino \in Inodes
       /\ ino.i_size <= ino.i_nr_sects * SECTOR_SIZE
  BY <1>3, <1>7, <1>8, <1>9, FieldsOf DEF SlotsIn, SizesIn
<1>11. /\ size \in Nat /\ end \in Nat
       /\ ino.i_size <= size /\ end <= size /\ size <= ino.i_nr_sects * SECTOR_SIZE
  <2>1. len \in Nat /\ f_desc_table[d].fd_pos \in Nat
    BY <1>8, FieldsOf, FilesAssumption
  <2>2. end \in Nat /\ end <= ino.i_nr_sects * SECTOR_SIZE
    BY <1>4, <1>10, <2>1, EndWithin
  <2>3. ino.i_size \in Nat
    BY <1>10, RoomOf
  <2>4. size = IF ino.i_size <= end THEN end ELSE ino.i_size
    BY <1>5, <2>2, <2>3, MaxOfTwo
  <2>. QED  BY <1>10, <2>2, <2>3, <2>4
<1>12. PICK now : now = [ino EXCEPT !.i_size = size]
  OBVIOUS
<1>13. /\ now \in Inodes /\ now.i_mode = "I_REGULAR" /\ now.i_size = size
       /\ now.i_nr_sects = ino.i_nr_sects
  BY <1>7, <1>10, <1>11, <1>12 DEF Inodes
<1>14. grown = [i_num |-> num, i_cnt |-> inode_table[s].i_cnt, ino |-> now]
  <2>1. inode_table[s] \in SlotType
    BY <1>8 DEF FilesTypeOK
  <2>. QED  BY <1>3, <1>6, <1>9, <1>12, <2>1 DEF SlotType
<1>15. /\ inode_table'[s] = grown
       /\ \A s2 \in Cached : s2 # s => inode_table'[s2] = inode_table[s2]
       /\ inode_array'[num] = now
       /\ \A n \in Inums : n # num => inode_array'[n] = inode_array[n]
  BY <1>7, <1>8, <1>10, <1>14 DEF FilesTypeOK
<1>16. /\ f_desc_table'[d].fd_pos = end
       /\ \A d2 \in Descs : /\ f_desc_table'[d2].fd_cnt = f_desc_table[d2].fd_cnt
                            /\ f_desc_table'[d2].fd_inode = f_desc_table[d2].fd_inode
                            /\ d2 # d => f_desc_table'[d2].fd_pos = f_desc_table[d2].fd_pos
  BY <1>7, <1>8 DEF FilesTypeOK, DescType
<1>17. inode_table' \in [Cached -> SlotType]
  <2>1. grown \in SlotType
    BY <1>8, <1>9, <1>13, <1>14, FieldsOf DEF SlotType
  <2>. QED  BY <1>7, <2>1 DEF FilesTypeOK
<1>18. inode_array' \in [Inums -> Inodes]
  BY <1>7, <1>13, <1>14 DEF FilesTypeOK
<1>19. f_desc_table' \in [Descs -> DescType]
  BY <1>7, <1>11 DEF FilesTypeOK, DescType
<1>20. FilesTypeOK' /\ Forked'
  BY <1>7, <1>17, <1>18, <1>19 DEF FilesTypeOK, Forked
<1>21. Counts'
  <2>1. \A s2 \in Cached : inode_table'[s2].i_cnt = inode_table[s2].i_cnt
    BY <1>14, <1>15
  <2>2. \A s2 \in Cached : inode_table'[s2].i_cnt >= inode_table[s2].i_cnt
    BY <2>1, FieldsOf
  <2>. QED  BY <1>7, <1>16, <1>17, <2>2, CountsMore
<1>22. SlotsIn(inode_table', inode_array')
  <2>1. \A s2 \in Cached : /\ inode_table'[s2].i_cnt = inode_table[s2].i_cnt
                           /\ inode_table'[s2].i_num = inode_table[s2].i_num
    BY <1>9, <1>14, <1>15
  <2>2. inode_table'[s].ino = now
    BY <1>14, <1>15
  <2>3. \A s2 \in Cached : s2 # s /\ inode_table[s2].i_cnt > 0 => inode_table[s2].i_num # num
    BY <1>8, <1>9 DEF SlotsIn
  <2>. QED  BY <1>9, <1>13, <1>15, <2>1, <2>2, <2>3 DEF SlotsIn
<1>23. RootIn(inode_table')
  <2>1. s # 1 /\ 1 \in Cached
    BY <1>3, <1>7, Bounds DEF RootIn, Cached
  <2>. QED  BY <1>15, <2>1 DEF RootIn
<1>24. \A n \in Inums : inode_array'[n].i_mode = inode_array[n].i_mode
  BY <1>7, <1>10, <1>13, <1>15
<1>25. InodeMapExact'
  BY <1>7, <1>24 DEF InodeMapExact
<1>26. EntriesIn(dir', inode_array')
  <2>1. \A k \in 1..MaxSlots : dir[k].inode_nr # 0 => dir[k].inode_nr \in Inums
    BY Bounds DEF FilesTypeOK, Entry, Inums
  <2>. QED  BY <1>7, <1>24, <2>1 DEF EntriesIn
<1>27. SizesIn(inode_array')
  BY <1>11, <1>13, <1>15 DEF SizesIn
<1>28. PositionsIn(inode_table', f_desc_table')
  <2>1. ASSUME NEW d2 \in Descs, f_desc_table'[d2].fd_inode # 0
        PROVE  LET i == inode_table'[f_desc_table'[d2].fd_inode].ino IN
               /\ f_desc_table'[d2].fd_pos <= i.i_size
               /\ i.i_mode # "I_REGULAR" => f_desc_table'[d2].fd_pos = 0
    <3>1. PICK s2 : s2 = f_desc_table[d2].fd_inode
      OBVIOUS
    <3>2. f_desc_table'[d2].fd_inode = s2 /\ s2 \in Cached
      BY <1>16, <2>1, <3>1, DescLeads
    <3>3. /\ f_desc_table[d2].fd_pos <= inode_table[s2].ino.i_size
          /\ inode_table[s2].ino.i_mode # "I_REGULAR" => f_desc_table[d2].fd_pos = 0
      BY <1>16, <2>1, <3>1 DEF PositionsIn
    <3>4. CASE s2 = s
      <4>1. inode_table'[s2].ino = now
        BY <1>14, <1>15, <3>4
      <4>2. f_desc_table'[d2].fd_pos <= size
        <5>1. CASE d2 = d
          BY <1>11, <1>16, <5>1
        <5>2. CASE d2 # d
          <6>1. f_desc_table'[d2].fd_pos = f_desc_table[d2].fd_pos
            BY <1>16, <5>2
          <6>2. ino.i_size \in Nat /\ f_desc_table[d2].fd_pos \in Nat
            BY <1>10, RoomOf, FieldsOf
          <6>. QED  BY <1>3, <1>11, <3>3, <3>4, <6>1, <6>2
        <5>. QED  BY <5>1, <5>2
      <4>. QED  BY <1>13, <3>2, <4>1, <4>2
    <3>5. CASE s2 # s
      <4>1. inode_table'[s2] = inode_table[s2] /\ d2 # d
        BY <1>2, <1>15, <3>1, <3>2, <3>5
      <4>. QED  BY <1>16, <3>2, <3>3, <4>1
    <3>. QED  BY <3>4, <3>5
  <2>. QED  BY <2>1 DEF PositionsIn
<1>. QED  BY <1>20, <1>21, <1>22, <1>23, <1>25, <1>26, <1>27, <1>28

-----------------------------------------------------------------------------
(* close, fork and exit                                                    *)

\* Every descriptor that has a slot leads to one that is used.
DescsLead ==
    \A d \in Descs : f_desc_table[d].fd_inode # 0 =>
        /\ f_desc_table[d].fd_inode \in Cached
        /\ inode_table[f_desc_table[d].fd_inode].i_cnt > 0

LEMMA LeadsNow == FilesTypeOK /\ Counts => DescsLead
BY DescLeads DEF DescsLead

LEMMA LeadsNext == FilesTypeOK' /\ Counts' => DescsLead'
BY LeadsNow, PTL

\* What is said of slots and descriptors stays true while they are only given
\* back, or get more references.
LEMMA FewerKeeps ==
    ASSUME SlotsIn(inode_table, inode_array), PositionsIn(inode_table, f_desc_table),
           FilesTypeOK', Counts', inode_array' = inode_array,
           \A s \in Cached : inode_table'[s].i_cnt > 0 =>
               /\ inode_table[s].i_cnt > 0
               /\ inode_table'[s].i_num = inode_table[s].i_num
               /\ inode_table'[s].ino = inode_table[s].ino,
           \A d \in Descs : f_desc_table'[d].fd_inode # 0 =>
               /\ f_desc_table'[d].fd_inode = f_desc_table[d].fd_inode
               /\ f_desc_table'[d].fd_pos = f_desc_table[d].fd_pos
    PROVE  /\ SlotsIn(inode_table', inode_array')
           /\ PositionsIn(inode_table', f_desc_table')
<1>1. SlotsIn(inode_table', inode_array')
  BY DEF SlotsIn
<1>2. PositionsIn(inode_table', f_desc_table')
  BY LeadsNext DEF PositionsIn, DescsLead
<1>. QED  BY <1>1, <1>2

\* The slot after put_inode, n times.
LEMMA ReleasedSlot ==
    ASSUME NEW t \in SlotType, NEW n \in Nat, n <= t.i_cnt
    PROVE  /\ Released(t, n) \in SlotType
           /\ Released(t, n).i_cnt = t.i_cnt - n
           /\ Released(t, n).i_cnt > 0 => /\ t.i_cnt > 0
                                          /\ Released(t, n).i_num = t.i_num
                                          /\ Released(t, n).ino = t.ino
<1>1. t.i_cnt \in Nat /\ t.i_num \in 0..NrInodes /\ t.ino \in Inodes
  BY DEF SlotType
<1>2. CASE t.i_cnt = n
  <2>1. Released(t, n) = FreeSlot
    BY <1>2 DEF Released
  <2>2. NoInode \in Inodes
    BY DEF NoInode, Inode, Inodes, Modes
  <2>3. FreeSlot \in SlotType /\ FreeSlot.i_cnt = 0
    BY <2>2, Bounds DEF FreeSlot, SlotType
  <2>. QED  BY <1>1, <1>2, <2>1, <2>3
<1>3. CASE t.i_cnt # n
  <2>1. Released(t, n) = [t EXCEPT !.i_cnt = t.i_cnt - n]
    BY <1>3 DEF Released
  <2>2. Released(t, n) = [i_num |-> t.i_num, i_cnt |-> t.i_cnt - n, ino |-> t.ino]
    BY <2>1 DEF SlotType
  <2>3. t.i_cnt - n \in Nat /\ t.i_cnt > 0
    BY <1>1, <1>3
  <2>. QED  BY <1>1, <2>2, <2>3 DEF SlotType
<1>. QED  BY <1>2, <1>3

\* The descriptor after n of its fds are closed.
LEMMA ClosedDesc ==
    ASSUME NEW t \in DescType, NEW n \in Nat, n <= t.fd_cnt
    PROVE  /\ Closed(t, n) \in DescType
           /\ Closed(t, n).fd_cnt = t.fd_cnt - n
           /\ t.fd_cnt = n => Closed(t, n).fd_inode = 0
           /\ t.fd_cnt # n => /\ Closed(t, n).fd_inode = t.fd_inode
                              /\ Closed(t, n).fd_pos = t.fd_pos
<1>1. t.fd_cnt \in Nat
  BY DEF DescType
<1>2. CASE t.fd_cnt = n
  <2>1. Closed(t, n) = FreeDesc
    BY <1>2 DEF Closed
  <2>. QED  BY <1>1, <1>2, <2>1, Bounds DEF FreeDesc, DescType
<1>3. CASE t.fd_cnt # n
  <2>1. Closed(t, n) = [t EXCEPT !.fd_cnt = t.fd_cnt - n]
    BY <1>3 DEF Closed
  <2>2. t.fd_cnt - n \in Nat
    BY <1>1
  <2>. QED  BY <1>1, <1>3, <2>1, <2>2 DEF DescType
<1>. QED  BY <1>2, <1>3

\* do_close keeps the invariant.
LEMMA CloseKeeps ==
    ASSUME FilesInv, NEW p \in Procs, NEW fd \in Fds, do_close(p, fd)
    PROVE  FilesInv'
<1>. USE DEF FilesInv
<1>1. PICK d : d = filp[p][fd]
  OBVIOUS
<1>2. PICK s : s = f_desc_table[d].fd_inode
  OBVIOUS
<1>. DEFINE old == <<p, fd>>
<1>3. /\ p \in alive /\ d # 0
      /\ inode_table' = [inode_table EXCEPT ![s] = Released(inode_table[s], 1)]
      /\ f_desc_table' = [f_desc_table EXCEPT ![d] = Closed(f_desc_table[d], 1)]
      /\ filp' = [filp EXCEPT ![p][fd] = 0]
      /\ UNCHANGED <<inode_array, imap, smap, dir, alive, forking, failed>>
  BY <1>1, <1>2 DEF do_close, Asks, disk
<1>4. /\ old \in CountedFds /\ d \in Descs /\ s \in Cached
      /\ old \in SharersOf(d) /\ old \in UsersOf(s)
      /\ f_desc_table[d].fd_cnt >= 1 /\ inode_table[s].i_cnt >= 1 + Own(s)
  <2>1. old \in CountedFds
    BY <1>3, AliveCounted
  <2>2. old[1] = p /\ old[2] = fd
    OBVIOUS
  <2>. HIDE DEF old
  <2>. QED  BY <1>1, <1>2, <1>3, <2>1, <2>2, FdLeads
<1>5. /\ f_desc_table[d] \in DescType /\ inode_table[s] \in SlotType
      /\ f_desc_table[d].fd_cnt \in Nat /\ inode_table[s].i_cnt \in Nat
  BY <1>4, FieldsOf DEF FilesTypeOK
<1>6. /\ filp'[p][fd] = 0
      /\ \A q \in Procs, f \in Fds : <<q, f>> # old => filp'[q][f] = filp[q][f]
      /\ filp' \in [Procs -> [Fds -> 0..NR_FILE_DESC]]
  BY <1>3, Bounds DEF FilesTypeOK
<1>7. CountedFds' = CountedFds
      /\ \A u \in CountedFds : u = <<u[1], u[2]>> /\ u[1] \in Procs /\ u[2] \in Fds
  BY <1>3 DEF CountedFds
<1>8. \A u \in CountedFds : filp'[u[1]][u[2]] = IF u = old THEN 0 ELSE filp[u[1]][u[2]]
  BY <1>6, <1>7
<1>9. /\ inode_table' \in [Cached -> SlotType]
      /\ inode_table'[s] = Released(inode_table[s], 1)
      /\ \A s2 \in Cached : s2 # s => inode_table'[s2] = inode_table[s2]
      /\ inode_table'[s].i_cnt = inode_table[s].i_cnt - 1
      /\ inode_table'[s].i_cnt > 0 => /\ inode_table[s].i_cnt > 0
                                      /\ inode_table'[s].i_num = inode_table[s].i_num
                                      /\ inode_table'[s].ino = inode_table[s].ino
  <2>1. 1 <= inode_table[s].i_cnt
    BY <1>4, <1>5 DEF Own
  <2>2. /\ Released(inode_table[s], 1) \in SlotType
        /\ Released(inode_table[s], 1).i_cnt = inode_table[s].i_cnt - 1
        /\ Released(inode_table[s], 1).i_cnt > 0 =>
              /\ inode_table[s].i_cnt > 0
              /\ Released(inode_table[s], 1).i_num = inode_table[s].i_num
              /\ Released(inode_table[s], 1).ino = inode_table[s].ino
    BY <1>5, <2>1, ReleasedSlot
  <2>3. inode_table'[s] = Released(inode_table[s], 1)
    BY <1>3, <1>4 DEF FilesTypeOK
  <2>. QED  BY <1>3, <1>4, <2>2, <2>3 DEF FilesTypeOK
<1>10. /\ f_desc_table' \in [Descs -> DescType]
       /\ f_desc_table'[d].fd_cnt = f_desc_table[d].fd_cnt - 1
       /\ f_desc_table[d].fd_cnt = 1 => f_desc_table'[d].fd_inode = 0
       /\ f_desc_table[d].fd_cnt # 1 =>
             /\ f_desc_table'[d].fd_inode = f_desc_table[d].fd_inode
             /\ f_desc_table'[d].fd_pos = f_desc_table[d].fd_pos
       /\ \A d2 \in Descs : d2 # d => f_desc_table'[d2] = f_desc_table[d2]
  <2>. DEFINE new == Closed(f_desc_table[d], 1)
  <2>1. /\ new \in DescType
        /\ new.fd_cnt = f_desc_table[d].fd_cnt - 1
        /\ f_desc_table[d].fd_cnt = 1 => new.fd_inode = 0
        /\ f_desc_table[d].fd_cnt # 1 => /\ new.fd_inode = f_desc_table[d].fd_inode
                                         /\ new.fd_pos = f_desc_table[d].fd_pos
    BY <1>4, <1>5, ClosedDesc
  <2>2. f_desc_table' = [f_desc_table EXCEPT ![d] = new]
    BY <1>3
  <2>. HIDE DEF new
  <2>. QED  BY <1>4, <2>1, <2>2 DEF FilesTypeOK
<1>11. ASSUME NEW d2 \in Descs
       PROVE  /\ f_desc_table'[d2].fd_cnt = Cardinality(SharersOf(d2)')
              /\ f_desc_table'[d2].fd_cnt = 0 <=> f_desc_table'[d2].fd_inode = 0
  <2>1. /\ f_desc_table[d2].fd_cnt = Cardinality(SharersOf(d2))
        /\ f_desc_table[d2].fd_cnt = 0 <=> f_desc_table[d2].fd_inode = 0
    BY DEF Counts
  <2>2. d2 # 0
    BY Bounds DEF Descs
  <2>3. SharersOf(d2)' = SharersOf(d2) \ {old}
    BY <1>7, <1>8, <2>2 DEF SharersOf
  <2>4. IsFiniteSet(SharersOf(d2))
    BY FdsFinite, UsersAreFds
  <2>5. Cardinality(SharersOf(d2) \ {old}) =
            IF old \in SharersOf(d2) THEN Cardinality(SharersOf(d2)) - 1
                                     ELSE Cardinality(SharersOf(d2))
    BY <2>4, FS_RemoveElement
  <2>6. CASE d2 = d
    <3>1. f_desc_table'[d].fd_cnt = Cardinality(SharersOf(d2)')
      BY <1>4, <1>10, <2>1, <2>3, <2>5, <2>6
    <3>. QED  BY <1>4, <1>5, <1>10, <2>1, <2>6, <3>1
  <2>7. CASE d2 # d
    <3>1. old \notin SharersOf(d2)
      BY <1>1, <2>7 DEF SharersOf
    <3>. QED  BY <1>10, <2>1, <2>3, <2>5, <2>7, <3>1
  <2>. QED  BY <2>6, <2>7
<1>12. ASSUME NEW u \in CountedFds, u # old, filp[u[1]][u[2]] # 0
       PROVE  f_desc_table'[filp[u[1]][u[2]]].fd_inode = f_desc_table[filp[u[1]][u[2]]].fd_inode
  <2>1. filp[u[1]][u[2]] \in Descs
    BY <1>12, FdLeads
  <2>2. CASE filp[u[1]][u[2]] = d
    <3>1. u \in SharersOf(d) \ {old}
      BY <1>12, <2>2 DEF SharersOf
    <3>2. /\ IsFiniteSet(SharersOf(d)) /\ Cardinality(SharersOf(d)) \in Nat
          /\ f_desc_table[d].fd_cnt = Cardinality(SharersOf(d))
      BY <1>4, FdsFinite, UsersAreFds DEF Counts
    <3>3. /\ Cardinality(SharersOf(d) \ {old}) = Cardinality(SharersOf(d)) - 1
          /\ IsFiniteSet(SharersOf(d) \ {old})
      BY <1>4, <3>2, FS_RemoveElement
    <3>4. Cardinality(SharersOf(d) \ {old}) >= 1
      BY <3>1, <3>3, AtLeastOne
    <3>5. f_desc_table[d].fd_cnt # 1
      BY <3>2, <3>3, <3>4
    <3>. QED  BY <1>10, <2>2, <3>5
  <2>3. CASE filp[u[1]][u[2]] # d
    BY <1>10, <2>1, <2>3
  <2>. QED  BY <2>2, <2>3
<1>13. ASSUME NEW s2 \in Cached
       PROVE  inode_table'[s2].i_cnt >= Cardinality(UsersOf(s2)') + Own(s2)
  <2>1. /\ IsFiniteSet(UsersOf(s2)) /\ Cardinality(UsersOf(s2)) \in Nat
        /\ inode_table[s2].i_cnt \in Nat
        /\ inode_table[s2].i_cnt >= Cardinality(UsersOf(s2)) + Own(s2)
    BY FdsFinite, UsersAreFds, FieldsOf DEF Counts
  <2>2. UsersOf(s2)' = UsersOf(s2) \ {old}
    BY <1>7, <1>8, <1>12 DEF UsersOf
  <2>3. Cardinality(UsersOf(s2) \ {old}) =
            IF old \in UsersOf(s2) THEN Cardinality(UsersOf(s2)) - 1
                                   ELSE Cardinality(UsersOf(s2))
    BY <2>1, FS_RemoveElement
  <2>4. CASE s2 = s
    BY <1>4, <1>9, <2>1, <2>2, <2>3, <2>4 DEF Own
  <2>5. CASE s2 # s
    <3>1. old \notin UsersOf(s2)
      BY <1>1, <1>2, <2>5 DEF UsersOf
    <3>. QED  BY <1>9, <2>1, <2>2, <2>3, <2>5, <3>1
  <2>. QED  BY <2>4, <2>5
<1>14. Counts'
  BY <1>11, <1>13 DEF Counts
<1>15. FilesTypeOK'
  BY <1>3, <1>6, <1>9, <1>10 DEF FilesTypeOK
<1>16. Forked'
  <2>1. \A q \in Procs \ alive : filp'[q] = filp[q]
    BY <1>3 DEF FilesTypeOK
  <2>2. forking # <<>> => forking[1] \in Procs /\ forking[2] \in Procs
    BY DEF FilesTypeOK
  <2>. QED  BY <1>3, <2>1, <2>2 DEF Forked
<1>17. /\ SlotsIn(inode_table', inode_array')
       /\ PositionsIn(inode_table', f_desc_table')
  <2>1. \A s2 \in Cached : inode_table'[s2].i_cnt > 0 =>
            /\ inode_table[s2].i_cnt > 0
            /\ inode_table'[s2].i_num = inode_table[s2].i_num
            /\ inode_table'[s2].ino = inode_table[s2].ino
    BY <1>9
  <2>2. \A d2 \in Descs : f_desc_table'[d2].fd_inode # 0 =>
            /\ f_desc_table'[d2].fd_inode = f_desc_table[d2].fd_inode
            /\ f_desc_table'[d2].fd_pos = f_desc_table[d2].fd_pos
    BY <1>10
  <2>. QED  BY <1>3, <1>14, <1>15, <2>1, <2>2, FewerKeeps
<1>18. RootIn(inode_table')
  <2>1. s = 1 => inode_table'[s].i_cnt > 0
    BY <1>4, <1>5, <1>9 DEF Own
  <2>2. 1 \in Cached
    BY Bounds DEF Cached
  <2>. QED  BY <1>9, <2>1, <2>2 DEF RootIn
<1>19. InodeMapExact' /\ EntriesIn(dir', inode_array') /\ SizesIn(inode_array')
  BY <1>3 DEF InodeMapExact
<1>. QED  BY <1>14, <1>15, <1>16, <1>17, <1>18, <1>19

\* What do_fork of MM copies is not counted before FS hears of the child.
LEMMA ForkKeeps ==
    ASSUME FilesInv, NEW p \in Procs, NEW c \in Procs, do_fork(p, c)
    PROVE  FilesInv'
<1>. USE DEF FilesInv
<1>1. /\ p \in alive /\ c \notin alive /\ forking = <<>>
      /\ filp' = [filp EXCEPT ![c] = filp[p]]
      /\ alive' = alive \ {p} /\ forking' = <<p, c>>
      /\ UNCHANGED <<f_desc_table, inode_table, inode_array, imap, smap, dir, failed>>
  BY DEF do_fork, Asks, disk
<1>2. forking' # <<>> /\ forking'[1] = p /\ forking'[2] = c
  BY <1>1
<1>3. \A fd \in Fds : filp[c][fd] = 0
  BY <1>1 DEF Forked
<1>4. /\ filp'[c] = filp[p]
      /\ \A q \in Procs : q # c => filp'[q] = filp[q]
      /\ filp' \in [Procs -> [Fds -> 0..NR_FILE_DESC]]
  BY <1>1 DEF FilesTypeOK
<1>5. CountedFds = Procs \X Fds /\ CountedFds' = (Procs \ {c}) \X Fds
  BY <1>1, <1>2 DEF CountedFds
<1>6. \A d \in Descs : SharersOf(d)' = SharersOf(d)
  <2>1. 0 \notin Descs
    BY Bounds DEF Descs
  <2>. QED  BY <1>3, <1>4, <1>5, <2>1 DEF SharersOf
<1>7. \A s \in Cached : UsersOf(s)' = UsersOf(s)
  BY <1>1, <1>3, <1>4, <1>5 DEF UsersOf
<1>8. Counts'
  <2>1. \A d \in Descs :
            /\ f_desc_table'[d].fd_cnt = Cardinality(SharersOf(d)')
            /\ f_desc_table'[d].fd_cnt = 0 <=> f_desc_table'[d].fd_inode = 0
    BY <1>1, <1>6 DEF Counts
  <2>2. \A s \in Cached : inode_table'[s].i_cnt >= Cardinality(UsersOf(s)') + Own(s)
    BY <1>1, <1>7 DEF Counts
  <2>. QED  BY <2>1, <2>2 DEF Counts
<1>9. Forked'
  <2>1. p # c
    BY <1>1
  <2>2. \A q \in Procs \ alive' : q \in {p, c} \/ \A fd \in Fds : filp'[q][fd] = 0
    BY <1>1, <1>4 DEF Forked
  <2>. QED  BY <1>1, <1>2, <1>4, <2>1, <2>2 DEF Forked
<1>10. FilesTypeOK'
  BY <1>1, <1>4 DEF FilesTypeOK
<1>11. /\ SlotsIn(inode_table', inode_array') /\ RootIn(inode_table')
       /\ PositionsIn(inode_table', f_desc_table')
  BY <1>1
<1>12. InodeMapExact' /\ EntriesIn(dir', inode_array') /\ SizesIn(inode_array')
  BY <1>1 DEF InodeMapExact
<1>. QED  BY <1>8, <1>9, <1>10, <1>11, <1>12

\* The references of one process.
FdsTo(p, d)      == {fd \in Fds : filp[p][fd] = d}
FdsToInode(p, s) == {fd \in Fds : /\ filp[p][fd] # 0
                                  /\ f_desc_table[filp[p][fd]].fd_inode = s}

LEMMA DescRefsCount ==
    ASSUME NEW p \in Procs, NEW d
    PROVE  /\ DescRefs(p, d) = Cardinality({p} \X FdsTo(p, d))
           /\ DescRefs(p, d) \in Nat /\ IsFiniteSet({p} \X FdsTo(p, d))
<1>1. FdsTo(p, d) \in SUBSET Fds /\ DescRefs(p, d) = Cardinality(FdsTo(p, d))
  BY DEF FdsTo, DescRefs
<1>2. {p} \X FdsTo(p, d) \in SUBSET AllFds
  BY <1>1, FdsOfOne
<1>3. IsFiniteSet({p} \X FdsTo(p, d))
  BY <1>2, FdsFinite
<1>. QED  BY <1>1, <1>3, FdsOfOne

LEMMA InodeRefsCount ==
    ASSUME NEW p \in Procs, NEW s
    PROVE  /\ InodeRefs(p, s) = Cardinality({p} \X FdsToInode(p, s))
           /\ InodeRefs(p, s) \in Nat /\ IsFiniteSet({p} \X FdsToInode(p, s))
<1>1. FdsToInode(p, s) \in SUBSET Fds /\ InodeRefs(p, s) = Cardinality(FdsToInode(p, s))
  BY DEF FdsToInode, InodeRefs
<1>2. {p} \X FdsToInode(p, s) \in SUBSET AllFds
  BY <1>1, FdsOfOne
<1>3. IsFiniteSet({p} \X FdsToInode(p, s))
  BY <1>2, FdsFinite
<1>. QED  BY <1>1, <1>3, FdsOfOne

\* fs_fork counts the copies and keeps the invariant.
LEMMA CountForkKeeps ==
    ASSUME FilesInv, fs_fork
    PROVE  FilesInv'
<1>. USE DEF FilesInv
<1>1. PICK p, c : p = forking[1] /\ c = forking[2]
  OBVIOUS
<1>2. /\ forking # <<>>
      /\ f_desc_table' = [d \in Descs |->
             [f_desc_table[d] EXCEPT !.fd_cnt = f_desc_table[d].fd_cnt + DescRefs(c, d)]]
      /\ inode_table' = [s \in Cached |->
             [inode_table[s] EXCEPT !.i_cnt = inode_table[s].i_cnt + InodeRefs(c, s)]]
      /\ alive' = alive \cup {p, c} /\ forking' = <<>>
      /\ UNCHANGED <<filp, inode_array, imap, smap, dir, failed>>
  BY <1>1 DEF fs_fork, disk
<1>3. /\ p \in Procs /\ c \in Procs /\ p # c /\ filp[p] = filp[c]
      /\ \A q \in Procs \ alive : q \in {p, c} \/ \A fd \in Fds : filp[q][fd] = 0
  BY <1>1, <1>2 DEF Forked, FilesTypeOK
<1>4. /\ CountedFds = (Procs \ {c}) \X Fds /\ CountedFds' = Procs \X Fds
  BY <1>1, <1>2 DEF CountedFds
<1>5. \A fd \in Fds : <<p, fd>> \in CountedFds
  BY <1>3, <1>4
<1>6. ASSUME NEW d \in Descs
      PROVE  /\ f_desc_table'[d] \in DescType
             /\ f_desc_table'[d].fd_cnt = f_desc_table[d].fd_cnt + DescRefs(c, d)
             /\ f_desc_table'[d].fd_pos = f_desc_table[d].fd_pos
             /\ f_desc_table'[d].fd_inode = f_desc_table[d].fd_inode
  <2>1. f_desc_table[d] \in DescType /\ DescRefs(c, d) \in Nat
    BY <1>3, DescRefsCount DEF FilesTypeOK
  <2>2. f_desc_table'[d] =
            [f_desc_table[d] EXCEPT !.fd_cnt = f_desc_table[d].fd_cnt + DescRefs(c, d)]
    BY <1>2
  <2>. QED  BY <2>1, <2>2 DEF DescType
<1>7. ASSUME NEW s \in Cached
      PROVE  /\ inode_table'[s] \in SlotType
             /\ inode_table'[s].i_cnt = inode_table[s].i_cnt + InodeRefs(c, s)
             /\ inode_table'[s].i_num = inode_table[s].i_num
             /\ inode_table'[s].ino = inode_table[s].ino
  <2>1. inode_table[s] \in SlotType /\ InodeRefs(c, s) \in Nat
    BY <1>3, InodeRefsCount DEF FilesTypeOK
  <2>2. inode_table'[s] =
            [inode_table[s] EXCEPT !.i_cnt = inode_table[s].i_cnt + InodeRefs(c, s)]
    BY <1>2
  <2>. QED  BY <2>1, <2>2 DEF SlotType
<1>8. \A fd \in Fds : filp[c][fd] # 0 => filp[c][fd] \in Descs
  BY <1>3, FieldsOf, Bounds DEF Descs
<1>9. ASSUME NEW d \in Descs
      PROVE  /\ f_desc_table'[d].fd_cnt = Cardinality(SharersOf(d)')
             /\ f_desc_table'[d].fd_cnt = 0 <=> f_desc_table'[d].fd_inode = 0
  <2>1. /\ f_desc_table[d].fd_cnt = Cardinality(SharersOf(d))
        /\ f_desc_table[d].fd_cnt = 0 <=> f_desc_table[d].fd_inode = 0
        /\ f_desc_table[d].fd_cnt \in Nat
        /\ IsFiniteSet(SharersOf(d))
    BY FieldsOf, FdsFinite, UsersAreFds DEF Counts
  <2>2. SharersOf(d)' = SharersOf(d) \cup ({c} \X FdsTo(c, d))
    BY <1>2, <1>3, <1>4 DEF SharersOf, FdsTo
  <2>3. SharersOf(d) \cap ({c} \X FdsTo(c, d)) = {}
    BY <1>4 DEF SharersOf
  <2>4. /\ DescRefs(c, d) = Cardinality({c} \X FdsTo(c, d))
        /\ DescRefs(c, d) \in Nat /\ IsFiniteSet({c} \X FdsTo(c, d))
    BY <1>3, DescRefsCount
  <2>5. Cardinality({}) = 0
    BY FS_EmptySet
  <2>6. Cardinality(SharersOf(d)') = f_desc_table[d].fd_cnt + DescRefs(c, d)
    BY <2>1, <2>2, <2>3, <2>4, DisjointCount
  <2>7. f_desc_table[d].fd_cnt = 0 => DescRefs(c, d) = 0
    <3>1. SUFFICES ASSUME f_desc_table[d].fd_cnt = 0  PROVE {c} \X FdsTo(c, d) = {}
      BY <2>4, <2>5
    <3>2. SharersOf(d) = {}
      BY <2>1, <3>1, FS_EmptySet
    <3>3. ASSUME NEW fd \in Fds, filp[p][fd] = d  PROVE FALSE
      <4>1. PICK u : u = <<p, fd>>
        OBVIOUS
      <4>2. u \in CountedFds /\ u[1] = p /\ u[2] = fd
        BY <1>5, <4>1
      <4>. QED  BY <3>2, <3>3, <4>2 DEF SharersOf
    <3>. QED  BY <1>3, <3>3 DEF FdsTo
  <2>. QED  BY <1>6, <2>1, <2>4, <2>6, <2>7
<1>10. ASSUME NEW s \in Cached
       PROVE  inode_table'[s].i_cnt >= Cardinality(UsersOf(s)') + Own(s)
  <2>1. /\ inode_table[s].i_cnt >= Cardinality(UsersOf(s)) + Own(s)
        /\ inode_table[s].i_cnt \in Nat /\ Cardinality(UsersOf(s)) \in Nat
        /\ IsFiniteSet(UsersOf(s))
    BY FieldsOf, FdsFinite, UsersAreFds DEF Counts
  <2>2. UsersOf(s)' = UsersOf(s) \cup ({c} \X FdsToInode(c, s))
    <3>1. \A u \in CountedFds : filp[u[1]][u[2]] # 0 => filp[u[1]][u[2]] \in Descs
      BY FdLeads
    <3>. QED  BY <1>2, <1>3, <1>4, <1>6, <1>8, <3>1 DEF UsersOf, FdsToInode
  <2>3. UsersOf(s) \cap ({c} \X FdsToInode(c, s)) = {}
    BY <1>4 DEF UsersOf
  <2>4. /\ InodeRefs(c, s) = Cardinality({c} \X FdsToInode(c, s))
        /\ InodeRefs(c, s) \in Nat /\ IsFiniteSet({c} \X FdsToInode(c, s))
    BY <1>3, InodeRefsCount
  <2>5. Cardinality(UsersOf(s)') = Cardinality(UsersOf(s)) + InodeRefs(c, s)
    BY <2>1, <2>2, <2>3, <2>4, DisjointCount
  <2>. QED  BY <1>7, <2>1, <2>4, <2>5 DEF Own
<1>11. Counts'
  BY <1>9, <1>10 DEF Counts
<1>12. FilesTypeOK'
  <2>1. inode_table' \in [Cached -> SlotType] /\ f_desc_table' \in [Descs -> DescType]
    <3>1. DOMAIN inode_table' = Cached /\ inode_table' = [s \in Cached |-> inode_table'[s]]
      BY <1>2
    <3>2. DOMAIN f_desc_table' = Descs /\ f_desc_table' = [d \in Descs |-> f_desc_table'[d]]
      BY <1>2
    <3>. QED  BY <1>6, <1>7, <3>1, <3>2
  <2>. QED  BY <1>2, <1>3, <2>1 DEF FilesTypeOK
<1>13. Forked'
  BY <1>2, <1>3 DEF Forked
<1>14. /\ SlotsIn(inode_table', inode_array')
       /\ PositionsIn(inode_table', f_desc_table')
  <2>1. ASSUME NEW s \in Cached, inode_table'[s].i_cnt > 0
        PROVE  inode_table[s].i_cnt > 0
    <3>1. SUFFICES ASSUME ~(inode_table[s].i_cnt > 0)  PROVE FALSE
      OBVIOUS
    <3>2. inode_table[s].i_cnt = 0 /\ InodeRefs(c, s) # 0
      BY <1>7, <2>1, <3>1, FieldsOf
    <3>3. PICK x \in {c} \X FdsToInode(c, s) : TRUE
      BY <1>3, <3>2, NoneCountsZero, InodeRefsCount
    <3>4. PICK fd \in Fds : filp[c][fd] # 0 /\ f_desc_table[filp[c][fd]].fd_inode = s
      BY <3>3 DEF FdsToInode
    <3>5. PICK u : u = <<p, fd>>
      OBVIOUS
    <3>6. u \in CountedFds /\ u[1] = p /\ u[2] = fd
      BY <1>5, <3>5
    <3>7. inode_table[s].i_cnt >= 1 + Own(s)
      BY <1>3, <3>4, <3>6, FdLeads
    <3>. QED  BY <3>2, <3>7 DEF Own
  <2>. QED  BY <1>2, <1>6, <1>7, <1>11, <1>12, <2>1, FewerKeeps
<1>15. RootIn(inode_table')
  <2>1. 1 \in Cached
    BY Bounds DEF Cached
  <2>2. inode_table[1].i_cnt \in Nat
    BY <2>1, FieldsOf
  <2>3. InodeRefs(c, 1) \in Nat
    BY <1>3, InodeRefsCount
  <2>. QED  BY <1>7, <2>1, <2>2, <2>3 DEF RootIn
<1>16. InodeMapExact' /\ EntriesIn(dir', inode_array') /\ SizesIn(inode_array')
  BY <1>2 DEF InodeMapExact
<1>. QED  BY <1>11, <1>12, <1>13, <1>14, <1>15, <1>16

\* What is taken from a set that contains it.
LEMMA RemovedCount ==
    ASSUME NEW S, NEW T \in SUBSET S, IsFiniteSet(S)
    PROVE  /\ IsFiniteSet(S \ T)
           /\ Cardinality(T) <= Cardinality(S)
           /\ Cardinality(S \ T) = Cardinality(S) - Cardinality(T)
<1>1. S \cap T = T
  OBVIOUS
<1>2. IsFiniteSet(S \ T) /\ Cardinality(S \ T) = Cardinality(S) - Cardinality(S \cap T)
  BY FS_Difference
<1>3. Cardinality(T) <= Cardinality(S)
  BY FS_Subset
<1>. QED  BY <1>1, <1>2, <1>3

\* fs_exit gives back what the process had, and only that.
LEMMA ExitKeeps ==
    ASSUME FilesInv, NEW p \in Procs, fs_exit(p)
    PROVE  FilesInv'
<1>. USE DEF FilesInv
<1>1. /\ p \in alive /\ forking = <<>>
      /\ inode_table' = [s \in Cached |-> Released(inode_table[s], InodeRefs(p, s))]
      /\ f_desc_table' = [d \in Descs |-> Closed(f_desc_table[d], DescRefs(p, d))]
      /\ filp' = [filp EXCEPT ![p] = [fd \in Fds |-> 0]]
      /\ alive' = alive \ {p}
      /\ UNCHANGED <<inode_array, imap, smap, dir, forking, failed>>
  BY DEF fs_exit, Asks, disk
<1>2. CountedFds = AllFds /\ CountedFds' = AllFds
  BY <1>1 DEF CountedFds, AllFds
<1>3. /\ \A fd \in Fds : filp'[p][fd] = 0
      /\ \A q \in Procs : q # p => filp'[q] = filp[q]
      /\ filp' \in [Procs -> [Fds -> 0..NR_FILE_DESC]]
  BY <1>1, Bounds DEF FilesTypeOK
<1>4. ASSUME NEW d \in Descs
      PROVE  /\ {p} \X FdsTo(p, d) \in SUBSET SharersOf(d)
             /\ SharersOf(d)' = SharersOf(d) \ ({p} \X FdsTo(p, d))
             /\ Cardinality(SharersOf(d)') = f_desc_table[d].fd_cnt - DescRefs(p, d)
             /\ DescRefs(p, d) <= f_desc_table[d].fd_cnt
             /\ DescRefs(p, d) \in Nat
             /\ IsFiniteSet(SharersOf(d)')
  <2>1. d # 0
    BY Bounds DEF Descs
  <2>2. {p} \X FdsTo(p, d) \in SUBSET SharersOf(d)
    BY <1>2 DEF SharersOf, FdsTo, AllFds
  <2>3. SharersOf(d)' = SharersOf(d) \ ({p} \X FdsTo(p, d))
    BY <1>2, <1>3, <2>1 DEF SharersOf, FdsTo, AllFds
  <2>4. IsFiniteSet(SharersOf(d)) /\ f_desc_table[d].fd_cnt = Cardinality(SharersOf(d))
    BY FdsFinite, UsersAreFds DEF Counts
  <2>5. DescRefs(p, d) = Cardinality({p} \X FdsTo(p, d)) /\ DescRefs(p, d) \in Nat
    BY DescRefsCount
  <2>. DEFINE gone == {p} \X FdsTo(p, d)
  <2>6. /\ IsFiniteSet(SharersOf(d) \ gone)
        /\ Cardinality(gone) <= Cardinality(SharersOf(d))
        /\ Cardinality(SharersOf(d) \ gone) = Cardinality(SharersOf(d)) - Cardinality(gone)
    <3>. HIDE DEF gone
    <3>. QED  BY <2>2, <2>4, RemovedCount DEF gone
  <2>. HIDE DEF gone
  <2>. QED  BY <2>2, <2>3, <2>4, <2>5, <2>6 DEF gone
<1>5. ASSUME NEW d \in Descs
      PROVE  /\ f_desc_table'[d] \in DescType
             /\ f_desc_table'[d].fd_cnt = f_desc_table[d].fd_cnt - DescRefs(p, d)
             /\ f_desc_table[d].fd_cnt = DescRefs(p, d) => f_desc_table'[d].fd_inode = 0
             /\ f_desc_table[d].fd_cnt # DescRefs(p, d) =>
                   /\ f_desc_table'[d].fd_inode = f_desc_table[d].fd_inode
                   /\ f_desc_table'[d].fd_pos = f_desc_table[d].fd_pos
  <2>1. f_desc_table'[d] = Closed(f_desc_table[d], DescRefs(p, d))
    BY <1>1
  <2>2. f_desc_table[d] \in DescType
    BY DEF FilesTypeOK
  <2>. QED  BY <1>4, <2>1, <2>2, ClosedDesc
<1>6. ASSUME NEW d \in Descs
      PROVE  /\ f_desc_table'[d].fd_cnt = Cardinality(SharersOf(d)')
             /\ f_desc_table'[d].fd_cnt = 0 <=> f_desc_table'[d].fd_inode = 0
  <2>1. /\ f_desc_table[d].fd_cnt \in Nat
        /\ f_desc_table[d].fd_cnt = 0 <=> f_desc_table[d].fd_inode = 0
    BY FieldsOf DEF Counts
  <2>. QED  BY <1>4, <1>5, <2>1
<1>7. ASSUME NEW u \in CountedFds, u[1] # p, filp[u[1]][u[2]] # 0
      PROVE  f_desc_table'[filp[u[1]][u[2]]].fd_inode = f_desc_table[filp[u[1]][u[2]]].fd_inode
  <2>1. PICK d : d = filp[u[1]][u[2]]
    OBVIOUS
  <2>2. d \in Descs /\ u \in SharersOf(d)
    BY <1>7, <2>1, FdLeads
  <2>3. u \in SharersOf(d)'
    BY <1>4, <1>7, <2>2
  <2>4. Cardinality(SharersOf(d)') >= 1
    BY <1>4, <2>2, <2>3, AtLeastOne
  <2>5. f_desc_table[d].fd_cnt # DescRefs(p, d)
    BY <1>4, <2>2, <2>4
  <2>. QED  BY <1>5, <2>1, <2>2, <2>5
<1>8. ASSUME NEW s \in Cached
      PROVE  /\ InodeRefs(p, s) \in Nat /\ InodeRefs(p, s) + Own(s) <= inode_table[s].i_cnt
             /\ inode_table[s].i_cnt - InodeRefs(p, s) >= Cardinality(UsersOf(s)') + Own(s)
  <2>1. {p} \X FdsToInode(p, s) \in SUBSET UsersOf(s)
    BY <1>2 DEF UsersOf, FdsToInode, AllFds
  <2>2. UsersOf(s)' = UsersOf(s) \ ({p} \X FdsToInode(p, s))
    BY <1>2, <1>3, <1>7 DEF UsersOf, FdsToInode, AllFds
  <2>3. /\ IsFiniteSet(UsersOf(s)) /\ Cardinality(UsersOf(s)) \in Nat
        /\ inode_table[s].i_cnt \in Nat
        /\ inode_table[s].i_cnt >= Cardinality(UsersOf(s)) + Own(s)
    BY FdsFinite, UsersAreFds, FieldsOf DEF Counts
  <2>4. InodeRefs(p, s) = Cardinality({p} \X FdsToInode(p, s)) /\ InodeRefs(p, s) \in Nat
    BY InodeRefsCount
  <2>5. /\ InodeRefs(p, s) <= Cardinality(UsersOf(s))
        /\ Cardinality(UsersOf(s)') = Cardinality(UsersOf(s)) - InodeRefs(p, s)
    BY <2>1, <2>2, <2>3, <2>4, RemovedCount
  <2>. QED  BY <2>3, <2>4, <2>5 DEF Own
<1>9. ASSUME NEW s \in Cached
      PROVE  /\ inode_table'[s] \in SlotType
             /\ inode_table'[s].i_cnt = inode_table[s].i_cnt - InodeRefs(p, s)
             /\ inode_table'[s].i_cnt > 0 => /\ inode_table[s].i_cnt > 0
                                             /\ inode_table'[s].i_num = inode_table[s].i_num
                                             /\ inode_table'[s].ino = inode_table[s].ino
  <2>1. inode_table'[s] = Released(inode_table[s], InodeRefs(p, s))
    BY <1>1
  <2>2. inode_table[s] \in SlotType
    BY DEF FilesTypeOK
  <2>3. InodeRefs(p, s) \in Nat /\ InodeRefs(p, s) <= inode_table[s].i_cnt
    BY <1>8, FieldsOf DEF Own
  <2>. QED  BY <2>1, <2>2, <2>3, ReleasedSlot
<1>10. Counts'
  <2>1. \A s \in Cached : inode_table'[s].i_cnt >= Cardinality(UsersOf(s)') + Own(s)
    BY <1>8, <1>9
  <2>. QED  BY <1>6, <2>1 DEF Counts
<1>11. FilesTypeOK'
  <2>1. DOMAIN inode_table' = Cached /\ inode_table' = [s \in Cached |-> inode_table'[s]]
    BY <1>1
  <2>2. DOMAIN f_desc_table' = Descs /\ f_desc_table' = [d \in Descs |-> f_desc_table'[d]]
    BY <1>1
  <2>3. inode_table' \in [Cached -> SlotType] /\ f_desc_table' \in [Descs -> DescType]
    BY <1>5, <1>9, <2>1, <2>2
  <2>. QED  BY <1>1, <1>3, <2>3 DEF FilesTypeOK
<1>12. Forked'
  BY <1>1, <1>3 DEF Forked
<1>13. /\ SlotsIn(inode_table', inode_array')
       /\ PositionsIn(inode_table', f_desc_table')
  <2>1. \A d \in Descs : f_desc_table'[d].fd_inode # 0 =>
            /\ f_desc_table'[d].fd_inode = f_desc_table[d].fd_inode
            /\ f_desc_table'[d].fd_pos = f_desc_table[d].fd_pos
    BY <1>5
  <2>. QED  BY <1>1, <1>9, <1>10, <1>11, <2>1, FewerKeeps
<1>14. RootIn(inode_table')
  <2>1. 1 \in Cached /\ Own(1) = 1
    BY Bounds DEF Cached, Own
  <2>2. inode_table[1].i_cnt \in Nat /\ InodeRefs(p, 1) \in Nat
        /\ InodeRefs(p, 1) + 1 <= inode_table[1].i_cnt
    BY <1>8, <2>1, FieldsOf
  <2>3. inode_table'[1].i_cnt > 0
    BY <1>9, <2>1, <2>2
  <2>. QED  BY <1>9, <2>1, <2>3 DEF RootIn
<1>15. InodeMapExact' /\ EntriesIn(dir', inode_array') /\ SizesIn(inode_array')
  BY <1>1 DEF InodeMapExact
<1>. QED  BY <1>10, <1>11, <1>12, <1>13, <1>14, <1>15

\* An operation that stops the system leaves everything as it was.
LEMMA StopKeeps ==
    ASSUME FilesInv, failed' \in {"no", "full", "assert(flg)", "assert(fsbuf)"},
           UNCHANGED <<filp, f_desc_table, inode_table, inode_array, imap, smap,
                       dir, alive, forking>>
    PROVE  FilesInv'
<1>. USE DEF FilesInv
<1>1. FilesTypeOK' /\ Forked' /\ InodeMapExact'
  BY DEF FilesTypeOK, Forked, InodeMapExact
<1>2. Counts'
  BY DEF Counts, SharersOf, UsersOf, CountedFds
<1>. QED  BY <1>1, <1>2

-----------------------------------------------------------------------------
(* create_file and do_unlink                                               *)

\* Both change the root directory's inode, one other inode, which no slot
\* holds, and a slot that was free.
LEMMA RootChanges ==
    ASSUME FilesInv, NEW num \in Inums, num # 1, ~InTable(num),
           NEW slot \in Cached, inode_table[slot].i_cnt = 0,
           NEW ino \in Inodes, ino.i_mode = "I_DIRECTORY", ino.i_size <= MaxSlots,
           inode_table' \in [Cached -> SlotType], inode_array' \in [Inums -> Inodes],
           inode_table'[1] = [i_num |-> 1, i_cnt |-> inode_table[1].i_cnt, ino |-> ino],
           \A s \in Cached \ {1, slot} : inode_table'[s] = inode_table[s],
           inode_table'[slot].i_cnt > 0 => /\ inode_table'[slot].i_num = num
                                           /\ inode_table'[slot].ino = inode_array'[num]
                                           /\ inode_array'[num].i_mode # "none",
           inode_array'[1] = ino,
           \A n \in Inums \ {1, num} : inode_array'[n] = inode_array[n]
    PROVE  /\ slot # 1
           /\ \A n \in Inums \ {num} : inode_array'[n].i_mode = inode_array[n].i_mode
           /\ SlotsIn(inode_table', inode_array') /\ RootIn(inode_table')
           /\ PositionsIn(inode_table', f_desc_table)
<1>. USE DEF FilesInv
<1>1. 1 \in Cached /\ 1 \in Inums
  BY Bounds DEF Cached, Inums
<1>2. /\ inode_table[1].i_cnt \in Nat /\ inode_table[1].i_cnt > 0
      /\ inode_table[1].i_num = 1 /\ inode_table[1].ino.i_mode = "I_DIRECTORY"
  BY <1>1, FieldsOf DEF RootIn
<1>3. slot # 1
  BY <1>2
<1>4. inode_array[1].i_mode = "I_DIRECTORY"
  BY <1>1, <1>2 DEF SlotsIn
<1>5. \A n \in Inums \ {num} : inode_array'[n].i_mode = inode_array[n].i_mode
  BY <1>1, <1>4
<1>6. /\ inode_table'[1].i_num = 1 /\ inode_table'[1].ino = ino
      /\ inode_table'[1].i_cnt = inode_table[1].i_cnt
  OBVIOUS
<1>7. RootIn(inode_table')
  BY <1>2, <1>6 DEF RootIn
<1>8. \A s \in Cached \ {1, slot} : inode_table[s].i_cnt > 0 =>
          inode_table[s].i_num \in Inums \ {1, num}
  BY <1>1, <1>2 DEF SlotsIn, InTable, Holds
<1>9. SlotsIn(inode_table', inode_array')
  <2>1. ASSUME NEW s \in Cached, inode_table'[s].i_cnt > 0
        PROVE  /\ inode_table'[s].i_num \in Inums
               /\ inode_table'[s].ino = inode_array'[inode_table'[s].i_num]
               /\ inode_table'[s].ino.i_mode # "none"
    <3>1. CASE s = 1
      BY <1>1, <1>6, <3>1
    <3>2. CASE s = slot
      BY <2>1, <3>2
    <3>3. CASE s \notin {1, slot}
      BY <1>8, <2>1, <3>3 DEF SlotsIn
    <3>. QED  BY <3>1, <3>2, <3>3
  <2>2. ASSUME NEW s \in Cached, inode_table'[s].i_cnt > 0,
               NEW s2 \in Cached, inode_table'[s2].i_cnt > 0,
               inode_table'[s2].i_num = inode_table'[s].i_num
        PROVE  s2 = s
    <3>1. \A x \in Cached : inode_table'[x].i_cnt > 0 =>
              \/ x = 1 /\ inode_table'[x].i_num = 1
              \/ x = slot /\ inode_table'[x].i_num = num
              \/ /\ x \notin {1, slot}
                 /\ inode_table'[x].i_num \notin {1, num}
                 /\ inode_table'[x] = inode_table[x]
      BY <1>6, <1>8
    <3>. QED  BY <2>2, <3>1 DEF SlotsIn
  <2>. QED  BY <2>1, <2>2 DEF SlotsIn
<1>10. PositionsIn(inode_table', f_desc_table)
  <2>1. ASSUME NEW d \in Descs, f_desc_table[d].fd_inode # 0
        PROVE  LET i == inode_table'[f_desc_table[d].fd_inode].ino IN
               /\ f_desc_table[d].fd_pos <= i.i_size
               /\ i.i_mode # "I_REGULAR" => f_desc_table[d].fd_pos = 0
    <3>1. PICK s : s = f_desc_table[d].fd_inode
      OBVIOUS
    <3>2. s \in Cached /\ s # slot
      BY <2>1, <3>1, DescLeads
    <3>3. /\ f_desc_table[d].fd_pos <= inode_table[s].ino.i_size
          /\ inode_table[s].ino.i_mode # "I_REGULAR" => f_desc_table[d].fd_pos = 0
      BY <2>1, <3>1 DEF PositionsIn
    <3>4. CASE s = 1
      <4>1. f_desc_table[d].fd_pos = 0 /\ ino.i_size \in Nat
        BY <1>2, <3>3, <3>4, RoomOf
      <4>. QED  BY <1>6, <3>1, <3>4, <4>1
    <3>5. CASE s # 1
      <4>1. inode_table'[s] = inode_table[s]
        BY <3>2, <3>5
      <4>. QED  BY <3>1, <3>3, <4>1
    <3>. QED  BY <3>4, <3>5
  <2>. QED  BY <2>1 DEF PositionsIn
<1>. QED  BY <1>3, <1>5, <1>7, <1>9, <1>10

\* The slot of a new entry comes after the last one or takes the place of one.
LEMMA EntrySlotThere ==
    ASSUME root.ino.i_size \in Nat
    PROVE  EntrySlot \in Nat /\ EntrySlot >= 1
<1>. DEFINE S == {k \in 1..root.ino.i_size : dir[k].inode_nr = 0} \cup {root.ino.i_size + 1}
<1>1. S \in SUBSET Nat /\ S # {} /\ \A k \in S : k >= 1
  OBVIOUS
<1>. HIDE DEF S
<1>2. Min(S) \in S
  BY <1>1, MinExists
<1>. QED  BY <1>1, <1>2 DEF EntrySlot, S

\* What new_dir_entry does to the inode numbers of the slots.
LEMMA NewEntry ==
    ASSUME FilesTypeOK, NEW num \in Inums, NEW name \in Paths,
           EntrySlot \in 1..MaxSlots
    PROVE  /\ new_dir_entry(num, name) \in [1..MaxSlots -> Entry]
           /\ new_dir_entry(num, name)[EntrySlot].inode_nr = num
           /\ \A j \in 1..MaxSlots : j # EntrySlot =>
                 new_dir_entry(num, name)[j].inode_nr \in {0, dir[j].inode_nr}
<1>1. PICK k : k = EntrySlot
  OBVIOUS
<1>. DEFINE old == dir[k].name
            e   == [inode_nr |-> num,
                    name |-> IF old \in LongNames \ {name} /\ name \notin LongNames
                             THEN GARBLED ELSE name]
            f(j) == CASE j = k -> e
                      [] j = k + 1 /\ name \in LongNames /\ k % DirSlots # 0 ->
                            [dir[j] EXCEPT !.inode_nr = 0]
                      [] OTHER -> dir[j]
<1>2. new_dir_entry(num, name) = [j \in 1..MaxSlots |-> f(j)]
  BY <1>1 DEF new_dir_entry
<1>3. e \in Entry
  BY Bounds DEF Entry, Inums
<1>. HIDE DEF e
<1>4. ASSUME NEW j \in 1..MaxSlots
      PROVE  f(j) \in Entry /\ (j # k => f(j).inode_nr \in {0, dir[j].inode_nr})
  <2>1. dir[j] \in Entry
    BY DEF FilesTypeOK
  <2>2. CASE j = k
    BY <1>3, <2>2
  <2>3. CASE j # k /\ j = k + 1 /\ name \in LongNames /\ k % DirSlots # 0
    <3>1. f(j) = [dir[j] EXCEPT !.inode_nr = 0]
      BY <2>3
    <3>. QED  BY <2>1, <2>3, <3>1, Bounds DEF Entry
  <2>4. CASE j # k /\ ~(j = k + 1 /\ name \in LongNames /\ k % DirSlots # 0)
    <3>1. f(j) = dir[j]
      BY <2>4
    <3>. QED  BY <2>1, <3>1
  <2>. QED  BY <2>2, <2>3, <2>4
<1>5. f(k).inode_nr = num
  <2>1. f(k) = e
    BY <1>1, Bounds
  <2>. QED  BY <2>1 DEF e
<1>. HIDE DEF f
<1>. QED  BY <1>1, <1>2, <1>4, <1>5

\* create_file keeps the invariant.
LEMMA CreateKeeps ==
    ASSUME FilesInv, NEW p \in Procs, NEW path \in NewPaths, create_file(p, path)
    PROVE  FilesInv'
<1>. USE DEF FilesInv
<1>1. PICK num, bits, slot, k :
          num = alloc_imap_bit /\ bits = alloc_smap_bit /\ slot = SlotFor(num) /\ k = EntrySlot
  OBVIOUS
<1>2. PICK size : size = Max({root.ino.i_size, k})
  OBVIOUS
<1>3. PICK new, dot : new = new_inode(num, bits) /\ dot = [root EXCEPT !.ino.i_size = size]
  OBVIOUS
<1>4. /\ p \in alive /\ FreeFds(p) # {} /\ FreeDescs # {}
      /\ 0..NrInodes \ imap # {} /\ k <= MaxSlots
      /\ Cardinality(bits) = NR_DEFAULT_FILE_SECTS /\ ~TableFull(num)
      /\ imap' = imap \cup {num} /\ smap' = smap \cup bits
      /\ dir' = new_dir_entry(num, path)
      /\ inode_table' = [get_inode(num) EXCEPT ![slot] = new, ![1] = dot]
      /\ inode_array' = sync_inode(sync_inode(inode_array, new), dot)
      /\ Connect(p, slot)
      /\ UNCHANGED <<alive, forking, failed>>
  BY <1>1, <1>2, <1>3 DEF create_file, Asks
<1>5. 1 \in Cached /\ 1 \in Inums
  BY Bounds DEF Cached, Inums
<1>6. /\ inode_table[1].i_cnt \in Nat /\ inode_table[1].i_cnt > 0
      /\ inode_table[1].i_num = 1 /\ inode_table[1].ino \in Inodes
      /\ inode_table[1].ino.i_mode = "I_DIRECTORY"
      /\ inode_table[1].ino.i_size \in Nat /\ inode_table[1].ino.i_size <= MaxSlots
      /\ inode_array[1] = inode_table[1].ino
  BY <1>5, FieldsOf, RoomOf DEF RootIn, SlotsIn
<1>7. num \in Inums /\ num \notin imap /\ inode_array[num].i_mode = "none" /\ num # 1
  <2>1. 0..NrInodes \ imap \in SUBSET Nat
    BY Bounds
  <2>2. num \in 0..NrInodes \ imap
    BY <1>1, <1>4, <2>1, MinExists DEF alloc_imap_bit
  <2>3. num \in Inums /\ inode_array[num].i_mode = "none"
    BY <2>2, Bounds DEF InodeMapExact, Inums
  <2>. QED  BY <1>6, <2>2, <2>3
<1>8. ~InTable(num)
  BY <1>7 DEF SlotsIn, InTable, Holds
<1>9. slot \in Cached /\ inode_table[slot].i_cnt = 0 /\ slot # 1
  BY <1>1, <1>4, <1>6, <1>7, <1>8, SlotFound
<1>10. bits \subseteq 0..NrSects /\ bits # {} /\ Min(bits) \in Nat
  <2>1. bits \subseteq 0..NrSects
    BY <1>1 DEF alloc_smap_bit, FreeBits
  <2>2. bits \in SUBSET Nat
    BY <2>1, Bounds
  <2>3. bits # {}
    BY <1>4, Bounds, FS_EmptySet
  <2>. QED  BY <2>1, <2>2, <2>3, MinExists
<1>11. k \in 1..MaxSlots
  BY <1>1, <1>4, <1>6, EntrySlotThere, Bounds DEF root
<1>12. size \in Nat /\ size <= MaxSlots
  <2>1. size = IF inode_table[1].ino.i_size <= k THEN k ELSE inode_table[1].ino.i_size
    BY <1>2, <1>6, <1>11, MaxOfTwo, Bounds DEF root
  <2>. QED  BY <1>6, <1>11, <2>1, Bounds
<1>13. PICK ino : ino = [inode_table[1].ino EXCEPT !.i_size = size]
  OBVIOUS
<1>14. /\ ino \in Inodes /\ ino.i_mode = "I_DIRECTORY" /\ ino.i_size <= MaxSlots
  BY <1>6, <1>12, <1>13 DEF Inodes
<1>15. dot = [i_num |-> 1, i_cnt |-> inode_table[1].i_cnt, ino |-> ino] /\ dot \in SlotType
  <2>1. inode_table[1] \in SlotType
    BY <1>5 DEF FilesTypeOK
  <2>2. dot = [inode_table[1] EXCEPT !.ino.i_size = size]
    BY <1>3 DEF root
  <2>3. dot = [i_num |-> 1, i_cnt |-> inode_table[1].i_cnt, ino |-> ino]
    BY <1>6, <1>13, <2>1, <2>2 DEF SlotType
  <2>. QED  BY <1>6, <1>14, <2>3, Bounds DEF SlotType
<1>16. PICK file : file = Inode("I_REGULAR", 0, Min(bits), NR_DEFAULT_FILE_SECTS)
  OBVIOUS
<1>17. /\ file \in Inodes /\ file.i_mode = "I_REGULAR" /\ file.i_size = 0
       /\ new = [i_num |-> num, i_cnt |-> 1, ino |-> file] /\ new \in SlotType
  <2>1. file \in Inodes /\ file.i_mode = "I_REGULAR" /\ file.i_size = 0
    BY <1>10, <1>16, Bounds DEF Inode, Inodes, Modes
  <2>2. new = [i_num |-> num, i_cnt |-> 1, ino |-> file]
    BY <1>3, <1>16 DEF new_inode
  <2>. QED  BY <1>7, <2>1, <2>2, Bounds DEF SlotType, Inums
<1>18. /\ inode_table' \in [Cached -> SlotType]
       /\ inode_table'[1] = dot /\ inode_table'[slot] = new
       /\ \A s \in Cached \ {1, slot} : inode_table'[s] = inode_table[s]
  <2>1. inode_table' = [[inode_table EXCEPT ![slot] = new] EXCEPT ![1] = dot]
    BY <1>1, <1>4 DEF get_inode
  <2>. QED  BY <1>5, <1>9, <1>15, <1>17, <2>1 DEF FilesTypeOK
<1>19. /\ inode_array' \in [Inums -> Inodes]
       /\ inode_array'[1] = ino /\ inode_array'[num] = file
       /\ \A n \in Inums \ {1, num} : inode_array'[n] = inode_array[n]
  <2>1. inode_array' = [[inode_array EXCEPT ![num] = file] EXCEPT ![1] = ino]
    BY <1>4, <1>15, <1>17 DEF sync_inode
  <2>. QED  BY <1>5, <1>7, <1>14, <1>17, <2>1 DEF FilesTypeOK
<1>20. /\ \A n \in Inums \ {num} : inode_array'[n].i_mode = inode_array[n].i_mode
       /\ SlotsIn(inode_table', inode_array') /\ RootIn(inode_table')
       /\ PositionsIn(inode_table', f_desc_table)
  <2>1. inode_table'[slot].i_cnt > 0 => /\ inode_table'[slot].i_num = num
                                        /\ inode_table'[slot].ino = inode_array'[num]
                                        /\ inode_array'[num].i_mode # "none"
    BY <1>17, <1>18, <1>19
  <2>. QED  BY <1>7, <1>8, <1>9, <1>14, <1>15, <1>18, <1>19, <2>1, RootChanges
<1>21. /\ inode_table'[slot].i_cnt = inode_table[slot].i_cnt + 1
       /\ \A s \in Cached \ {slot} : inode_table'[s].i_cnt = inode_table[s].i_cnt
  BY <1>9, <1>15, <1>17, <1>18
<1>22. /\ filp' \in [Procs -> [Fds -> 0..NR_FILE_DESC]]
       /\ f_desc_table' \in [Descs -> DescType]
       /\ Forked' /\ Counts'
  BY <1>4, <1>9, <1>21, ConnectKeeps
<1>23. PositionsIn(inode_table', f_desc_table')
  BY <1>4, <1>9, <1>18, <1>20, ConnectPositions
<1>24. /\ dir' \in [1..MaxSlots -> Entry] /\ dir'[k].inode_nr = num
       /\ \A j \in 1..MaxSlots : j # k => dir'[j].inode_nr \in {0, dir[j].inode_nr}
  BY <1>1, <1>4, <1>7, <1>11, NewEntry, FilesAssumption
<1>25. FilesTypeOK'
  <2>1. imap' \subseteq 0..NrInodes /\ smap' \subseteq 0..NrSects
    BY <1>4, <1>7, <1>10, Bounds DEF FilesTypeOK, Inums
  <2>. QED  BY <1>4, <1>18, <1>19, <1>22, <1>24, <2>1 DEF FilesTypeOK
<1>26. InodeMapExact'
  <2>1. \A n \in Inums : inode_array'[n].i_mode # "none" <=>
            n = num \/ inode_array[n].i_mode # "none"
    BY <1>17, <1>19, <1>20
  <2>. QED  BY <1>4, <1>7, <2>1 DEF InodeMapExact
<1>27. EntriesIn(dir', inode_array')
  <2>1. \A j \in 1..MaxSlots : dir[j].inode_nr # 0 =>
            dir[j].inode_nr \in Inums /\ dir[j].inode_nr # num
    BY <1>7, Bounds DEF FilesTypeOK, Entry, Inums, EntriesIn
  <2>2. inode_array'[num].i_mode # "none"
    BY <1>17, <1>19
  <2>3. \A j \in 1..MaxSlots : j # k /\ dir'[j].inode_nr # 0 =>
            /\ dir'[j].inode_nr = dir[j].inode_nr /\ dir[j].inode_nr # num
            /\ inode_array'[dir[j].inode_nr].i_mode # "none"
    BY <1>20, <1>24, <2>1 DEF EntriesIn
  <2>. QED  BY <1>7, <1>11, <1>24, <2>1, <2>2, <2>3 DEF EntriesIn
<1>28. SizesIn(inode_array')
  <2>1. 0 <= file.i_nr_sects * SECTOR_SIZE
    BY <1>17, RoomOf
  <2>. QED  BY <1>14, <1>17, <1>19, <2>1 DEF SizesIn
<1>. QED  BY <1>20, <1>22, <1>23, <1>25, <1>26, <1>27, <1>28

\* do_unlink of a file that nobody has open keeps the invariant.
LEMMA UnlinkedKeeps ==
    ASSUME FilesInv, NEW p \in Procs, NEW path \in Paths, Unlinked(p, path)
    PROVE  FilesInv'
<1>. USE DEF FilesInv
<1>1. PICK num, slot, k :
          num = search_file(path) /\ slot = SlotFor(num) /\ k = Min(SlotsOf(num))
  OBVIOUS
<1>2. PICK size : size = IF k = inode_table[1].ino.i_size
                         THEN Cardinality({j \in 1..k - 1 : dir[j].inode_nr # 0})
                         ELSE inode_table[1].ino.i_size
  OBVIOUS
<1>3. PICK gone, dot :
          /\ gone = [inode_table[slot] EXCEPT !.i_num = num, !.ino = NoInode]
          /\ dot = [inode_table[1] EXCEPT !.ino.i_size = size]
  OBVIOUS
<1>4. /\ num # 0 /\ ~TableFull(num) /\ ~InUse(path) /\ SlotsOf(num) # {}
      /\ imap' = imap \ {num} /\ smap' \subseteq smap
      /\ dir' = [dir EXCEPT ![k] = NoEntry]
      /\ inode_table' = [inode_table EXCEPT ![slot] = FreeSlot, ![1] = dot]
      /\ inode_array' = sync_inode(sync_inode(inode_array, gone), dot)
      /\ UNCHANGED <<filp, f_desc_table, alive, forking, failed>>
  BY <1>1, <1>2, <1>3 DEF Unlinked, root
<1>5. 1 \in Cached /\ 1 \in Inums
  BY Bounds DEF Cached, Inums
<1>6. /\ inode_table[1].i_cnt \in Nat /\ inode_table[1].i_cnt > 0
      /\ inode_table[1].i_num = 1 /\ inode_table[1].ino \in Inodes
      /\ inode_table[1].ino.i_mode = "I_DIRECTORY"
      /\ inode_table[1].ino.i_size \in Nat /\ inode_table[1].ino.i_size <= MaxSlots
      /\ inode_array[1] = inode_table[1].ino
  BY <1>5, FieldsOf, RoomOf DEF RootIn, SlotsIn
<1>7. num \in Inums /\ inode_array[num].i_mode = "I_REGULAR" /\ num # 1
  <2>1. num \in Inums /\ inode_array[num].i_mode = "I_REGULAR"
    BY <1>1, <1>4, SearchFinds DEF InUse
  <2>. QED  BY <1>6, <2>1
<1>8. slot \in Cached /\ inode_table[slot].i_cnt = 0 /\ ~InTable(num) /\ slot # 1
  <2>1. slot \in Cached /\ inode_table[slot].i_cnt \in Nat
    BY <1>1, <1>4, <1>7, SlotFound
  <2>2. get_inode(num)[slot].i_cnt = inode_table[slot].i_cnt + 1
    BY <1>1, <1>4, <1>7, <2>1, GetInodeFields
  <2>3. ~(get_inode(num)[slot].i_cnt > 1)
    BY <1>1, <1>4 DEF InUse
  <2>4. inode_table[slot].i_cnt = 0
    BY <2>1, <2>2, <2>3
  <2>5. ~InTable(num)
    BY <1>1, <1>4, <1>7, <2>4, SlotFound DEF Holds
  <2>. QED  BY <1>6, <2>1, <2>4, <2>5
<1>9. k \in 1..inode_table[1].ino.i_size /\ k \in 1..MaxSlots /\ dir[k].inode_nr = num
  <2>1. SlotsOf(num) \in SUBSET Nat
    BY DEF SlotsOf
  <2>2. k \in SlotsOf(num)
    BY <1>1, <1>4, <2>1, MinExists
  <2>. QED  BY <1>6, <2>2, Bounds DEF SlotsOf, root
<1>10. size \in Nat /\ size <= MaxSlots
  <2>. DEFINE before == {j \in 1..k - 1 : dir[j].inode_nr # 0}
  <2>1. k - 1 \in Nat
    BY <1>9
  <2>2. IsFiniteSet(1..k - 1) /\ Cardinality(1..k - 1) = k - 1
    BY <2>1, FS_Interval
  <2>3. before \in SUBSET (1..k - 1)
    OBVIOUS
  <2>. HIDE DEF before
  <2>4. Cardinality(before) \in Nat /\ Cardinality(before) <= k - 1
    BY <2>2, <2>3, FS_Subset, FS_CardinalityType
  <2>5. size \in {Cardinality(before), inode_table[1].ino.i_size}
    BY <1>2 DEF before
  <2>. QED  BY <1>6, <1>9, <2>4, <2>5, Bounds
<1>11. PICK ino : ino = [inode_table[1].ino EXCEPT !.i_size = size]
  OBVIOUS
<1>12. ino \in Inodes /\ ino.i_mode = "I_DIRECTORY" /\ ino.i_size <= MaxSlots
  BY <1>6, <1>10, <1>11 DEF Inodes
<1>13. dot = [i_num |-> 1, i_cnt |-> inode_table[1].i_cnt, ino |-> ino] /\ dot \in SlotType
  <2>1. inode_table[1] \in SlotType
    BY <1>5 DEF FilesTypeOK
  <2>2. dot = [i_num |-> 1, i_cnt |-> inode_table[1].i_cnt, ino |-> ino]
    BY <1>3, <1>6, <1>11, <2>1 DEF SlotType
  <2>. QED  BY <1>6, <1>12, <2>2, Bounds DEF SlotType
<1>14. gone.i_num = num /\ gone.ino = NoInode
  BY <1>3, <1>8 DEF FilesTypeOK, SlotType
<1>15. NoInode \in Inodes /\ NoInode.i_mode = "none"
  BY DEF NoInode, Inode, Inodes, Modes
<1>16. FreeSlot \in SlotType /\ FreeSlot.i_cnt = 0
  BY <1>15, Bounds DEF FreeSlot, SlotType
<1>17. /\ inode_table' \in [Cached -> SlotType]
       /\ inode_table'[1] = dot /\ inode_table'[slot].i_cnt = 0
       /\ \A s \in Cached \ {1, slot} : inode_table'[s] = inode_table[s]
  BY <1>4, <1>5, <1>8, <1>13, <1>16 DEF FilesTypeOK
<1>18. /\ inode_array' \in [Inums -> Inodes]
       /\ inode_array'[1] = ino /\ inode_array'[num] = NoInode
       /\ \A n \in Inums \ {1, num} : inode_array'[n] = inode_array[n]
  <2>1. inode_array' = [[inode_array EXCEPT ![num] = NoInode] EXCEPT ![1] = ino]
    BY <1>4, <1>13, <1>14 DEF sync_inode
  <2>. QED  BY <1>5, <1>7, <1>12, <1>15, <2>1 DEF FilesTypeOK
<1>19. /\ \A n \in Inums \ {num} : inode_array'[n].i_mode = inode_array[n].i_mode
       /\ SlotsIn(inode_table', inode_array') /\ RootIn(inode_table')
       /\ PositionsIn(inode_table', f_desc_table)
  BY <1>7, <1>8, <1>12, <1>13, <1>17, <1>18, RootChanges
<1>20. Counts'
  <2>1. \A s \in Cached : inode_table'[s].i_cnt = inode_table[s].i_cnt
    BY <1>8, <1>13, <1>17
  <2>2. \A s \in Cached : inode_table'[s].i_cnt >= inode_table[s].i_cnt
    BY <2>1, FieldsOf
  <2>. QED  BY <1>4, <1>17, <2>2, CountsMore
<1>21. /\ dir' \in [1..MaxSlots -> Entry] /\ dir'[k].inode_nr = 0
       /\ \A j \in 1..MaxSlots : j # k => dir'[j] = dir[j]
  <2>1. NoEntry \in Entry /\ NoEntry.inode_nr = 0
    BY Bounds DEF NoEntry, Entry
  <2>. QED  BY <1>4, <1>9, <2>1 DEF FilesTypeOK
<1>22. FilesTypeOK' /\ Forked'
  <2>1. imap' \subseteq 0..NrInodes /\ smap' \subseteq 0..NrSects
    BY <1>4 DEF FilesTypeOK
  <2>2. /\ filp' \in [Procs -> [Fds -> 0..NR_FILE_DESC]]
        /\ f_desc_table' \in [Descs -> DescType]
        /\ alive' \subseteq Procs /\ failed' \in {"no", "full", "assert(flg)", "assert(fsbuf)"}
        /\ forking' = <<>> \/ forking' \in Procs \X Procs
    BY <1>4 DEF FilesTypeOK
  <2>3. FilesTypeOK'
    BY <1>17, <1>18, <1>21, <2>1, <2>2 DEF FilesTypeOK
  <2>. QED  BY <1>4, <2>3 DEF Forked
<1>23. InodeMapExact'
  <2>1. \A n \in Inums : inode_array'[n].i_mode # "none" <=>
            n # num /\ inode_array[n].i_mode # "none"
    BY <1>15, <1>18, <1>19
  <2>2. num # 0
    BY <1>4
  <2>. QED  BY <1>4, <2>1, <2>2 DEF InodeMapExact
<1>24. EntriesIn(dir', inode_array')
  <2>1. \A j \in 1..MaxSlots : j # k /\ dir[j].inode_nr # 0 =>
            dir[j].inode_nr \in Inums \ {num}
    BY <1>4, <1>9, Bounds DEF FilesTypeOK, Entry, Inums, EntriesIn
  <2>. QED  BY <1>19, <1>21, <2>1 DEF EntriesIn
<1>25. SizesIn(inode_array')
  BY <1>12, <1>15, <1>18 DEF SizesIn
<1>. QED  BY <1>4, <1>19, <1>20, <1>22, <1>23, <1>24, <1>25

-----------------------------------------------------------------------------
(* The theorems                                                            *)

\* A new file system satisfies the invariant.
LEMMA FilesInitially == Init => FilesInv
<1>. SUFFICES ASSUME Init  PROVE FilesInv
  OBVIOUS
<1>. USE DEF Init, init_fs, mkfs
<1>1. 1 \in Cached /\ {1, 2, 3} \subseteq Inums /\ {1, 2, 3} \subseteq 1..MaxSlots
  BY Bounds DEF Cached, Inums
<1>2. /\ RootInode \in Inodes /\ RootInode.i_mode = "I_DIRECTORY" /\ RootInode.i_size = 3
      /\ TtyInode \in Inodes /\ TtyInode.i_mode = "I_CHAR_SPECIAL"
      /\ NoInode \in Inodes /\ NoInode.i_mode = "none"
  BY Bounds DEF RootInode, TtyInode, NoInode, Inode, Inodes, Modes
<1>3. /\ TarInode \in Inodes /\ TarInode.i_mode = "I_REGULAR"
      /\ TarInode.i_size <= TarInode.i_nr_sects * SECTOR_SIZE
  <2>1. INSTALL_NR_SECTS * SECTOR_SIZE \in Nat
    BY Bounds
  <2>. QED  BY <2>1, Bounds DEF TarInode, Inode, Inodes, Modes
<1>4. /\ inode_array[1] = RootInode /\ inode_array[2] = TtyInode /\ inode_array[3] = TarInode
      /\ \A n \in Inums \ {1, 2, 3} : inode_array[n] = NoInode
      /\ inode_array \in [Inums -> Inodes]
  BY <1>1, <1>2, <1>3
<1>5. /\ f_desc_table \in [Descs -> DescType]
      /\ \A d \in Descs : f_desc_table[d].fd_inode = 0 /\ f_desc_table[d].fd_cnt = 0
  BY Bounds DEF FreeDesc, DescType
<1>6. /\ inode_table \in [Cached -> SlotType]
      /\ inode_table[1] = [i_num |-> 1, i_cnt |-> 1, ino |-> RootInode]
      /\ \A s \in Cached \ {1} : inode_table[s].i_cnt = 0
  BY <1>1, <1>2, Bounds DEF FreeSlot, SlotType
<1>7. /\ filp \in [Procs -> [Fds -> 0..NR_FILE_DESC]]
      /\ \A p \in Procs, fd \in Fds : filp[p][fd] = 0
  BY Bounds
<1>8. /\ dir \in [1..MaxSlots -> Entry]
      /\ dir[1].inode_nr = 1 /\ dir[2].inode_nr = 2 /\ dir[3].inode_nr = 3
      /\ \A k \in (1..MaxSlots) \ {1, 2, 3} : dir[k].inode_nr = 0
  <2>1. ASSUME NEW nr \in 0..NrInodes, NEW name \in {DOT, TTY, TAR, NONE}
        PROVE  [inode_nr |-> nr, name |-> name] \in Entry
    BY DEF Entry
  <2>2. {0, 1, 2, 3} \subseteq 0..NrInodes
    BY Bounds
  <2>3. \A k \in 1..MaxSlots : dir[k] = CASE k = 1 -> [inode_nr |-> 1, name |-> DOT]
                                         [] k = 2 -> [inode_nr |-> 2, name |-> TTY]
                                         [] k = 3 -> [inode_nr |-> 3, name |-> TAR]
                                         [] OTHER -> NoEntry
    OBVIOUS
  <2>. QED  BY <1>1, <2>1, <2>2, <2>3 DEF NoEntry
<1>9. imap \subseteq 0..NrInodes /\ smap \subseteq 0..NrSects
  <2>1. imap \subseteq 0..NrInodes
    BY Bounds
  <2>2. 0..NR_DEFAULT_FILE_SECTS \subseteq 0..NrSects
    BY Bounds, FilesAssumption
  <2>3. Extent(TarInode) \subseteq 0..NrSects
    BY Bounds, FilesAssumption DEF Extent, TarInode, Inode
  <2>. QED  BY <2>1, <2>2, <2>3
<1>10. FilesTypeOK
  BY <1>4, <1>5, <1>6, <1>7, <1>8, <1>9 DEF FilesTypeOK
<1>11. Forked
  BY <1>7 DEF Forked
<1>12. Counts
  <2>1. \A u \in CountedFds : filp[u[1]][u[2]] = 0
    BY <1>7 DEF CountedFds
  <2>2. 0 \notin Descs
    BY Bounds DEF Descs
  <2>3. \A d \in Descs : Cardinality(SharersOf(d)) = 0
    BY <2>1, <2>2, NoneCountsZero DEF SharersOf
  <2>4. \A s \in Cached : Cardinality(UsersOf(s)) = 0
    BY <2>1, NoneCountsZero DEF UsersOf
  <2>. QED  BY <1>5, <1>6, <2>3, <2>4 DEF Counts, Own
<1>13. SlotsIn(inode_table, inode_array) /\ RootIn(inode_table)
  BY <1>1, <1>2, <1>4, <1>6, Bounds DEF SlotsIn, RootIn
<1>14. InodeMapExact
  BY <1>1, <1>2, <1>3, <1>4, Bounds DEF InodeMapExact, Inums
<1>15. EntriesIn(dir, inode_array)
  BY <1>1, <1>2, <1>3, <1>4, <1>8 DEF EntriesIn
<1>16. SizesIn(inode_array)
  BY <1>2, <1>3, <1>4 DEF SizesIn
<1>17. PositionsIn(inode_table, f_desc_table)
  BY <1>5 DEF PositionsIn
<1>. QED  BY <1>10, <1>11, <1>12, <1>13, <1>14, <1>15, <1>16, <1>17 DEF FilesInv

\* Every request, and both halves of a fork, keep it.
LEMMA FilesStep == FilesInv /\ [Next]_vars => FilesInv'
<1>. SUFFICES ASSUME FilesInv, [Next]_vars  PROVE FilesInv'
  OBVIOUS
<1>1. ASSUME NEW p \in Procs, NEW path \in Paths, OpenFile(p, path)  PROVE FilesInv'
  BY <1>1, OpenKeeps
<1>2. ASSUME NEW p \in Procs, NEW path, NEW creat \in BOOLEAN, NoRoom(p, path, creat)
      PROVE  FilesInv'
  BY <1>2, StopKeeps DEF NoRoom, disk
<1>3. ASSUME NEW p \in Procs, NEW path \in NewPaths, create_file(p, path)  PROVE FilesInv'
  BY <1>3, CreateKeeps
<1>4. ASSUME NEW p \in Procs, NEW path \in Paths, do_unlink(p, path)  PROVE FilesInv'
  <2>1. CASE UnlinkRefused(p, path)
    BY <2>1, RefusedKeeps
  <2>2. CASE Unlinked(p, path)
    BY <2>2, UnlinkedKeeps
  <2>3. CASE UnlinkAsserts(p, path)
    BY <2>3, StopKeeps DEF UnlinkAsserts, disk
  <2>. QED  BY <1>4, <2>1, <2>2, <2>3 DEF do_unlink
<1>5. ASSUME NEW p \in Procs, NEW path \in Paths, do_stat(p, path)  PROVE FilesInv'
  BY <1>5, StopKeeps DEF do_stat, disk
<1>6. ASSUME NEW p \in Procs, NEW fd \in Fds, do_close(p, fd)  PROVE FilesInv'
  BY <1>6, CloseKeeps
<1>7. ASSUME NEW p \in Procs, NEW fd \in Fds, NEW op \in {"READ", "WRITE"},
             NEW len \in Lengths, do_rdwt(p, fd, op, len)
      PROVE  FilesInv'
  BY <1>7, RdwtKeeps
<1>8. ASSUME NEW p \in Procs, NEW c \in Procs, do_fork(p, c)  PROVE FilesInv'
  BY <1>8, ForkKeeps
<1>9. ASSUME NEW p \in Procs, fs_exit(p)  PROVE FilesInv'
  BY <1>9, ExitKeeps
<1>10. CASE fs_fork
  BY <1>10, CountForkKeeps
<1>11. CASE UNCHANGED vars
  <2>1. failed \in {"no", "full", "assert(flg)", "assert(fsbuf)"}
    BY DEF FilesInv, FilesTypeOK
  <2>. QED  BY <1>11, <2>1, StopKeeps DEF vars
<1>. QED
  BY <1>1, <1>2, <1>3, <1>4, <1>5, <1>6, <1>7, <1>8, <1>9, <1>10, <1>11 DEF Next

\* The invariant holds always.
LEMMA FilesInvariant == Spec => []FilesInv
BY FilesInitially, FilesStep, PTL DEF Spec

\* fd_cnt is exactly the number of fds that share a descriptor and i_cnt at
\* least the number of fds that lead to an inode, and no inode is in two slots,
\* whatever opens, closes, forks and exits come in between the halves of a fork.
THEOREM CountsAlwaysCoverUsers == Spec => []CountsCoverUsers
<1>1. FilesInv => CountsCoverUsers
  <2>. SUFFICES ASSUME FilesInv  PROVE CountsCoverUsers
    OBVIOUS
  <2>. USE DEF FilesInv
  <2>1. \A s \in Cached : inode_table[s].i_cnt >= Cardinality(UsersOf(s))
    <3>1. \A s \in Cached : inode_table[s].i_cnt \in Nat /\ Cardinality(UsersOf(s)) \in Nat
      BY FieldsOf, FdsFinite, UsersAreFds
    <3>. QED  BY <3>1 DEF Counts, Own
  <2>2. \A s \in Cached : \A s2 \in Cached \ {s} :
            inode_table[s].i_cnt > 0 => ~Holds(s2, inode_table[s].i_num)
    BY DEF SlotsIn, Holds
  <2>. QED  BY <2>1, <2>2 DEF CountsCoverUsers, Counts
<1>. QED  BY <1>1, FilesInvariant, PTL

\* An open file exists and nobody is past its end: unlink cannot take the inode
\* of a file that somebody has open.  The inode map has a bit for every inode
\* that exists and no other.
THEOREM FilesAlwaysSound == Spec => []FilesSound
<1>1. FilesInv => FilesSound
  <2>. SUFFICES ASSUME FilesInv  PROVE FilesSound
    OBVIOUS
  <2>. USE DEF FilesInv
  <2>1. ASSUME NEW d \in Descs, NEW s, s = f_desc_table[d].fd_inode, s # 0
        PROVE  /\ inode_table[s].i_num \in imap /\ inode_table[s].ino.i_mode # "none"
               /\ f_desc_table[d].fd_pos <= inode_table[s].ino.i_size
               /\ inode_table[s].ino.i_mode = "I_REGULAR" =>
                     inode_table[s].ino.i_size <= inode_table[s].ino.i_nr_sects * SECTOR_SIZE
    <3>1. s \in Cached /\ inode_table[s].i_cnt > 0
      BY <2>1, DescLeads
    <3>2. PICK num \in Inums : /\ num = inode_table[s].i_num
                               /\ inode_table[s].ino = inode_array[num]
                               /\ inode_array[num].i_mode # "none"
      BY <3>1 DEF SlotsIn
    <3>3. num \in imap
      BY <3>2 DEF InodeMapExact
    <3>4. f_desc_table[d].fd_pos <= inode_table[s].ino.i_size
      BY <2>1 DEF PositionsIn
    <3>. QED  BY <3>2, <3>3, <3>4 DEF SizesIn
  <2>. QED  BY <2>1 DEF FilesSound, OpenFilesExist, FilesInv
<1>. QED  BY <1>1, FilesInvariant, PTL

\* No slot of the inode table is given up or looked at while it differs from
\* the inode on the disk.
THEOREM CacheIsAlwaysDisk == Spec => []CacheIsDisk
<1>1. FilesInv => CacheIsDisk
  BY DEF FilesInv, SlotsIn, CacheIsDisk
<1>. QED  BY <1>1, FilesInvariant, PTL
=============================================================================
